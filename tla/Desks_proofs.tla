---------------------------- MODULE Desks_proofs ----------------------------
(***************************************************************************)
(* Proofs about a seller's packages, for any certs, packages, mails, calls *)
(* and failures.                                                           *)
(*   MintQueue: whose task a card in "minting" is, where the token of a    *)
(*     completed card is, and what a finished review of a mail vouches for. *)
(*   VaultIntake: a shipped package stays as it is, its cards reach the    *)
(*     mint queue and are minted on one path only, and a review says what  *)
(*     it moved.                                                           *)
(* The desk at PSA is MintQueue, the way to it VaultIntake; MCDesks runs   *)
(* either.                                                                 *)
(***************************************************************************)
EXTENDS MCDesks, TLAPS

-----------------------------------------------------------------------------
(* The mint queue: records and calls                                       *)

\* A call that mints a new cycle of its card, and one whose card has a token.
InMint(r) == ~r.adopt /\ r.pc \in {"attach", "link", "mint"}
Minted(r) == \/ r.pc \in {"record", "complete", "completed", "close", "closing",
                          "deliver"}
             \/ r.adopt /\ r.pc \in {"attach", "link"}

\* Where a call may be with an item in hand, and with which marks.
Between == {"idle", "match", "next", "outcome", "save", "label"}

PlaceOK(r) ==
  /\ r.pc \in Between <=> r.item = NoItem
  /\ r.pc \in Between \ {"idle"} => r.mail \in Mails
  /\ r.pc \in {"mint", "record"} => ~r.adopt
  /\ r.pc \in {"match", "next", "start", "find", "reserve"} => ~r.adopt /\ ~r.linked
  /\ r.pc \in {"attach", "link"} => ~r.linked

\* What a call knows of its item's row it, cycle c and token t.
WorkOK(r, it, c, t) ==
  /\ InMint(r) => c.st = "open" /\ c.n = r.n /\ t = "none"
  /\ Minted(r) => c.n = r.n /\ t # "none"
  /\ InMint(r) \/ Minted(r) => r.n # 0
  /\ r.adopt /\ r.pc \in {"complete", "completed", "close", "closing"} =>
       t \in {"user", "sold"}
  /\ /\ r.linked /\ ~r.adopt /\ r.pc \in {"mint", "record", "complete"}
     /\ it.status = "minting"
     => it.cycle = r.n

CycleOK(c, t) ==
  /\ c.st = "none" => t = "none"
  /\ c.st = "minted" => t # "none"
  /\ c.st # "none" => c.n # 0

Working == \A m \in Minters : LET i == at[m].item IN
  /\ PlaceOK(at[m])
  /\ i # NoItem => WorkOK(at[m], item[i], cycle[i], nft[i])

OneMint == \A m, x \in Minters :
  InMint(at[m]) /\ InMint(at[x]) /\ at[m].item = at[x].item => m = x

QueueBase == /\ QueueTypeOK /\ Working /\ OneMint
             /\ \A i \in Items : CycleOK(cycle[i], nft[i])

\* A call that has linked its item, or is in its catch, has not let go of it.
Owing(r) == \/ r.pc \in {"catch", "reset"}
            \/ r.linked /\ r.pc \in {"mint", "record", "complete", "completed"}
            \/ r.adopt /\ r.pc \in {"deliver", "complete", "completed"}

MintingOwed == \A i \in Items : item[i].status = "minting" =>
  i \in cut \/ \E m \in Minters : at[m].item = i /\ Owing(at[m])

\* A run accounts for every cert of its mail.
RunOK(r, certs) ==
  /\ r.mail \in Mails => certs # {}
  /\ /\ r.mail \in Mails
     /\ r.pc \notin {"idle", "match", "label", "outcome", "save"}
     => certs \subseteq r.todo \cup {r.item} \cup r.ok \cup r.bad
  /\ r.pc \in {"outcome", "save"} => certs \subseteq r.ok \cup r.bad

RunsOK == \A m \in Minters :
  /\ RunOK(at[m], named[at[m].mail])
  /\ \A i \in at[m].ok \cup at[m].had.ok : Delivered(i)

ReviewsOK == \A v \in Mails :
  /\ review[v].status # "none" => named[v] # {}
  /\ review[v].status = "minted" => named[v] \subseteq review[v].ok \cup review[v].bad
  /\ \A i \in review[v].ok : Delivered(i)
-----------------------------------------------------------------------------
(* What holds of the rows, and of each call and its card.                  *)

\* The types of the rows.
TablesOK ==
  /\ package \in {"psa_reviewing", "completed"}
  /\ item \in [Items -> [status : ItemStatuses, cycle : 0..MaxCycles]]
  /\ \A i \in Items :
       item[i].cycle # 0 <=> item[i].status \in {"minting", "completed"}
  /\ cycle \in [Items -> [n : 0..MaxCycles, st : {"none", "open", "minted"}]]
  /\ nft \in [Items -> {"none", "custody", "user", "sold"}]
  /\ named \in [Mails -> SUBSET Items] /\ labelled \in SUBSET Mails
  /\ review \in [Mails -> [status : {"none", "pending", "minted", "failed",
                                     "dismissed"},
                           ok : SUBSET Items, bad : SUBSET Items]]
  /\ stranded \in SUBSET Items /\ cut \in SUBSET Items
  /\ clobbered \in SUBSET Items
  /\ runs \in Nat /\ mishaps \in Nat

LEMMA QueueTypesSplit ==
  /\ QueueTypeOK <=> TablesOK /\ at \in [Minters -> MinterStates]
  /\ QueueTypeOK' <=> TablesOK' /\ at' \in [Minters -> MinterStates]
BY DEF QueueTypeOK, TablesOK

\* One call moves to r, and the rows of the others' cards go on suiting them.
LEMMA CallMoves ==
  ASSUME QueueBase, NEW m \in Minters, NEW r \in MinterStates,
         at' = [at EXCEPT ![m] = r],
         TablesOK', PlaceOK(r),
         r.item # NoItem => WorkOK(r, item'[r.item], cycle'[r.item], nft'[r.item]),
         InMint(r) => \/ InMint(at[m]) /\ at[m].item = r.item
                      \/ \A x \in Minters \ {m} :
                           ~(InMint(at[x]) /\ at[x].item = r.item),
         \A x \in Minters \ {m} : at[x].item # NoItem =>
           WorkOK(at[x], item'[at[x].item], cycle'[at[x].item], nft'[at[x].item]),
         \A i \in Items : CycleOK(cycle'[i], nft'[i])
  PROVE  QueueBase'
<1>1. at \in [Minters -> MinterStates]
  BY DEF QueueBase, QueueTypeOK
<1>2. at' \in [Minters -> MinterStates] /\ QueueTypeOK'
  BY <1>1, QueueTypesSplit
<1>3. \A x \in Minters : at'[x] = IF x = m THEN r ELSE at[x]
  BY <1>1
<1>4. Working'
  <2>1. \A x \in Minters : PlaceOK(at[x])
    BY DEF QueueBase, Working
  <2>2. \A x \in Minters : PlaceOK(at'[x])
    BY <1>3, <2>1
  <2>3. \A x \in Minters : at'[x].item # NoItem =>
          WorkOK(at'[x], item'[at'[x].item], cycle'[at'[x].item], nft'[at'[x].item])
    BY <1>3
  <2> QED BY <2>2, <2>3 DEF Working
<1>5. OneMint'
  <2>1. \A x, y \in Minters :
          InMint(at[x]) /\ InMint(at[y]) /\ at[x].item = at[y].item => x = y
    BY DEF QueueBase, OneMint
  <2>2. ASSUME NEW x \in Minters, NEW y \in Minters,
               InMint(at'[x]), InMint(at'[y]), at'[x].item = at'[y].item
        PROVE  x = y
    BY <2>1, <2>2, <1>3
  <2> QED BY <2>2 DEF OneMint
<1> QED BY <1>2, <1>4, <1>5 DEF QueueBase

\* A move that leaves the items, the cycles and the tokens alone.
LEMMA QuietMoves ==
  ASSUME QueueBase, NEW m \in Minters, NEW r \in MinterStates,
         at' = [at EXCEPT ![m] = r],
         UNCHANGED <<package, item, cycle, nft, named, clobbered>>,
         labelled' \in SUBSET Mails, runs' \in Nat, mishaps' \in Nat,
         stranded' \in SUBSET Items, cut' \in SUBSET Items,
         review' \in [Mails -> [status : {"none", "pending", "minted", "failed",
                                          "dismissed"},
                                ok : SUBSET Items, bad : SUBSET Items]],
         PlaceOK(r),
         r.item # NoItem => WorkOK(r, item[r.item], cycle[r.item], nft[r.item]),
         InMint(r) => InMint(at[m]) /\ at[m].item = r.item
  PROVE  QueueBase'
<1>1. TablesOK'
  BY QueueTypesSplit DEF QueueBase, TablesOK
<1>2. \A x \in Minters \ {m} : at[x].item # NoItem =>
           WorkOK(at[x], item'[at[x].item], cycle'[at[x].item], nft'[at[x].item])
  BY DEF QueueBase, Working
<1>3. \A i \in Items : CycleOK(cycle'[i], nft'[i])
  BY DEF QueueBase
<1>4. r.item # NoItem => WorkOK(r, item'[r.item], cycle'[r.item], nft'[r.item])
  OBVIOUS
<1> QED BY <1>1, <1>2, <1>3, <1>4, CallMoves

LEMMA QueueBaseInit == QueueInit => QueueBase
<1> SUFFICES ASSUME QueueInit PROVE QueueBase
  OBVIOUS
<1>1. Idle \in MinterStates /\ Idle.pc = "idle" /\ Idle.item = NoItem
  BY QueueAssumption DEF Idle, MinterStates
<1>2. \A m \in Minters : at[m] = Idle
  BY DEF QueueInit
<1>3. at \in [Minters -> MinterStates]
  BY <1>1 DEF QueueInit
<1>4. TablesOK
  BY QueueAssumption DEF QueueInit, TablesOK, ItemStatuses, NoReview
<1>5. Working
  BY <1>1, <1>2 DEF Working, PlaceOK, Between
<1>6. OneMint
  BY <1>1, <1>2 DEF OneMint, InMint
<1>7. \A i \in Items : CycleOK(cycle[i], nft[i])
  BY DEF QueueInit, CycleOK
<1> QED BY <1>3, <1>4, <1>5, <1>6, <1>7, QueueTypesSplit DEF QueueBase

\* What a call holds once it is through with an item, or with a review.
ItemOver(r, good) ==
  IF r.mail = NoItem THEN Idle
  ELSE [r EXCEPT !.pc = "next", !.item = NoItem, !.prior = "reviewing",
                 !.n = 0, !.linked = FALSE, !.adopt = FALSE,
                 !.ok = IF good THEN @ \cup {r.item} ELSE @,
                 !.bad = IF good THEN @ ELSE @ \cup {r.item}]

RunOver(m) == IF m = Poll THEN [Idle EXCEPT !.pc = "label", !.mail = at[m].mail]
                          ELSE Idle

LEMMA IdleCall ==
  /\ Idle \in MinterStates /\ PlaceOK(Idle) /\ Idle.item = NoItem /\ ~InMint(Idle)
  /\ Idle.pc = "idle" /\ Idle.mail = NoItem /\ ~Owing(Idle)
  /\ ~Idle.adopt /\ ~Idle.linked /\ Idle.ok = {} /\ Idle.had.ok = {}
BY QueueAssumption DEF Idle, MinterStates, PlaceOK, Between, InMint, Owing

LEMMA ItemOverOK ==
  ASSUME NEW r \in MinterStates, r.item \in Items, NEW good \in BOOLEAN
  PROVE  /\ ItemOver(r, good) \in MinterStates /\ PlaceOK(ItemOver(r, good))
         /\ ItemOver(r, good).item = NoItem /\ ~InMint(ItemOver(r, good))
<1>1. CASE r.mail = NoItem
  BY <1>1, IdleCall DEF ItemOver
<1>2. CASE r.mail # NoItem
  <2> DEFINE e == [r EXCEPT !.pc = "next", !.item = NoItem, !.prior = "reviewing",
                 !.n = 0, !.linked = FALSE, !.adopt = FALSE,
                 !.ok = IF good THEN @ \cup {r.item} ELSE @,
                 !.bad = IF good THEN @ ELSE @ \cup {r.item}]
  <2>1. ItemOver(r, good) = e
    BY <1>2 DEF ItemOver
  <2>2. /\ e.pc = "next" /\ e.item = NoItem /\ e.mail = r.mail /\ e.linked = FALSE
        /\ e.adopt = FALSE
    BY DEF MinterStates
  <2>3. r.mail \in Mails
    BY <1>2 DEF MinterStates
  <2>4. e \in MinterStates
    <3> DEFINE ok  == IF good THEN r.ok \cup {r.item} ELSE r.ok
               bad == IF good THEN r.bad ELSE r.bad \cup {r.item}
    <3>1. ok \in SUBSET Items /\ bad \in SUBSET Items /\ 0 \in 0..MaxCycles
      BY QueueAssumption DEF MinterStates
    <3>2. e = [r EXCEPT !.pc = "next", !.item = NoItem, !.prior = "reviewing",
                 !.n = 0, !.linked = FALSE, !.adopt = FALSE, !.ok = ok, !.bad = bad]
      BY DEF MinterStates
    <3> HIDE DEF e, ok, bad
    <3> QED BY <3>1, <3>2 DEF MinterStates
  <2>5. PlaceOK(e) /\ ~InMint(e)
    <3> HIDE DEF e
    <3> QED BY <2>2, <2>3 DEF PlaceOK, Between, InMint
  <2> QED BY <2>1, <2>2, <2>4, <2>5
<1> QED BY <1>1, <1>2

LEMMA RunOverOK ==
  ASSUME NEW m \in Minters, at[m] \in MinterStates, at[m].mail \in Mails
  PROVE  /\ RunOver(m) \in MinterStates /\ PlaceOK(RunOver(m))
         /\ RunOver(m).item = NoItem /\ ~InMint(RunOver(m))
<1>1. CASE m = Poll
  <2> DEFINE e == [Idle EXCEPT !.pc = "label", !.mail = at[m].mail]
  <2>1. e.pc = "label" /\ e.item = NoItem /\ e.mail = at[m].mail /\ ~e.adopt
    BY DEF Idle
  <2>3. e \in MinterStates
    <3>1. at[m].mail \in Mails \cup {NoItem}
      OBVIOUS
    <3> HIDE DEF e
    <3>2. e = [Idle EXCEPT !.pc = "label", !.mail = at[m].mail]
      BY DEF e
    <3> QED BY <3>1, <3>2, IdleCall DEF MinterStates
  <2>2. RunOver(m) = e
    BY <1>1 DEF RunOver
  <2> HIDE DEF e
  <2> QED BY <2>1, <2>2, <2>3 DEF PlaceOK, Between, InMint
<1>2. CASE m # Poll
  BY <1>2, IdleCall DEF RunOver
<1> QED BY <1>1, <1>2

\* What the base says of one call.
LEMMA CallFacts ==
  ASSUME QueueBase, NEW m \in Minters
  PROVE  /\ at[m] \in MinterStates /\ PlaceOK(at[m])
         /\ at[m].item # NoItem =>
              /\ at[m].item \in Items
              /\ WorkOK(at[m], item[at[m].item], cycle[at[m].item], nft[at[m].item])
              /\ CycleOK(cycle[at[m].item], nft[at[m].item])
BY DEF QueueBase, QueueTypeOK, Working, MinterStates

\* A run of a review that moves on, its hands empty.
LEMMA ReviewMoves ==
  ASSUME QueueBase, NEW m \in Minters, NEW r \in MinterStates,
         at' = [at EXCEPT ![m] = r], PlaceOK(r), r.item = NoItem,
         UNCHANGED <<package, item, cycle, nft, named, clobbered, stranded, cut>>,
         labelled' \in SUBSET Mails, runs' \in Nat, mishaps' \in Nat,
         review' \in [Mails -> [status : {"none", "pending", "minted", "failed",
                                          "dismissed"},
                                ok : SUBSET Items, bad : SUBSET Items]]
  PROVE  QueueBase'
<1>1. ~InMint(r)
  BY DEF PlaceOK, Between, InMint
<1>2. stranded' \in SUBSET Items /\ cut' \in SUBSET Items
  BY DEF QueueBase, QueueTypeOK
<1> QED BY <1>1, <1>2, QuietMoves

LEMMA RunsReviewBase ==
  ASSUME QueueBase, NEW m \in Minters, RunsReview(m)
  PROVE  QueueBase'
<1>1. /\ at[m] \in MinterStates /\ PlaceOK(at[m])
      /\ named \in [Mails -> SUBSET Items] /\ labelled \in SUBSET Mails
      /\ runs \in Nat /\ mishaps \in Nat
      /\ review \in [Mails -> [status : {"none", "pending", "minted", "failed",
                                          "dismissed"},
                                ok : SUBSET Items, bad : SUBSET Items]]
  BY CallFacts DEF QueueBase, QueueTypeOK
<1>2. CASE MatchItems(m)
  <2> DEFINE v == at[m].mail
             queue == {i \in named[v] : Mintable(i)}
             r1 == [at[m] EXCEPT !.pc = "outcome", !.bad = named[v]]
             r2 == [at[m] EXCEPT !.pc = "next", !.todo = queue,
                                 !.bad = Unmatched(v, queue)]
  <2>1. /\ at[m].pc = "match" /\ v \in Mails /\ at[m].item = NoItem
        /\ ~at[m].adopt /\ ~at[m].linked
    BY <1>1, <1>2 DEF MatchItems, PlaceOK, Between
  <2>2. /\ \E r \in {RunOver(m), r1, r2} : at' = [at EXCEPT ![m] = r]
        /\ UNCHANGED <<rows, mails, history, mishaps, runs>>
    BY <1>2 DEF MatchItems, RunEnds, Put, RunOver
  <2>3. named[v] \in SUBSET Items /\ queue \in SUBSET Items
        /\ Unmatched(v, queue) \in SUBSET Items
    BY <1>1, <2>1 DEF Unmatched
  <2>4. r1 \in MinterStates /\ PlaceOK(r1) /\ r1.item = NoItem
    BY <1>1, <2>1, <2>3 DEF MinterStates, PlaceOK, Between
  <2>5. r2 \in MinterStates /\ PlaceOK(r2) /\ r2.item = NoItem
    BY <1>1, <2>1, <2>3 DEF MinterStates, PlaceOK, Between
  <2>6. PICK r \in {RunOver(m), r1, r2} : at' = [at EXCEPT ![m] = r]
    BY <2>2
  <2>7. r \in MinterStates /\ PlaceOK(r) /\ r.item = NoItem
    BY <2>1, <2>4, <2>5, <1>1, RunOverOK
  <2> HIDE DEF r1, r2, v, queue
  <2>8. UNCHANGED <<package, item, cycle, nft, named, clobbered, stranded, cut,
                    labelled, review, mishaps, runs>>
    BY <2>2 DEF rows, mails, history
  <2> QED BY <2>6, <2>7, <2>8, <1>1, ReviewMoves
<1>3. CASE NextItem(m)
  <2>1. /\ at[m].pc = "next" /\ at[m].mail \in Mails /\ at[m].item = NoItem
        /\ ~at[m].adopt /\ ~at[m].linked
    BY <1>1, <1>3 DEF NextItem, PlaceOK, Between
  <2>2. UNCHANGED <<package, item, cycle, nft, named, clobbered, stranded, cut,
                    labelled, review, mishaps, runs>>
    BY <1>3 DEF NextItem, rows, mails, history
  <2>3. CASE at[m].todo = {}
    <3> DEFINE r == [at[m] EXCEPT !.pc = "outcome"]
    <3>1. at' = [at EXCEPT ![m] = r]
      BY <1>3, <2>3 DEF NextItem, Goes, Put
    <3>2. r \in MinterStates /\ PlaceOK(r) /\ r.item = NoItem
      BY <1>1, <2>1 DEF MinterStates, PlaceOK, Between
    <3> HIDE DEF r
    <3> QED BY <3>1, <3>2, <2>2, <1>1, ReviewMoves
  <2>4. CASE at[m].todo # {}
    <3>1. PICK i \in at[m].todo :
            at' = [at EXCEPT ![m] = [at[m] EXCEPT !.pc = "start", !.item = i,
                                                  !.todo = @ \ {i}]]
      BY <1>3, <2>4 DEF NextItem, Put
    <3> DEFINE r == [at[m] EXCEPT !.pc = "start", !.item = i, !.todo = @ \ {i}]
    <3>2. /\ r \in MinterStates /\ r.item = i /\ i \in Items /\ r.pc = "start"
          /\ r.adopt = at[m].adopt /\ r.linked = at[m].linked
      BY <1>1 DEF MinterStates
    <3> HIDE DEF r
    <3>3. PlaceOK(r) /\ ~InMint(r)
      BY <3>2, <2>1, QueueAssumption DEF PlaceOK, Between, InMint
    <3>4. WorkOK(r, item[i], cycle[i], nft[i])
      BY <3>2 DEF WorkOK, InMint, Minted
    <3>5. stranded' \in SUBSET Items /\ cut' \in SUBSET Items
      BY <2>2 DEF QueueBase, QueueTypeOK
    <3>6. at' = [at EXCEPT ![m] = r]
      BY <3>1 DEF r
    <3> QED BY <3>2, <3>3, <3>4, <3>5, <3>6, <2>2, <1>1, QuietMoves
  <2> QED BY <2>3, <2>4
<1>4. CASE ReadReview(m)
  <2> DEFINE r == [at[m] EXCEPT !.pc = "save",
               !.had = [ok |-> review[at[m].mail].ok,
                        bad |-> review[at[m].mail].bad]]
  <2>1. /\ at[m].pc = "outcome" /\ at[m].mail \in Mails /\ at[m].item = NoItem
    BY <1>1, <1>4 DEF ReadReview, PlaceOK, Between
  <2>2. UNCHANGED <<package, item, cycle, nft, named, clobbered, stranded, cut,
                    labelled, review, mishaps, runs>>
        /\ at' = [at EXCEPT ![m] = r]
    BY <1>4 DEF ReadReview, rows, mails, history, Put
  <2>3. review[at[m].mail].ok \in SUBSET Items /\ review[at[m].mail].bad \in SUBSET Items
    BY <1>1, <2>1
  <2>4. r \in MinterStates /\ PlaceOK(r) /\ r.item = NoItem
    BY <1>1, <2>1, <2>3 DEF MinterStates, PlaceOK, Between
  <2> HIDE DEF r
  <2> QED BY <2>2, <2>4, <1>1, ReviewMoves
<1>5. CASE SaveOutcome(m)
  <2>1. /\ at[m].pc = "save" /\ at[m].mail \in Mails /\ at[m].item = NoItem
        /\ at' = [at EXCEPT ![m] = RunOver(m)]
    BY <1>1, <1>5 DEF SaveOutcome, PlaceOK, Between, RunEnds, Put, RunOver
  <2>2. UNCHANGED <<package, item, cycle, nft, named, clobbered, stranded, cut,
                    labelled, mishaps, runs>>
    BY <1>5 DEF SaveOutcome, rows, history
  <2>3. at[m].had.ok \in SUBSET Items /\ at[m].had.bad \in SUBSET Items
        /\ at[m].ok \in SUBSET Items /\ at[m].bad \in SUBSET Items
    BY <1>1 DEF MinterStates
  <2>4. review' \in [Mails -> [status : {"none", "pending", "minted", "failed",
                                          "dismissed"},
                                ok : SUBSET Items, bad : SUBSET Items]]
    BY <1>1, <1>5, <2>1, <2>3 DEF SaveOutcome
  <2> QED BY <2>1, <2>2, <2>4, <1>1, RunOverOK, ReviewMoves
<1> QED BY <1>2, <1>3, <1>4, <1>5 DEF RunsReview

\* The same call further on: only its place changes.
LEMMA GoesTo ==
  ASSUME NEW m \in Minters, at[m] \in MinterStates,
         NEW p \in {"idle", "match", "next", "start", "outcome", "save", "label",
                    "mint", "catch", "reset"} \cup Trying
  PROVE  LET r == [at[m] EXCEPT !.pc = p] IN
         /\ r \in MinterStates /\ r.pc = p /\ r.item = at[m].item
         /\ r.mail = at[m].mail /\ r.adopt = at[m].adopt /\ r.linked = at[m].linked
         /\ r.n = at[m].n /\ r.todo = at[m].todo /\ r.prior = at[m].prior
         /\ r.ok = at[m].ok /\ r.bad = at[m].bad /\ r.had = at[m].had
BY DEF MinterStates

\* The actions of an item that only read the rows.
ReadsRows(m) ==
  \/ StartItem(m) \/ FindToken(m) \/ FindItem(m) \/ FindLinked(m)
  \/ ReadItems(m) \/ Catch(m)

LEMMA ItemEndsIs ==
  ASSUME NEW m, NEW good
  PROVE  ItemEnds(m, good) <=> at' = [at EXCEPT ![m] = ItemOver(at[m], good)]
BY DEF ItemEnds, Put, ItemOver

LEMMA ReadsRowsBase ==
  ASSUME QueueBase, NEW m \in Minters, ReadsRows(m)
  PROVE  QueueBase'
<1> DEFINE i == at[m].item
<1>1. /\ at[m] \in MinterStates /\ PlaceOK(at[m])
      /\ labelled \in SUBSET Mails /\ runs \in Nat /\ mishaps \in Nat
      /\ stranded \in SUBSET Items /\ cut \in SUBSET Items
      /\ review \in [Mails -> [status : {"none", "pending", "minted", "failed",
                                          "dismissed"},
                                ok : SUBSET Items, bad : SUBSET Items]]
  BY CallFacts DEF QueueBase, QueueTypeOK
<1>2. UNCHANGED <<package, item, cycle, nft, named, clobbered, stranded, cut,
                  labelled, review, mishaps, runs>>
  BY DEF ReadsRows, StartItem, FindToken, FindItem, FindLinked, ReadItems, Catch,
         rows, mails, history
<1>3. at[m].pc \in {"start", "find", "attach", "complete", "close", "catch"}
  BY DEF ReadsRows, StartItem, FindToken, FindItem, FindLinked, ReadItems, Catch
<1>4. i \in Items /\ WorkOK(at[m], item[i], cycle[i], nft[i]) /\ CycleOK(cycle[i], nft[i])
      /\ cycle[i].n \in 0..MaxCycles /\ item[i].status \in ItemStatuses
  <2>1. i # NoItem
    BY <1>1, <1>3 DEF PlaceOK, Between
  <2> QED BY <2>1, CallFacts DEF QueueBase, QueueTypeOK
<1>5. ASSUME NEW r \in MinterStates, at' = [at EXCEPT ![m] = r], PlaceOK(r),
             r.item = i, WorkOK(r, item[i], cycle[i], nft[i]),
             InMint(r) => InMint(at[m])
      PROVE  QueueBase'
  BY <1>1, <1>2, <1>5, QuietMoves
<1>6. ASSUME NEW good \in BOOLEAN, at' = [at EXCEPT ![m] = ItemOver(at[m], good)]
      PROVE  QueueBase'
  BY <1>1, <1>2, <1>4, <1>6, ItemOverOK, QuietMoves
<1>7. ASSUME NEW p \in {"reserve", "link", "catch", "mint", "completed", "deliver",
                        "closing", "reset"},
             at' = [at EXCEPT ![m] = [at[m] EXCEPT !.pc = p]],
             LET r == [at[m] EXCEPT !.pc = p] IN
               PlaceOK(r) /\ WorkOK(r, item[i], cycle[i], nft[i])
               /\ (InMint(r) => InMint(at[m]))
      PROVE  QueueBase'
  <2> DEFINE r == [at[m] EXCEPT !.pc = p]
  <2>1. r \in MinterStates /\ r.item = i
    BY <1>1, <1>7, GoesTo DEF Trying
  <2>2. PlaceOK(r) /\ WorkOK(r, item[i], cycle[i], nft[i]) /\ (InMint(r) => InMint(at[m]))
        /\ at' = [at EXCEPT ![m] = r]
    BY <1>7
  <2> HIDE DEF r, i
  <2> QED BY <2>1, <2>2, <1>5
<1>8. CASE StartItem(m)
  <2> DEFINE r == [at[m] EXCEPT !.pc = "find", !.prior = item[i].status]
  <2>1. CASE Mintable(i)
    <3>1. at' = [at EXCEPT ![m] = r] /\ at[m].pc = "start"
          /\ item[i].status \in {"reviewing", "approved"}
      BY <1>8, <2>1 DEF StartItem, Put, Mintable
    <3>2. /\ r \in MinterStates /\ r.pc = "find" /\ r.item = i
          /\ r.mail = at[m].mail /\ r.adopt = at[m].adopt /\ r.linked = at[m].linked
      BY <3>1, <1>1 DEF MinterStates, Trying
    <3> HIDE DEF r
    <3>3. PlaceOK(r) /\ ~InMint(r) /\ WorkOK(r, item[i], cycle[i], nft[i])
      BY <3>1, <3>2, <1>1, <1>4 DEF PlaceOK, Between, InMint, Minted, WorkOK
    <3> QED BY <3>1, <3>2, <3>3, <1>5
  <2>2. CASE ~Mintable(i)
    BY <1>8, <2>2, <1>6, ItemEndsIs DEF StartItem
  <2> QED BY <2>1, <2>2
<1>9. CASE FindToken(m)
  <2>1. CASE cycle[i].st = "minted"
    <3> DEFINE r == [at[m] EXCEPT !.pc = "attach", !.adopt = TRUE, !.n = cycle[i].n]
    <3>1. at' = [at EXCEPT ![m] = r] /\ at[m].pc = "find"
      BY <1>9, <2>1 DEF FindToken, Put
    <3>2. /\ r \in MinterStates /\ r.pc = "attach" /\ r.item = i
          /\ r.mail = at[m].mail /\ r.adopt = TRUE /\ r.linked = at[m].linked
          /\ r.n = cycle[i].n
      BY <1>1, <1>4 DEF MinterStates, Trying
    <3> HIDE DEF r
    <3>3. PlaceOK(r) /\ ~InMint(r)
      BY <3>1, <3>2, <1>1, <1>4 DEF PlaceOK, Between, InMint
    <3>4. WorkOK(r, item[i], cycle[i], nft[i])
      BY <3>2, <2>1, <1>4 DEF InMint, Minted, WorkOK, CycleOK
    <3> QED BY <3>1, <3>2, <3>3, <3>4, <1>5
  <2>2. CASE cycle[i].st # "minted"
    <3>1. at' = [at EXCEPT ![m] = [at[m] EXCEPT !.pc = "reserve"]] /\ at[m].pc = "find"
      BY <1>9, <2>2 DEF FindToken, Goes, Put
    <3>2. LET r == [at[m] EXCEPT !.pc = "reserve"] IN
          PlaceOK(r) /\ ~InMint(r) /\ WorkOK(r, item[i], cycle[i], nft[i])
      BY <3>1, <1>1, <1>4, GoesTo DEF PlaceOK, Between, InMint, Minted, WorkOK, Trying
    <3> QED BY <3>1, <3>2, <1>7
  <2> QED BY <2>1, <2>2
<1>10. CASE FindItem(m)
  <2>1. at[m].pc = "attach"
        /\ \E p \in {"link", IF at[m].adopt THEN "catch" ELSE "mint"} :
             at' = [at EXCEPT ![m] = [at[m] EXCEPT !.pc = p]]
    BY <1>10 DEF FindItem, Goes, Put
  <2>2. PICK p \in {"link", IF at[m].adopt THEN "catch" ELSE "mint"} :
             at' = [at EXCEPT ![m] = [at[m] EXCEPT !.pc = p]]
    BY <2>1
  <2>3. LET r == [at[m] EXCEPT !.pc = p] IN
          PlaceOK(r) /\ (InMint(r) => InMint(at[m])) /\ WorkOK(r, item[i], cycle[i], nft[i])
    <3> DEFINE r == [at[m] EXCEPT !.pc = p]
    <3>1. /\ r.pc = p /\ r.item = at[m].item /\ r.mail = at[m].mail
          /\ r.adopt = at[m].adopt /\ r.linked = at[m].linked /\ r.n = at[m].n
      BY <2>1, <2>2, <1>1, GoesTo DEF Trying
    <3> HIDE DEF r
    <3>2. PlaceOK(r)
      BY <3>1, <2>1, <2>2, <1>1 DEF PlaceOK, Between
    <3>3. InMint(r) => InMint(at[m])
      BY <3>1, <2>1, <2>2 DEF InMint
    <3>4. WorkOK(r, item[i], cycle[i], nft[i])
      BY <3>1, <2>1, <2>2, <1>1, <1>4 DEF WorkOK, InMint, Minted, PlaceOK
    <3> QED BY <3>2, <3>3, <3>4 DEF r
  <2> QED BY <2>2, <2>3, <1>7
<1>11. CASE FindLinked(m)
  <2>1. at[m].pc = "complete"
        /\ \E p \in {"completed", IF at[m].adopt THEN "catch" ELSE "deliver"} :
             at' = [at EXCEPT ![m] = [at[m] EXCEPT !.pc = p]]
    BY <1>11 DEF FindLinked, Goes, Put
  <2>2. PICK p \in {"completed", IF at[m].adopt THEN "catch" ELSE "deliver"} :
             at' = [at EXCEPT ![m] = [at[m] EXCEPT !.pc = p]]
    BY <2>1
  <2>3. LET r == [at[m] EXCEPT !.pc = p] IN
          PlaceOK(r) /\ (InMint(r) => InMint(at[m])) /\ WorkOK(r, item[i], cycle[i], nft[i])
    <3> DEFINE r == [at[m] EXCEPT !.pc = p]
    <3>1. /\ r.pc = p /\ r.item = at[m].item /\ r.mail = at[m].mail
          /\ r.adopt = at[m].adopt /\ r.linked = at[m].linked /\ r.n = at[m].n
      BY <2>1, <2>2, <1>1, GoesTo DEF Trying
    <3> HIDE DEF r
    <3>2. PlaceOK(r)
      BY <3>1, <2>1, <2>2, <1>1 DEF PlaceOK, Between
    <3>3. InMint(r) => InMint(at[m])
      BY <3>1, <2>1, <2>2 DEF InMint
    <3>4. WorkOK(r, item[i], cycle[i], nft[i])
      BY <3>1, <2>1, <2>2, <1>1, <1>4 DEF WorkOK, InMint, Minted, PlaceOK
    <3> QED BY <3>2, <3>3, <3>4 DEF r
  <2> QED BY <2>2, <2>3, <1>7
<1>12. CASE ReadItems(m)
  <2>1. at[m].pc = "close"
    BY <1>12 DEF ReadItems
  <2>2. CASE at' = [at EXCEPT ![m] = ItemOver(at[m], TRUE)]
    BY <2>2, <1>6
  <2>3. CASE \E p \in {"closing", "deliver"} :
               /\ at' = [at EXCEPT ![m] = [at[m] EXCEPT !.pc = p]]
               /\ p = "deliver" => ~at[m].adopt
    <3>1. PICK p \in {"closing", "deliver"} :
               /\ at' = [at EXCEPT ![m] = [at[m] EXCEPT !.pc = p]]
               /\ p = "deliver" => ~at[m].adopt
      BY <2>3
    <3>2. LET r == [at[m] EXCEPT !.pc = p] IN
            PlaceOK(r) /\ (InMint(r) => InMint(at[m])) /\ WorkOK(r, item[i], cycle[i], nft[i])
      <4> DEFINE r == [at[m] EXCEPT !.pc = p]
      <4>1. /\ r.pc = p /\ r.item = at[m].item /\ r.mail = at[m].mail
            /\ r.adopt = at[m].adopt /\ r.linked = at[m].linked /\ r.n = at[m].n
        BY <2>1, <3>1, <1>1, GoesTo DEF Trying
      <4> HIDE DEF r
      <4>2. PlaceOK(r)
        BY <4>1, <2>1, <3>1, <1>1 DEF PlaceOK, Between
      <4>3. InMint(r) => InMint(at[m])
        BY <4>1, <2>1, <3>1 DEF InMint
      <4>4. WorkOK(r, item[i], cycle[i], nft[i])
        BY <4>1, <2>1, <3>1, <1>1, <1>4 DEF WorkOK, InMint, Minted, PlaceOK
      <4> QED BY <4>2, <4>3, <4>4 DEF r
    <3> QED BY <3>1, <3>2, <1>7
  <2> QED BY <1>12, <2>2, <2>3, ItemEndsIs DEF ReadItems, AfterCompleted, Goes, Put
<1>13. CASE Catch(m)
  <2>1. at[m].pc = "catch"
    BY <1>13 DEF Catch
  <2>2. CASE item[i].status = "minting"
    <3>1. at' = [at EXCEPT ![m] = [at[m] EXCEPT !.pc = "reset"]]
      BY <1>13, <2>2 DEF Catch, Goes, Put
    <3>2. LET r == [at[m] EXCEPT !.pc = "reset"] IN
            PlaceOK(r) /\ ~InMint(r) /\ WorkOK(r, item[i], cycle[i], nft[i])
      BY <2>1, <1>1, <1>4, GoesTo DEF PlaceOK, Between, InMint, Minted, WorkOK, Trying
    <3> QED BY <3>1, <3>2, <1>7
  <2>3. CASE item[i].status # "minting"
    BY <1>13, <2>3, <1>6, ItemEndsIs DEF Catch
  <2> QED BY <2>2, <2>3
<1> QED BY <1>8, <1>9, <1>10, <1>11, <1>12, <1>13 DEF ReadsRows

\* A call that writes the rows of its card.
LEMMA CardMoves ==
  ASSUME QueueBase, NEW m \in Minters, NEW r \in MinterStates, NEW i \in Items,
         at' = [at EXCEPT ![m] = r], TablesOK', PlaceOK(r),
         at[m].item = i, r.item \in {i, NoItem},
         \A j \in Items \ {i} : /\ item'[j] = item[j] /\ cycle'[j] = cycle[j]
                                /\ nft'[j] = nft[j],
         r.item = i => WorkOK(r, item'[i], cycle'[i], nft'[i]),
         CycleOK(cycle'[i], nft'[i]),
         InMint(r) => \/ InMint(at[m]) /\ r.item = i
                      \/ \A x \in Minters \ {m} : ~(InMint(at[x]) /\ at[x].item = i),
         \A x \in Minters \ {m} : at[x].item = i =>
           WorkOK(at[x], item'[i], cycle'[i], nft'[i])
  PROVE  QueueBase'
<1>1. r.item # NoItem => WorkOK(r, item'[r.item], cycle'[r.item], nft'[r.item])
  OBVIOUS
<1>2. \A x \in Minters \ {m} : at[x].item # NoItem =>
        WorkOK(at[x], item'[at[x].item], cycle'[at[x].item], nft'[at[x].item])
  <2> TAKE x \in Minters \ {m}
  <2>1. at[x].item # NoItem =>
          /\ at[x].item \in Items
          /\ WorkOK(at[x], item[at[x].item], cycle[at[x].item], nft[at[x].item])
    BY CallFacts
  <2>2. CASE at[x].item = i
    BY <2>2
  <2>3. CASE at[x].item # i
    BY <2>1, <2>3
  <2> QED BY <2>2, <2>3
<1>3. \A j \in Items : CycleOK(cycle'[j], nft'[j])
  BY DEF QueueBase
<1>4. InMint(r) => r.item = i
  BY QueueAssumption DEF PlaceOK, Between, InMint
<1>5. InMint(r) => \/ InMint(at[m]) /\ at[m].item = r.item
                   \/ \A x \in Minters \ {m} :
                        ~(InMint(at[x]) /\ at[x].item = r.item)
  BY <1>4
<1> QED BY <1>1, <1>2, <1>3, <1>5, CallMoves

\* What is known of the card in hand, and of who else is at it.
LEMMA CardFacts ==
  ASSUME QueueBase, NEW m \in Minters, at[m].pc \notin Between
  PROVE  LET i == at[m].item IN
         /\ at[m] \in MinterStates /\ PlaceOK(at[m])
         /\ i \in Items /\ WorkOK(at[m], item[i], cycle[i], nft[i])
         /\ CycleOK(cycle[i], nft[i]) /\ TablesOK
         /\ item[i] \in [status : ItemStatuses, cycle : 0..MaxCycles]
         /\ cycle[i] \in [n : 0..MaxCycles, st : {"none", "open", "minted"}]
         /\ nft[i] \in {"none", "custody", "user", "sold"}
         /\ \A x \in Minters \ {m} : at[x].item = i =>
              WorkOK(at[x], item[i], cycle[i], nft[i]) /\ PlaceOK(at[x])
         /\ InMint(at[m]) => \A x \in Minters \ {m} :
                               ~(InMint(at[x]) /\ at[x].item = i)
<1>1. at[m] \in MinterStates /\ PlaceOK(at[m]) /\ at[m].item # NoItem
  BY CallFacts DEF PlaceOK
<1>2. at[m].item \in Items
  BY <1>1, CallFacts
<1>3. TablesOK
  BY QueueTypesSplit DEF QueueBase
<1>4. \A x \in Minters \ {m} : at[x].item = at[m].item =>
        WorkOK(at[x], item[at[m].item], cycle[at[m].item], nft[at[m].item])
        /\ PlaceOK(at[x])
  BY <1>1, CallFacts
<1>5. InMint(at[m]) => \A x \in Minters \ {m} :
                         ~(InMint(at[x]) /\ at[x].item = at[m].item)
  BY DEF QueueBase, OneMint
<1>6. /\ item[at[m].item] \in [status : ItemStatuses, cycle : 0..MaxCycles]
      /\ cycle[at[m].item] \in [n : 0..MaxCycles, st : {"none", "open", "minted"}]
      /\ nft[at[m].item] \in {"none", "custody", "user", "sold"}
  BY <1>2, <1>3 DEF TablesOK
<1>7. WorkOK(at[m], item[at[m].item], cycle[at[m].item], nft[at[m].item])
      /\ CycleOK(cycle[at[m].item], nft[at[m].item])
  BY <1>1, CallFacts
<1> QED BY <1>1, <1>2, <1>3, <1>4, <1>5, <1>6, <1>7

LEMMA ReserveCycleBase ==
  ASSUME QueueBase, NEW m \in Minters, ReserveCycle(m)
  PROVE  QueueBase'
<1> DEFINE i == at[m].item
<1>1. at[m].pc = "reserve" /\ at[m].pc \notin Between
      /\ UNCHANGED <<package, item, nft, mails, history, mishaps, runs>>
  BY DEF ReserveCycle, Between
<1>2. /\ at[m] \in MinterStates /\ PlaceOK(at[m])
      /\ i \in Items /\ CycleOK(cycle[i], nft[i]) /\ TablesOK
      /\ cycle[i] \in [n : 0..MaxCycles, st : {"none", "open", "minted"}]
      /\ \A x \in Minters \ {m} : at[x].item = i =>
              WorkOK(at[x], item[i], cycle[i], nft[i]) /\ PlaceOK(at[x])
  BY <1>1, CardFacts
<1>4. CASE cycle[i].st # "none"
  <2> DEFINE r == [at[m] EXCEPT !.pc = "catch"]
  <2>1. at' = [at EXCEPT ![m] = r] /\ cycle' = cycle
    BY <1>4 DEF ReserveCycle, Goes, Put
  <2>2. r \in MinterStates /\ r.pc = "catch" /\ r.item = i
    BY <1>2, GoesTo
  <2> HIDE DEF r
  <2>3. PlaceOK(r) /\ ~InMint(r) /\ WorkOK(r, item[i], cycle[i], nft[i])
    BY <2>2, <1>2, <1>1, QueueAssumption DEF PlaceOK, Between, InMint, Minted, WorkOK
  <2>4. TablesOK'
    BY <2>1, <1>1, <1>2 DEF TablesOK, mails, history
  <2>5. item' = item /\ cycle' = cycle /\ nft' = nft
    BY <2>1, <1>1
  <2>6. \A x \in Minters \ {m} : at[x].item = i =>
          WorkOK(at[x], item'[i], cycle'[i], nft'[i])
    BY <1>2, <2>5
  <2> QED BY <2>1, <2>2, <2>3, <2>4, <2>5, <2>6, <1>2, CardMoves
<1>5. CASE cycle[i].st = "none"
  <2> DEFINE c == [n |-> cycle[i].n + 1, st |-> "open"]
             r == [at[m] EXCEPT !.pc = "attach", !.n = cycle[i].n + 1]
  <2>1. cycle' = [cycle EXCEPT ![i] = c] /\ cycle[i].n < MaxCycles
    BY <1>5 DEF ReserveCycle
  <2>2. cycle'[i].n = cycle[i].n + 1
    BY <2>1, <1>2 DEF TablesOK
  <2>3. at' = [at EXCEPT ![m] = r]
    BY <2>2, <1>5 DEF ReserveCycle, Put
  <2>4. cycle[i].n + 1 \in 0..MaxCycles /\ cycle[i].n + 1 # 0
        /\ c \in [n : 0..MaxCycles, st : {"none", "open", "minted"}]
    BY <2>1, <1>2, QueueAssumption
  <2>5. /\ r \in MinterStates /\ r.pc = "attach" /\ r.item = i
        /\ r.mail = at[m].mail /\ r.adopt = at[m].adopt /\ r.linked = at[m].linked
        /\ r.n = cycle[i].n + 1
    BY <2>4, <1>2 DEF MinterStates, Trying
  <2>6. TablesOK'
    BY <2>1, <2>4, <1>1, <1>2 DEF TablesOK, mails, history
  <2>7. \A j \in Items : cycle'[j] = IF j = i THEN c ELSE cycle[j]
    BY <2>1, <1>2 DEF TablesOK
  <2>8. nft[i] = "none" /\ c.n = r.n /\ c.st = "open"
    BY <1>5, <1>2, <2>5 DEF CycleOK
  <2> HIDE DEF r
  <2>9. PlaceOK(r)
    BY <2>5, <1>1, <1>2, QueueAssumption DEF PlaceOK, Between
  <2>10. WorkOK(r, item[i], c, nft[i]) /\ CycleOK(c, nft[i])
    BY <2>4, <2>5, <2>8, <1>1, <1>2 DEF PlaceOK, InMint, Minted, WorkOK, CycleOK
  <2>11. \A x \in Minters \ {m} : at[x].item = i =>
           WorkOK(at[x], item[i], c, nft[i]) /\ ~InMint(at[x])
    <3> SUFFICES ASSUME NEW x \in Minters \ {m}, at[x].item = i
                 PROVE  WorkOK(at[x], item[i], c, nft[i]) /\ ~InMint(at[x])
      OBVIOUS
    <3>1. WorkOK(at[x], item[i], cycle[i], nft[i]) /\ PlaceOK(at[x])
      BY <1>2
    <3>2. ~InMint(at[x]) /\ ~Minted(at[x])
      BY <3>1, <1>5, <2>8 DEF WorkOK
    <3> HIDE DEF c
    <3> QED BY <3>1, <3>2 DEF WorkOK, InMint, Minted, PlaceOK
  <2> HIDE DEF c
  <2>12. \A x \in Minters \ {m} : ~(InMint(at[x]) /\ at[x].item = i)
    BY <2>11
  <2>13. /\ \A j \in Items \ {i} : cycle'[j] = cycle[j]
         /\ item' = item /\ nft' = nft /\ cycle'[i] = c
    BY <2>7, <1>1, <1>2
  <2>14. \A x \in Minters \ {m} : at[x].item = i =>
           WorkOK(at[x], item'[i], cycle'[i], nft'[i])
    BY <2>11, <2>13
  <2>15. WorkOK(r, item'[i], cycle'[i], nft'[i]) /\ CycleOK(cycle'[i], nft'[i])
    BY <2>10, <2>13
  <2>16. \A j \in Items \ {i} : /\ item'[j] = item[j] /\ cycle'[j] = cycle[j]
                                /\ nft'[j] = nft[j]
    BY <2>13
  <2> HIDE DEF i
  <2>17. i \in Items /\ at[m].item = i /\ r.item = i
    BY <2>5, <1>2 DEF i
  <2> QED BY <2>3, <2>5, <2>6, <2>9, <2>12, <2>14, <2>15, <2>16, <2>17, CardMoves
<1> QED BY <1>4, <1>5

\* attachCycleForCert saves the item with its cycle.
LEMMA LinkItemBase ==
  ASSUME QueueBase, NEW m \in Minters, LinkItem(m)
  PROVE  QueueBase'
<1> DEFINE i == at[m].item
           it == [status |-> "minting", cycle |-> at[m].n]
           r == [at[m] EXCEPT !.linked = TRUE,
                   !.pc = IF at[m].adopt THEN "deliver" ELSE "mint"]
<1>1. /\ at[m].pc = "link" /\ at[m].pc \notin Between
      /\ at' = [at EXCEPT ![m] = r]
      /\ item' = [item EXCEPT ![i] = it]
      /\ clobbered' \in {clobbered, clobbered \cup {i}}
      /\ UNCHANGED <<package, cycle, nft, mails, stranded, cut, mishaps, runs>>
  BY DEF LinkItem, Between, Put
<1>2. /\ at[m] \in MinterStates /\ PlaceOK(at[m])
      /\ i \in Items /\ WorkOK(at[m], item[i], cycle[i], nft[i])
      /\ CycleOK(cycle[i], nft[i]) /\ TablesOK
      /\ \A x \in Minters \ {m} : at[x].item = i =>
              WorkOK(at[x], item[i], cycle[i], nft[i]) /\ PlaceOK(at[x])
      /\ InMint(at[m]) => \A x \in Minters \ {m} :
                            ~(InMint(at[x]) /\ at[x].item = i)
  BY <1>1, CardFacts
<1>3. /\ r \in MinterStates /\ r.linked = TRUE /\ r.adopt = at[m].adopt
      /\ r.pc = (IF at[m].adopt THEN "deliver" ELSE "mint")
      /\ r.item = i /\ r.mail = at[m].mail /\ r.n = at[m].n
  BY <1>2 DEF MinterStates, Trying
<1>4. InMint(at[m]) \/ Minted(at[m])
  BY <1>1, <1>2 DEF InMint, Minted, MinterStates
<1>5. at[m].n # 0 /\ cycle[i].n = at[m].n /\ at[m].n \in 0..MaxCycles
  BY <1>2, <1>4 DEF WorkOK, MinterStates
<1>6. TablesOK'
  <2>1. it \in [status : ItemStatuses, cycle : 0..MaxCycles] /\ it.cycle # 0
        /\ it.status = "minting"
    BY <1>5 DEF ItemStatuses
  <2> HIDE DEF it
  <2>2. item' \in [Items -> [status : ItemStatuses, cycle : 0..MaxCycles]]
    BY <1>1, <1>2, <2>1 DEF TablesOK
  <2>3. \A j \in Items : item'[j] = IF j = i THEN it ELSE item[j]
    BY <1>1, <1>2 DEF TablesOK
  <2>4. \A j \in Items :
          item'[j].cycle # 0 <=> item'[j].status \in {"minting", "completed"}
    BY <1>2, <2>1, <2>3 DEF TablesOK
  <2>5. clobbered' \in SUBSET Items
    BY <1>1, <1>2 DEF TablesOK
  <2> QED BY <1>1, <1>2, <2>2, <2>4, <2>5 DEF TablesOK, mails
<1>7. /\ item'[i] = it /\ cycle'[i] = cycle[i] /\ nft'[i] = nft[i]
      /\ \A j \in Items \ {i} : /\ item'[j] = item[j] /\ cycle'[j] = cycle[j]
                                /\ nft'[j] = nft[j]
  BY <1>1, <1>2 DEF TablesOK
<1> HIDE DEF r
<1>8. PlaceOK(r)
  BY <1>1, <1>2, <1>3 DEF PlaceOK, Between
<1>9. InMint(r) => InMint(at[m])
  BY <1>1, <1>3 DEF InMint
<1>10. WorkOK(r, item'[i], cycle'[i], nft'[i])
  BY <1>1, <1>2, <1>3, <1>4, <1>5, <1>7 DEF WorkOK, InMint, Minted
<1>11. \A x \in Minters \ {m} : at[x].item = i =>
         WorkOK(at[x], item'[i], cycle'[i], nft'[i])
  <2> SUFFICES ASSUME NEW x \in Minters \ {m}, at[x].item = i
               PROVE  WorkOK(at[x], it, cycle[i], nft[i])
    BY <1>7
  <2>1. WorkOK(at[x], item[i], cycle[i], nft[i]) /\ PlaceOK(at[x])
    BY <1>2
  <2>2. at[x].pc \in {"mint", "record", "complete"} /\ ~at[x].adopt =>
          at[x].n = cycle[i].n
    BY <2>1 DEF WorkOK, InMint, Minted
  <2> QED BY <2>1, <2>2, <1>5 DEF WorkOK
<1>12. CycleOK(cycle'[i], nft'[i])
  BY <1>2, <1>7
<1> HIDE DEF i
<1>13. i \in Items /\ at[m].item = i /\ r.item = i
  BY <1>2, <1>3 DEF i
<1> QED BY <1>1, <1>3, <1>6, <1>7, <1>8, <1>9, <1>10, <1>11, <1>12, <1>13, CardMoves

\* The mint succeeds, or fails and cancels its cycle.
LEMMA MintNftBase ==
  ASSUME QueueBase, NEW m \in Minters, MintNft(m) \/ MintFails(m)
  PROVE  QueueBase'
<1> DEFINE i == at[m].item
<1>1. /\ at[m].pc = "mint" /\ at[m].pc \notin Between
      /\ UNCHANGED <<package, item, mails, history, runs>>
      /\ mishaps' \in {mishaps, mishaps + 1}
  BY DEF MintNft, MintFails, Between
<1>2. /\ at[m] \in MinterStates /\ PlaceOK(at[m])
      /\ i \in Items /\ WorkOK(at[m], item[i], cycle[i], nft[i])
      /\ CycleOK(cycle[i], nft[i]) /\ TablesOK
      /\ cycle[i] \in [n : 0..MaxCycles, st : {"none", "open", "minted"}]
      /\ \A x \in Minters \ {m} : at[x].item = i =>
              WorkOK(at[x], item[i], cycle[i], nft[i]) /\ PlaceOK(at[x])
      /\ InMint(at[m]) => \A x \in Minters \ {m} :
                            ~(InMint(at[x]) /\ at[x].item = i)
  BY <1>1, CardFacts
<1>3. InMint(at[m]) /\ cycle[i].st = "open" /\ cycle[i].n = at[m].n
      /\ nft[i] = "none" /\ at[m].n # 0
  BY <1>1, <1>2 DEF InMint, WorkOK, PlaceOK
<1>4. \A x \in Minters \ {m} : at[x].item = i => ~InMint(at[x]) /\ ~Minted(at[x])
  BY <1>2, <1>3 DEF WorkOK
<1>5. \A x \in Minters \ {m} : at[x].item = i =>
         WorkOK(at[x], item'[i], cycle'[i], nft'[i])
  BY <1>2, <1>4 DEF WorkOK, InMint, Minted, PlaceOK
<1>6. CASE MintNft(m)
  <2> DEFINE q == [at[m] EXCEPT !.pc = "record"]
  <2>1. /\ nft' = [nft EXCEPT ![i] = "custody"] /\ cycle' = cycle /\ mishaps' = mishaps
        /\ at' = [at EXCEPT ![m] = q]
    BY <1>6 DEF MintNft, Goes, Put
  <2>2. /\ q \in MinterStates /\ q.pc = "record" /\ q.item = i
        /\ q.mail = at[m].mail /\ q.adopt = at[m].adopt /\ q.linked = at[m].linked
        /\ q.n = at[m].n
    BY <1>2, GoesTo DEF Trying
  <2>3. TablesOK'
    BY <2>1, <1>1, <1>2 DEF TablesOK, mails, history
  <2>4. /\ item' = item /\ cycle'[i] = cycle[i] /\ nft'[i] = "custody"
        /\ \A j \in Items \ {i} : /\ item'[j] = item[j] /\ cycle'[j] = cycle[j]
                                  /\ nft'[j] = nft[j]
    BY <2>1, <1>1, <1>2 DEF TablesOK
  <2> HIDE DEF q
  <2>5. PlaceOK(q) /\ ~InMint(q)
    BY <2>2, <1>1, <1>2 DEF PlaceOK, Between, InMint
  <2>6. WorkOK(q, item'[i], cycle'[i], nft'[i]) /\ CycleOK(cycle'[i], nft'[i])
    BY <2>2, <2>4, <2>5, <1>1, <1>2, <1>3 DEF WorkOK, InMint, Minted, CycleOK
  <2> HIDE DEF i
  <2>7. i \in Items /\ at[m].item = i /\ q.item = i
    BY <1>2, <2>2 DEF i
  <2> QED BY <1>5, <2>1, <2>2, <2>3, <2>4, <2>5, <2>6, <2>7, CardMoves
<1>7. CASE MintFails(m)
  <2> DEFINE q == [at[m] EXCEPT !.pc = "catch"]
             c == [cycle[i] EXCEPT !.st = "none"]
  <2>1. /\ cycle' = [cycle EXCEPT ![i] = c] /\ nft' = nft
        /\ at' = [at EXCEPT ![m] = q]
    BY <1>7 DEF MintFails, Goes, Put
  <2>2. q \in MinterStates /\ q.pc = "catch" /\ q.item = i /\ q.mail = at[m].mail
    BY <1>2, GoesTo DEF Trying
  <2>3. c \in [n : 0..MaxCycles, st : {"none", "open", "minted"}] /\ c.st = "none"
    BY <1>2
  <2>4. TablesOK'
    <3> HIDE DEF c
    <3> QED BY <2>1, <2>3, <1>1, <1>2 DEF TablesOK, mails, history
  <2>5. /\ item' = item /\ cycle'[i] = c /\ nft'[i] = nft[i]
        /\ \A j \in Items \ {i} : /\ item'[j] = item[j] /\ cycle'[j] = cycle[j]
                                  /\ nft'[j] = nft[j]
    BY <2>1, <1>1, <1>2 DEF TablesOK
  <2> HIDE DEF q, c
  <2>6. PlaceOK(q) /\ ~InMint(q)
    BY <2>2, <1>1, <1>2 DEF PlaceOK, Between, InMint
  <2>7. WorkOK(q, item'[i], cycle'[i], nft'[i]) /\ CycleOK(cycle'[i], nft'[i])
    BY <2>2, <2>3, <2>5, <2>6, <1>3 DEF WorkOK, InMint, Minted, CycleOK
  <2> HIDE DEF i
  <2>8. i \in Items /\ at[m].item = i /\ q.item = i
    BY <1>2, <2>2 DEF i
  <2> QED BY <1>5, <2>1, <2>2, <2>4, <2>5, <2>6, <2>7, <2>8, CardMoves
<1> QED BY <1>6, <1>7

\* The mint is recorded.
LEMMA RecordMintBase ==
  ASSUME QueueBase, NEW m \in Minters, RecordMint(m)
  PROVE  QueueBase'
<1> DEFINE i == at[m].item
           p == IF at[m].linked THEN "complete" ELSE "deliver"
           r == [at[m] EXCEPT !.pc = p]
           c == [cycle[i] EXCEPT !.st = "minted"]
<1>1. /\ at[m].pc = "record" /\ at[m].pc \notin Between
      /\ at' = [at EXCEPT ![m] = r]
      /\ cycle' = [cycle EXCEPT ![i] = c]
      /\ UNCHANGED <<package, item, nft, mails, history, mishaps, runs>>
  BY DEF RecordMint, Between, Goes, Put
<1>2. /\ at[m] \in MinterStates /\ PlaceOK(at[m])
      /\ i \in Items /\ WorkOK(at[m], item[i], cycle[i], nft[i])
      /\ CycleOK(cycle[i], nft[i]) /\ TablesOK
      /\ cycle[i] \in [n : 0..MaxCycles, st : {"none", "open", "minted"}]
      /\ \A x \in Minters \ {m} : at[x].item = i =>
              WorkOK(at[x], item[i], cycle[i], nft[i]) /\ PlaceOK(at[x])
  BY <1>1, CardFacts
<1>3. ~at[m].adopt /\ cycle[i].n = at[m].n /\ nft[i] # "none" /\ at[m].n # 0
  BY <1>1, <1>2 DEF Minted, WorkOK, PlaceOK
<1>4. /\ r \in MinterStates /\ r.pc = p /\ r.item = i /\ r.mail = at[m].mail
      /\ r.adopt = at[m].adopt /\ r.linked = at[m].linked /\ r.n = at[m].n
  <2>1. p \in {"complete", "deliver"}
    OBVIOUS
  <2> HIDE DEF p
  <2> QED BY <2>1, <1>2, GoesTo DEF Trying
<1>5. c \in [n : 0..MaxCycles, st : {"none", "open", "minted"}] /\ c.st = "minted"
      /\ c.n = cycle[i].n
  BY <1>2
<1> HIDE DEF r, c
<1>6. TablesOK'
  BY <1>1, <1>2, <1>5 DEF TablesOK, mails, history
<1>7. /\ item' = item /\ cycle'[i] = c /\ nft'[i] = nft[i]
      /\ \A j \in Items \ {i} : /\ item'[j] = item[j] /\ cycle'[j] = cycle[j]
                                /\ nft'[j] = nft[j]
  BY <1>1, <1>2 DEF TablesOK
<1>8. PlaceOK(r) /\ ~InMint(r)
  BY <1>4, <1>1, <1>2 DEF PlaceOK, Between, InMint
<1>9. WorkOK(r, item'[i], cycle'[i], nft'[i]) /\ CycleOK(cycle'[i], nft'[i])
  BY <1>1, <1>2, <1>3, <1>4, <1>5, <1>7, <1>8 DEF WorkOK, InMint, Minted, CycleOK
<1>10. \A x \in Minters \ {m} : at[x].item = i =>
         WorkOK(at[x], item'[i], cycle'[i], nft'[i])
  BY <1>2, <1>3, <1>5, <1>7 DEF WorkOK
<1> HIDE DEF i
<1>11. i \in Items /\ at[m].item = i /\ r.item = i
  BY <1>2, <1>4 DEF i
<1> QED BY <1>1, <1>4, <1>6, <1>7, <1>8, <1>9, <1>10, <1>11, CardMoves

\* markItemCompletedForCycle saves the item.
LEMMA SaveCompletedBase ==
  ASSUME QueueBase, NEW m \in Minters, SaveCompleted(m)
  PROVE  QueueBase'
<1> DEFINE i == at[m].item
           it == [status |-> "completed", cycle |-> at[m].n]
           r == [at[m] EXCEPT !.pc = "close"]
<1>1. /\ at[m].pc = "completed" /\ at[m].pc \notin Between
      /\ at' = [at EXCEPT ![m] = r]
      /\ item' = [item EXCEPT ![i] = it]
      /\ UNCHANGED <<package, cycle, nft, mails, history, mishaps, runs>>
  BY DEF SaveCompleted, Between, Goes, Put
<1>2. /\ at[m] \in MinterStates /\ PlaceOK(at[m])
      /\ i \in Items /\ WorkOK(at[m], item[i], cycle[i], nft[i])
      /\ CycleOK(cycle[i], nft[i]) /\ TablesOK
      /\ \A x \in Minters \ {m} : at[x].item = i =>
              WorkOK(at[x], item[i], cycle[i], nft[i]) /\ PlaceOK(at[x])
  BY <1>1, CardFacts
<1>3. /\ r \in MinterStates /\ r.pc = "close" /\ r.item = i /\ r.mail = at[m].mail
      /\ r.adopt = at[m].adopt /\ r.linked = at[m].linked /\ r.n = at[m].n
  BY <1>2, GoesTo DEF Trying
<1>4. at[m].n # 0 /\ cycle[i].n = at[m].n /\ nft[i] # "none" /\ at[m].n \in 0..MaxCycles
  BY <1>1, <1>2 DEF WorkOK, Minted, MinterStates
<1>5. TablesOK'
  <2>1. it \in [status : ItemStatuses, cycle : 0..MaxCycles] /\ it.cycle # 0
        /\ it.status = "completed"
    BY <1>4 DEF ItemStatuses
  <2> HIDE DEF it
  <2>2. item' \in [Items -> [status : ItemStatuses, cycle : 0..MaxCycles]]
    BY <1>1, <1>2, <2>1 DEF TablesOK
  <2>3. \A j \in Items : item'[j] = IF j = i THEN it ELSE item[j]
    BY <1>1, <1>2 DEF TablesOK
  <2>4. \A j \in Items :
          item'[j].cycle # 0 <=> item'[j].status \in {"minting", "completed"}
    BY <1>2, <2>1, <2>3 DEF TablesOK
  <2> QED BY <1>1, <1>2, <2>2, <2>4 DEF TablesOK, mails, history
<1>6. /\ item'[i] = it /\ cycle'[i] = cycle[i] /\ nft'[i] = nft[i]
      /\ \A j \in Items \ {i} : /\ item'[j] = item[j] /\ cycle'[j] = cycle[j]
                                /\ nft'[j] = nft[j]
  BY <1>1, <1>2 DEF TablesOK
<1> HIDE DEF r
<1>7. PlaceOK(r) /\ ~InMint(r)
  BY <1>1, <1>2, <1>3 DEF PlaceOK, Between, InMint
<1>8. WorkOK(r, item'[i], cycle'[i], nft'[i]) /\ CycleOK(cycle'[i], nft'[i])
  BY <1>1, <1>2, <1>3, <1>4, <1>6, <1>7 DEF WorkOK, InMint, Minted
<1>9. \A x \in Minters \ {m} : at[x].item = i =>
         WorkOK(at[x], item'[i], cycle'[i], nft'[i])
  BY <1>2, <1>6 DEF WorkOK
<1> HIDE DEF i
<1>10. i \in Items /\ at[m].item = i /\ r.item = i
  BY <1>2, <1>3 DEF i
<1> QED BY <1>1, <1>3, <1>5, <1>6, <1>7, <1>8, <1>9, <1>10, CardMoves

\* closePackageIfAllDone
LEMMA ClosePackageBase ==
  ASSUME QueueBase, NEW m \in Minters, ClosePackage(m)
  PROVE  QueueBase'
<1> DEFINE i == at[m].item
<1>1. /\ at[m].pc = "closing" /\ at[m].pc \notin Between
      /\ package' = "completed"
      /\ clobbered' = clobbered \cup {j \in Items : ~Done(item[j].status)}
      /\ UNCHANGED <<item, cycle, nft, mails, stranded, cut, mishaps, runs>>
  BY DEF ClosePackage, Between
<1>2. /\ at[m] \in MinterStates /\ PlaceOK(at[m])
      /\ i \in Items /\ WorkOK(at[m], item[i], cycle[i], nft[i])
      /\ CycleOK(cycle[i], nft[i]) /\ TablesOK
      /\ \A x \in Minters \ {m} : at[x].item = i =>
              WorkOK(at[x], item[i], cycle[i], nft[i]) /\ PlaceOK(at[x])
  BY <1>1, CardFacts
<1>3. TablesOK'
  BY <1>1, <1>2 DEF TablesOK, mails
<1>4. /\ \A j \in Items \ {i} : /\ item'[j] = item[j] /\ cycle'[j] = cycle[j]
                                /\ nft'[j] = nft[j]
      /\ item' = item /\ cycle' = cycle /\ nft' = nft
      /\ CycleOK(cycle'[i], nft'[i])
      /\ \A x \in Minters \ {m} : at[x].item = i =>
           WorkOK(at[x], item'[i], cycle'[i], nft'[i])
  BY <1>1, <1>2
<1>5. CASE at[m].adopt
  <2>1. at' = [at EXCEPT ![m] = ItemOver(at[m], TRUE)]
    BY <1>5, ItemEndsIs DEF ClosePackage, AfterCompleted
  <2> DEFINE r == ItemOver(at[m], TRUE)
  <2>2. r \in MinterStates /\ PlaceOK(r) /\ r.item = NoItem /\ ~InMint(r)
    BY <1>2, ItemOverOK
  <2> HIDE DEF i, r
  <2>3. i \in Items /\ at[m].item = i /\ at' = [at EXCEPT ![m] = r] /\ i # NoItem
    BY <1>2, <2>1, QueueAssumption DEF i, r
  <2> QED BY <2>2, <2>3, <1>3, <1>4, CardMoves
<1>6. CASE ~at[m].adopt
  <2> DEFINE r == [at[m] EXCEPT !.pc = "deliver"]
  <2>1. at' = [at EXCEPT ![m] = r]
    BY <1>6 DEF ClosePackage, AfterCompleted, Goes, Put
  <2>2. /\ r \in MinterStates /\ r.pc = "deliver" /\ r.item = i /\ r.mail = at[m].mail
        /\ r.adopt = at[m].adopt /\ r.linked = at[m].linked /\ r.n = at[m].n
    BY <1>2, GoesTo DEF Trying
  <2> HIDE DEF r
  <2>3. PlaceOK(r) /\ ~InMint(r)
    BY <2>2, <1>1, <1>2 DEF PlaceOK, Between, InMint
  <2>4. WorkOK(r, item'[i], cycle'[i], nft'[i])
    BY <2>2, <2>3, <1>1, <1>2, <1>4 DEF WorkOK, InMint, Minted
  <2> HIDE DEF i
  <2>5. i \in Items /\ at[m].item = i /\ r.item = i
    BY <1>2, <2>2 DEF i
  <2> QED BY <2>1, <2>2, <2>3, <2>4, <2>5, <1>3, <1>4, CardMoves
<1> QED BY <1>5, <1>6

\* safeTransferFromCustody
LEMMA DeliverBase ==
  ASSUME QueueBase, NEW m \in Minters, Deliver(m)
  PROVE  QueueBase'
<1> DEFINE i == at[m].item
           sent == at[m].adopt /\ WithUser(i)
<1>1. /\ at[m].pc = "deliver" /\ at[m].pc \notin Between
      /\ nft' = (IF ~sent /\ nft[i] = "custody" THEN [nft EXCEPT ![i] = "user"] ELSE nft)
      /\ UNCHANGED <<package, item, cycle, mails, history, mishaps, runs>>
  BY DEF Deliver, Between
<1>2. /\ at[m] \in MinterStates /\ PlaceOK(at[m])
      /\ i \in Items /\ WorkOK(at[m], item[i], cycle[i], nft[i])
      /\ CycleOK(cycle[i], nft[i]) /\ TablesOK
      /\ \A x \in Minters \ {m} : at[x].item = i =>
              WorkOK(at[x], item[i], cycle[i], nft[i]) /\ PlaceOK(at[x])
  BY <1>1, CardFacts
<1>3. TablesOK'
  BY <1>1, <1>2 DEF TablesOK, mails, history
<1>4. /\ \A j \in Items \ {i} : /\ item'[j] = item[j] /\ cycle'[j] = cycle[j]
                                /\ nft'[j] = nft[j]
      /\ item' = item /\ cycle' = cycle
      /\ nft'[i] = nft[i] \/ (nft[i] = "custody" /\ nft'[i] = "user")
  BY <1>1, <1>2 DEF TablesOK
<1>5. nft[i] # "none" /\ at[m].n # 0 /\ cycle[i].n = at[m].n
  BY <1>1, <1>2 DEF WorkOK, Minted
<1>6. CycleOK(cycle'[i], nft'[i])
  BY <1>2, <1>4, <1>5 DEF CycleOK
<1>7. \A x \in Minters \ {m} : at[x].item = i =>
           WorkOK(at[x], item'[i], cycle'[i], nft'[i])
  BY <1>2, <1>4, <1>5 DEF WorkOK
<1>8. CASE at' = [at EXCEPT ![m] = ItemOver(at[m], TRUE)]
  <2> DEFINE r == ItemOver(at[m], TRUE)
  <2>2. r \in MinterStates /\ PlaceOK(r) /\ r.item = NoItem /\ ~InMint(r)
    BY <1>2, ItemOverOK
  <2> HIDE DEF i, r
  <2>3. i \in Items /\ at[m].item = i /\ at' = [at EXCEPT ![m] = r] /\ i # NoItem
    BY <1>2, <1>8, QueueAssumption DEF i, r
  <2> QED BY <2>2, <2>3, <1>3, <1>4, <1>6, <1>7, CardMoves
<1>9. ASSUME NEW p \in {"catch", "complete"},
             at' = [at EXCEPT ![m] = [at[m] EXCEPT !.pc = p]],
             p = "complete" => at[m].adopt /\ nft'[i] \in {"user", "sold"}
      PROVE  QueueBase'
  <2> DEFINE r == [at[m] EXCEPT !.pc = p]
  <2>2. /\ r \in MinterStates /\ r.pc = p /\ r.item = i /\ r.mail = at[m].mail
        /\ r.adopt = at[m].adopt /\ r.linked = at[m].linked /\ r.n = at[m].n
    BY <1>2, GoesTo DEF Trying
  <2>3. at' = [at EXCEPT ![m] = r]
    BY <1>9
  <2> HIDE DEF r
  <2>4. PlaceOK(r) /\ ~InMint(r)
    BY <2>2, <1>1, <1>2 DEF PlaceOK, Between, InMint
  <2>5. WorkOK(r, item'[i], cycle'[i], nft'[i])
    BY <2>2, <2>4, <1>1, <1>4, <1>5, <1>9 DEF WorkOK, InMint, Minted
  <2> HIDE DEF i
  <2>6. i \in Items /\ at[m].item = i /\ r.item = i
    BY <1>2, <2>2 DEF i
  <2> QED BY <2>2, <2>3, <2>4, <2>5, <2>6, <1>3, <1>4, <1>6, <1>7, CardMoves
<1>10. CASE sent \/ nft[i] = "custody"
  <2>1. nft'[i] \in {"user", "sold"}
    BY <1>1, <1>2, <1>10 DEF WithUser, TablesOK
  <2>2. CASE at[m].adopt
    <3>1. at' = [at EXCEPT ![m] = [at[m] EXCEPT !.pc = "complete"]]
      BY <1>10, <2>2 DEF Deliver, Goes, Put
    <3> QED BY <3>1, <2>1, <2>2, <1>9
  <2>3. CASE ~at[m].adopt
    BY <1>10, <2>3, <1>8, ItemEndsIs DEF Deliver
  <2> QED BY <2>2, <2>3
<1>11. CASE ~(sent \/ nft[i] = "custody")
  <2>1. at' = [at EXCEPT ![m] = [at[m] EXCEPT !.pc = "catch"]]
    BY <1>11 DEF Deliver, Goes, Put
  <2> QED BY <2>1, <1>9
<1> QED BY <1>10, <1>11

\* The catch of mintAndDeliverItem puts the item back.
LEMMA ResetItemBase ==
  ASSUME QueueBase, NEW m \in Minters, ResetItem(m)
  PROVE  QueueBase'
<1> DEFINE i == at[m].item
           it == Before(m)
           r == ItemOver(at[m], FALSE)
<1>1. /\ at[m].pc = "reset" /\ at[m].pc \notin Between
      /\ at' = [at EXCEPT ![m] = r]
      /\ item' = [item EXCEPT ![i] = it]
      /\ clobbered' \in {clobbered, clobbered \cup {i}}
      /\ UNCHANGED <<package, cycle, nft, mails, stranded, cut, mishaps, runs>>
  BY ItemEndsIs DEF ResetItem, Between
<1>2. /\ at[m] \in MinterStates /\ PlaceOK(at[m])
      /\ i \in Items /\ CycleOK(cycle[i], nft[i]) /\ TablesOK
      /\ \A x \in Minters \ {m} : at[x].item = i =>
              WorkOK(at[x], item[i], cycle[i], nft[i]) /\ PlaceOK(at[x])
  BY <1>1, CardFacts
<1>3. r \in MinterStates /\ PlaceOK(r) /\ r.item = NoItem /\ ~InMint(r)
  BY <1>2, ItemOverOK
<1>4. it \in [status : ItemStatuses, cycle : 0..MaxCycles] /\ it.cycle = 0
      /\ it.status \in {"reviewing", "approved"}
  BY <1>2, QueueAssumption DEF Before, MinterStates, ItemStatuses
<1> HIDE DEF it, r
<1>5. TablesOK'
  <2>2. item' \in [Items -> [status : ItemStatuses, cycle : 0..MaxCycles]]
    BY <1>1, <1>2, <1>4 DEF TablesOK
  <2>3. \A j \in Items : item'[j] = IF j = i THEN it ELSE item[j]
    BY <1>1, <1>2 DEF TablesOK
  <2>4. \A j \in Items :
          item'[j].cycle # 0 <=> item'[j].status \in {"minting", "completed"}
    BY <1>2, <1>4, <2>3 DEF TablesOK
  <2>5. clobbered' \in SUBSET Items
    BY <1>1, <1>2 DEF TablesOK
  <2> QED BY <1>1, <1>2, <2>2, <2>4, <2>5 DEF TablesOK, mails
<1>6. /\ item'[i] = it /\ cycle'[i] = cycle[i] /\ nft'[i] = nft[i]
      /\ \A j \in Items \ {i} : /\ item'[j] = item[j] /\ cycle'[j] = cycle[j]
                                /\ nft'[j] = nft[j]
  BY <1>1, <1>2 DEF TablesOK
<1>7. \A x \in Minters \ {m} : at[x].item = i =>
         WorkOK(at[x], item'[i], cycle'[i], nft'[i])
  BY <1>2, <1>4, <1>6 DEF WorkOK
<1>8. CycleOK(cycle'[i], nft'[i])
  BY <1>2, <1>6
<1> HIDE DEF i
<1>9. i \in Items /\ at[m].item = i /\ i # NoItem
  BY <1>2, QueueAssumption DEF i
<1> QED BY <1>1, <1>3, <1>5, <1>6, <1>7, <1>8, <1>9, CardMoves

LEMMA MintsItemBase ==
  ASSUME QueueBase, NEW m \in Minters, MintsItem(m)
  PROVE  QueueBase'
BY ReadsRowsBase, ReserveCycleBase, LinkItemBase, MintNftBase, RecordMintBase,
   SaveCompletedBase, ClosePackageBase, DeliverBase, ResetItemBase
   DEF MintsItem, ReadsRows
-----------------------------------------------------------------------------
(* Calls that start, writes of others, failures.                           *)

\* A call that starts a review's run, or goes on to label its mail.
Begun(v, p) == [Idle EXCEPT !.mail = v, !.pc = p]

LEMMA StartsRecord ==
  ASSUME NEW v \in Mails, NEW p \in {"match", "label"}
  PROVE  LET r == Begun(v, p) IN
         /\ r \in MinterStates /\ PlaceOK(r) /\ r.item = NoItem
         /\ r.pc = p /\ r.mail = v /\ r.ok = {} /\ r.had.ok = {}
<1> DEFINE r == [Idle EXCEPT !.mail = v, !.pc = p]
<1>1. /\ r.pc = p /\ r.mail = v /\ r.item = NoItem /\ ~r.adopt /\ ~r.linked
      /\ r.ok = {} /\ r.had.ok = {}
  BY DEF Idle
<1>2. r \in MinterStates
  BY IdleCall DEF MinterStates
<1> HIDE DEF r
<1>3. PlaceOK(r)
  BY <1>1 DEF PlaceOK, Between
<1>4. Begun(v, p) = r
  BY DEF Begun, r
<1> QED BY <1>1, <1>2, <1>3, <1>4

LEMMA StartsBase ==
  ASSUME QueueBase,
         \/ Label
         \/ \E v \in Mails : PollMail(v) \/ \E a \in Admins : AdminMintReview(a, v)
  PROVE  QueueBase'
<1>1. /\ labelled \in SUBSET Mails /\ runs \in Nat /\ mishaps \in Nat
      /\ review \in [Mails -> [status : {"none", "pending", "minted", "failed",
                                          "dismissed"},
                                ok : SUBSET Items, bad : SUBSET Items]]
      /\ Poll \in Minters /\ Admins \subseteq Minters
      /\ PlaceOK(at[Poll])
  BY CallFacts DEF QueueBase, QueueTypeOK, Minters
<1>2. CASE Label
  <2>1. /\ at' = [at EXCEPT ![Poll] = Idle] /\ labelled' = labelled \cup {at[Poll].mail}
        /\ at[Poll].pc = "label"
        /\ UNCHANGED <<package, item, cycle, nft, named, clobbered, stranded, cut,
                       review, mishaps, runs>>
    BY <1>2 DEF Label, Put, rows, history
  <2>2. at[Poll].mail \in Mails
    BY <1>1, <2>1 DEF PlaceOK, Between
  <2> QED BY <2>1, <2>2, <1>1, IdleCall, ReviewMoves
<1>3. ASSUME NEW v \in Mails, PollMail(v) PROVE QueueBase'
  <2>1. PICK p \in {"match", "label"} :
          at' = [at EXCEPT ![Poll] = [Idle EXCEPT !.mail = v, !.pc = p]]
    <3>1. at' = [at EXCEPT ![Poll] = [Idle EXCEPT !.mail = v,
            !.pc = IF review'[v].status = "pending" THEN "match" ELSE "label"]]
      BY <1>3 DEF PollMail, Put
    <3> QED BY <3>1
  <2> DEFINE r == [Idle EXCEPT !.mail = v, !.pc = p]
  <2>2. /\ UNCHANGED <<package, item, cycle, nft, named, clobbered, stranded, cut,
                       labelled, mishaps>>
        /\ runs' = runs + 1
    BY <1>3 DEF PollMail, rows, history, MoreRuns
  <2>3. review' \in [Mails -> [status : {"none", "pending", "minted", "failed",
                                          "dismissed"},
                                ok : SUBSET Items, bad : SUBSET Items]]
    BY <1>1, <1>3 DEF PollMail
  <2>4. r \in MinterStates /\ PlaceOK(r) /\ r.item = NoItem
    <3> HIDE DEF r
    <3>1. r = Begun(v, p)
      BY DEF Begun, r
    <3> QED BY <2>1, <3>1, StartsRecord
  <2> HIDE DEF r
  <2>5. at' = [at EXCEPT ![Poll] = r] /\ runs' \in Nat
    BY <2>1, <2>2, <1>1 DEF r
  <2> QED BY <2>2, <2>3, <2>4, <2>5, <1>1, ReviewMoves
<1>4. ASSUME NEW v \in Mails, NEW a \in Admins, AdminMintReview(a, v) PROVE QueueBase'
  <2> DEFINE r == [Idle EXCEPT !.mail = v, !.pc = "match"]
  <2>1. /\ UNCHANGED <<package, item, cycle, nft, named, clobbered, stranded, cut,
                       labelled, review, mishaps>>
        /\ runs' = runs + 1 /\ at' = [at EXCEPT ![a] = r]
    BY <1>4 DEF AdminMintReview, rows, mails, history, MoreRuns, Put
  <2> HIDE DEF r
  <2>4. r = Begun(v, "match")
    BY DEF Begun, r
  <2>2. r \in MinterStates /\ PlaceOK(r) /\ r.item = NoItem
    BY <2>4, StartsRecord
  <2>3. runs' \in Nat /\ a \in Minters
    BY <2>1, <1>1
  <2> QED BY <2>1, <2>2, <2>3, <1>1, ReviewMoves
<1> QED BY <1>2, <1>3, <1>4

LEMMA AdminMintItemBase ==
  ASSUME QueueBase, NEW a \in Admins, NEW i \in Items, AdminMintItem(a, i)
  PROVE  QueueBase'
<1> DEFINE r == [Idle EXCEPT !.pc = "start", !.item = i]
<1>1. /\ UNCHANGED <<package, item, cycle, nft, named, clobbered, stranded, cut,
                     labelled, review, mishaps>>
      /\ runs' = runs + 1 /\ at' = [at EXCEPT ![a] = r]
  BY DEF AdminMintItem, rows, mails, history, MoreRuns, Put
<1>2. r.pc = "start" /\ r.item = i /\ ~r.adopt /\ ~r.linked
  BY DEF Idle
<1>3. r \in MinterStates
  BY IdleCall DEF MinterStates
<1> HIDE DEF r
<1>4. PlaceOK(r) /\ ~InMint(r) /\ WorkOK(r, item[i], cycle[i], nft[i])
  BY <1>2, QueueAssumption DEF PlaceOK, Between, InMint, Minted, WorkOK
<1>5. /\ labelled' \in SUBSET Mails /\ runs' \in Nat /\ mishaps' \in Nat
      /\ stranded' \in SUBSET Items /\ cut' \in SUBSET Items
      /\ review' \in [Mails -> [status : {"none", "pending", "minted", "failed",
                                          "dismissed"},
                                ok : SUBSET Items, bad : SUBSET Items]]
      /\ a \in Minters
  BY <1>1 DEF QueueBase, QueueTypeOK, Minters
<1> QED BY <1>1, <1>2, <1>3, <1>4, <1>5, QuietMoves

\* Rows written by no call of the mint: every call's card still suits it.
LEMMA RowsMove ==
  ASSUME QueueBase, at' = at, TablesOK',
         \A x \in Minters : at[x].item # NoItem =>
           WorkOK(at[x], item'[at[x].item], cycle'[at[x].item], nft'[at[x].item]),
         \A i \in Items : CycleOK(cycle'[i], nft'[i])
  PROVE  QueueBase'
BY QueueTypesSplit DEF QueueBase, Working, OneMint

LEMMA OthersBase ==
  ASSUME QueueBase,
         \/ \E v \in Mails : Dismiss(v) \/ \E S \in (SUBSET Items) \ {{}} : SendMail(v, S)
         \/ \E i \in Items : Judge(i, "approved") \/ Judge(i, "rejected")
         \/ \E i \in Items : SellNft(i) \/ Recover(i)
  PROVE  QueueBase'
<1>1. TablesOK
  BY QueueTypesSplit DEF QueueBase
<1>2. \A x \in Minters : at[x].item # NoItem =>
        /\ at[x].item \in Items /\ PlaceOK(at[x])
        /\ WorkOK(at[x], item[at[x].item], cycle[at[x].item], nft[at[x].item])
  BY CallFacts
<1>3. \A i \in Items : CycleOK(cycle[i], nft[i])
  BY DEF QueueBase
<1>4. ASSUME NEW v \in Mails, NEW S \in SUBSET Items, SendMail(v, S) PROVE QueueBase'
  <2>1. UNCHANGED <<package, item, cycle, nft, labelled, review, at, stranded, cut,
                    clobbered, mishaps, runs>>
    BY <1>4 DEF SendMail, rows, history
  <2>2. TablesOK'
    BY <1>1, <1>4, <2>1 DEF TablesOK, SendMail
  <2> QED BY <1>2, <1>3, <2>1, <2>2, RowsMove
<1>5. ASSUME NEW v \in Mails, Dismiss(v) PROVE QueueBase'
  <2>1. UNCHANGED <<package, item, cycle, nft, labelled, named, at, stranded, cut,
                    clobbered, mishaps, runs>>
    BY <1>5 DEF Dismiss, rows, history
  <2>2. TablesOK'
    BY <1>1, <1>5, <2>1 DEF TablesOK, Dismiss
  <2> QED BY <1>2, <1>3, <2>1, <2>2, RowsMove
<1>6. ASSUME NEW i \in Items, NEW s \in {"approved", "rejected"}, Judge(i, s)
      PROVE  QueueBase'
  <2> DEFINE it == [item[i] EXCEPT !.status = s]
  <2>1. /\ item' = [item EXCEPT ![i] = it] /\ runs' = runs + 1
        /\ package' \in {"completed", package}
        /\ item[i].status \in {"reviewing", "approved"}
        /\ UNCHANGED <<cycle, nft, named, labelled, review, at, stranded, cut,
                       clobbered, mishaps>>
    BY <1>6 DEF Judge, MoreRuns, mails, history
  <2>2. it \in [status : ItemStatuses, cycle : 0..MaxCycles] /\ it.status = s
        /\ it.cycle = item[i].cycle /\ item[i].cycle = 0
    BY <1>1, <2>1 DEF TablesOK, ItemStatuses
  <2> HIDE DEF it
  <2>3. \A j \in Items : item'[j] = IF j = i THEN it ELSE item[j]
    BY <1>1, <2>1 DEF TablesOK
  <2>4. /\ item' \in [Items -> [status : ItemStatuses, cycle : 0..MaxCycles]]
        /\ \A j \in Items :
             item'[j].cycle # 0 <=> item'[j].status \in {"minting", "completed"}
    BY <1>1, <2>1, <2>2, <2>3 DEF TablesOK
  <2>5. TablesOK'
    BY <1>1, <2>1, <2>4 DEF TablesOK
  <2>6. \A x \in Minters : at[x].item # NoItem =>
          WorkOK(at[x], item'[at[x].item], cycle'[at[x].item], nft'[at[x].item])
    BY <1>2, <2>1, <2>2, <2>3 DEF WorkOK
  <2> QED BY <1>3, <2>1, <2>5, <2>6, RowsMove
<1>7. ASSUME NEW i \in Items, SellNft(i) PROVE QueueBase'
  <2>1. /\ nft[i] = "user" /\ nft' = [nft EXCEPT ![i] = "sold"]
        /\ UNCHANGED <<package, item, cycle, named, labelled, review, at, stranded,
                       cut, clobbered, mishaps, runs>>
    BY <1>7 DEF SellNft, mails, history
  <2>2. TablesOK'
    BY <1>1, <2>1 DEF TablesOK
  <2>3. \A j \in Items : nft'[j] = IF j = i THEN "sold" ELSE nft[j]
    BY <1>1, <2>1 DEF TablesOK
  <2>4. \A x \in Minters : at[x].item # NoItem =>
          WorkOK(at[x], item'[at[x].item], cycle'[at[x].item], nft'[at[x].item])
    BY <1>2, <2>1, <2>3 DEF WorkOK
  <2>5. \A j \in Items : CycleOK(cycle'[j], nft'[j])
    BY <1>3, <2>1, <2>3 DEF CycleOK
  <2> QED BY <2>1, <2>2, <2>4, <2>5, RowsMove
<1>8. ASSUME NEW i \in Items, Recover(i) PROVE QueueBase'
  <2> DEFINE c == [cycle[i] EXCEPT !.st = IF nft[i] = "none" THEN "none" ELSE "minted"]
  <2>1. /\ cycle[i].st = "open" /\ ~MintInFlight(i)
        /\ cycle' = [cycle EXCEPT ![i] = c]
        /\ UNCHANGED <<package, item, nft, named, labelled, review, at, stranded,
                       cut, clobbered, mishaps, runs>>
    BY <1>8 DEF Recover, mails, history
  <2>2. /\ c \in [n : 0..MaxCycles, st : {"none", "open", "minted"}]
        /\ c.n = cycle[i].n /\ c.st = IF nft[i] = "none" THEN "none" ELSE "minted"
    BY <1>1 DEF TablesOK
  <2> HIDE DEF c
  <2>3. TablesOK'
    BY <1>1, <2>1, <2>2 DEF TablesOK
  <2>4. \A j \in Items : cycle'[j] = IF j = i THEN c ELSE cycle[j]
    BY <1>1, <2>1 DEF TablesOK
  <2>5. \A x \in Minters : at[x].item = i => ~InMint(at[x])
    BY <2>1 DEF MintInFlight, InMint
  <2>6. \A x \in Minters : at[x].item # NoItem =>
          WorkOK(at[x], item'[at[x].item], cycle'[at[x].item], nft'[at[x].item])
    <3> TAKE x \in Minters
    <3>1. CASE at[x].item = i
      <4>1. WorkOK(at[x], item[i], cycle[i], nft[i])
        BY <1>2, <3>1, QueueAssumption
      <4>2. WorkOK(at[x], item[i], c, nft[i])
        BY <4>1, <2>2, <2>5, <3>1 DEF WorkOK
      <4> QED BY <4>2, <2>1, <2>4, <3>1
    <3>2. CASE at[x].item # i
      BY <3>2, <1>2, <2>1, <2>4
    <3> QED BY <3>1, <3>2
  <2>7. \A j \in Items : CycleOK(cycle'[j], nft'[j])
    BY <1>3, <2>1, <2>2, <2>4 DEF CycleOK
  <2> QED BY <2>1, <2>3, <2>6, <2>7, RowsMove
<1> QED BY <1>4, <1>5, <1>6, <1>7, <1>8

\* A call that throws.
LEMMA CallFailsBase ==
  ASSUME QueueBase, NEW m \in Minters, CallFails(m)
  PROVE  QueueBase'
<1> DEFINE i == at[m].item
<1>1. /\ at[m].pc \notin {"idle", "next", "mint"} /\ mishaps' = mishaps + 1
      /\ nft' \in SentAfterAll(m)
      /\ stranded' \in {stranded, stranded \cup {i}}
      /\ Delivering(m) \/ stranded' = stranded
      /\ cut' \in {cut, cut \cup {i}} /\ (i # NoItem \/ cut' = cut)
      /\ UNCHANGED <<package, item, cycle, named, labelled, review, clobbered, runs>>
  BY DEF CallFails, mails
<1>2. at[m] \in MinterStates /\ PlaceOK(at[m]) /\ TablesOK
  BY CallFacts, QueueTypesSplit DEF QueueBase
<1>3. i # NoItem => i \in Items
  BY CallFacts
<1>4. Delivering(m) => i # NoItem
  BY <1>2 DEF Delivering, PlaceOK, Between
<1>5. stranded' \in SUBSET Items /\ cut' \in SUBSET Items /\ mishaps' \in Nat
  BY <1>1, <1>2, <1>3, <1>4 DEF TablesOK
<1>6. CASE i = NoItem
  <2>1. at' = [at EXCEPT ![m] = Idle]
    BY <1>6, <1>1, <1>2 DEF CallFails, Put, PlaceOK, Between, Trying
  <2>2. nft' = nft
    BY <1>1, <1>2, <1>6 DEF SentAfterAll, PlaceOK, Between
  <2>3. labelled' \in SUBSET Mails /\ runs' \in Nat
        /\ review' \in [Mails -> [status : {"none", "pending", "minted", "failed",
                                          "dismissed"},
                                ok : SUBSET Items, bad : SUBSET Items]]
    BY <1>1, <1>2 DEF TablesOK
  <2> HIDE DEF i
  <2> QED BY <2>1, <2>2, <2>3, <1>1, <1>5, IdleCall, QuietMoves
<1>7. CASE i # NoItem
  <2>1. at[m].pc \notin Between
    BY <1>2, <1>7 DEF PlaceOK
  <2>2. /\ i \in Items /\ WorkOK(at[m], item[i], cycle[i], nft[i])
        /\ CycleOK(cycle[i], nft[i])
        /\ \A x \in Minters \ {m} : at[x].item = i =>
              WorkOK(at[x], item[i], cycle[i], nft[i]) /\ PlaceOK(at[x])
    BY <2>1, CardFacts
  <2>3. /\ \A j \in Items \ {i} : nft'[j] = nft[j]
        /\ nft'[i] = nft[i] \/ (nft[i] = "custody" /\ nft'[i] = "user")
        /\ nft' \in [Items -> {"none", "custody", "user", "sold"}]
    BY <1>1, <1>2, <2>2 DEF SentAfterAll, TablesOK
  <2>4. TablesOK'
    BY <1>1, <1>2, <1>5, <2>3 DEF TablesOK
  <2>5. CycleOK(cycle'[i], nft'[i])
    BY <1>1, <2>2, <2>3 DEF CycleOK
  <2>6. \A x \in Minters \ {m} : at[x].item = i =>
             WorkOK(at[x], item'[i], cycle'[i], nft'[i])
    BY <1>1, <2>2, <2>3 DEF WorkOK
  <2>7. \A j \in Items \ {i} : item'[j] = item[j] /\ cycle'[j] = cycle[j]
    BY <1>1
  <2>8. CASE at[m].pc \in Trying
    <3> DEFINE r == [at[m] EXCEPT !.pc = "catch"]
    <3>1. at' = [at EXCEPT ![m] = r]
      BY <2>8 DEF CallFails, Goes, Put
    <3>2. r \in MinterStates /\ r.pc = "catch" /\ r.item = i /\ r.mail = at[m].mail
      BY <1>2, GoesTo
    <3> HIDE DEF r
    <3>3. PlaceOK(r) /\ ~InMint(r)
      BY <3>2, <1>7 DEF PlaceOK, Between, InMint
    <3>4. WorkOK(r, item'[i], cycle'[i], nft'[i])
      BY <3>2, <3>3 DEF WorkOK, InMint, Minted
    <3> HIDE DEF i
    <3>5. i \in Items /\ at[m].item = i /\ r.item = i
      BY <2>2, <3>2 DEF i
    <3> QED BY <3>1, <3>2, <3>3, <3>4, <3>5, <2>3, <2>4, <2>5, <2>6, <2>7, CardMoves
  <2>9. CASE at[m].pc \notin Trying
    <3> DEFINE r == ItemOver(at[m], FALSE)
    <3>1. at' = [at EXCEPT ![m] = r]
      BY <1>7, <2>9, ItemEndsIs DEF CallFails
    <3>2. r \in MinterStates /\ PlaceOK(r) /\ r.item = NoItem /\ ~InMint(r)
      BY <1>2, <2>2, ItemOverOK
    <3> HIDE DEF i, r
    <3>3. i \in Items /\ at[m].item = i /\ i # NoItem
      BY <2>2, <1>7 DEF i
    <3>4. \A j \in Items \ {i} : /\ item'[j] = item[j] /\ cycle'[j] = cycle[j]
                                  /\ nft'[j] = nft[j]
      BY <2>3, <2>7
    <3> QED BY <3>1, <3>2, <3>3, <3>4, <2>4, <2>5, <2>6, CardMoves
  <2> QED BY <2>8, <2>9
<1> QED BY <1>6, <1>7

LEMMA QueueRestartBase ==
  ASSUME QueueBase, QueueRestart
  PROVE  QueueBase'
<1>1. /\ mishaps' = mishaps + 1
      /\ stranded' = stranded \cup {at[m].item : m \in {x \in Minters : Delivering(x)}}
      /\ cut' = cut \cup {at[m].item : m \in {x \in Minters : Responsible(x)}}
      /\ at' = [m \in Minters |-> Idle]
      /\ UNCHANGED <<package, item, cycle, nft, named, labelled, review, clobbered, runs>>
  BY DEF QueueRestart, rows, mails
<1>2. TablesOK /\ \A i \in Items : CycleOK(cycle[i], nft[i])
  BY QueueTypesSplit DEF QueueBase
<1>3. \A m \in Minters : PlaceOK(at[m]) /\ (at[m].item # NoItem => at[m].item \in Items)
  BY CallFacts
<1>4. \A m \in Minters : Delivering(m) \/ Responsible(m) => at[m].item \in Items
  BY <1>3 DEF Delivering, Responsible, PlaceOK, Between
<1>5. stranded' \in SUBSET Items /\ cut' \in SUBSET Items
  BY <1>1, <1>2, <1>4 DEF TablesOK
<1>6. TablesOK'
  BY <1>1, <1>2, <1>5 DEF TablesOK
<1>7. at' \in [Minters -> MinterStates] /\ \A m \in Minters : at'[m] = Idle
  BY <1>1, IdleCall
<1>8. Working' /\ OneMint'
  BY <1>7, IdleCall DEF Working, OneMint
<1>9. \A i \in Items : CycleOK(cycle'[i], nft'[i])
  BY <1>1, <1>2
<1> QED BY <1>6, <1>7, <1>8, <1>9, QueueTypesSplit DEF QueueBase

LEMMA QueueBaseStep == QueueBase /\ [QueueNext]_queueVars => QueueBase'
<1> SUFFICES ASSUME QueueBase, [QueueNext]_queueVars PROVE QueueBase'
  OBVIOUS
<1>1. CASE QueueNext
  BY <1>1, RunsReviewBase, MintsItemBase, StartsBase, AdminMintItemBase, OthersBase,
     CallFailsBase, QueueRestartBase DEF QueueNext
<1>2. CASE UNCHANGED queueVars
  <2>1. UNCHANGED <<package, item, cycle, nft, named, labelled, review, at, stranded,
                    cut, clobbered, runs, mishaps>>
    BY <1>2 DEF queueVars, rows, mails, history
  <2>2. TablesOK'
    BY <2>1, QueueTypesSplit DEF QueueBase, TablesOK
  <2> QED BY <2>1, <2>2, RowsMove DEF QueueBase, Working
<1> QED BY <1>1, <1>2

LEMMA QueueBaseInvariance == QueueSpec => []QueueBase
BY QueueBaseInit, QueueBaseStep, PTL DEF QueueSpec

\* Each item is linked to a cycle just while it is in "minting" or completed;
\* what a poll, an admin or the recovery cron holds is well formed.
THEOREM QueueTypeCorrect == QueueSpec => []QueueTypeOK
<1>1. QueueBase => QueueTypeOK
  BY DEF QueueBase
<1> QED BY <1>1, QueueBaseInvariance, PTL
-----------------------------------------------------------------------------
(* Who owes what: the items in "minting", the tokens of completed items, and *)
(* the certs of a mail.                                                      *)

Sending(r) == ~r.adopt /\ r.pc \in {"close", "closing", "deliver"}
AtUser(t)  == t \in {"user", "sold"}

QueueMore == MintingOwed /\ CompletedItemsDelivered /\ RunsOK /\ ReviewsOK

\* What every step keeps: nobody takes a token back, and the history grows.
Onward ==
  /\ \A i \in Items : AtUser(nft[i]) => AtUser(nft'[i])
  /\ cut \subseteq cut' /\ stranded \subseteq stranded' /\ clobbered \subseteq clobbered'

\* What the move of a call to r must see to, for the items ...
ItemsSeenTo(m, r) ==
  LET i == at[m].item IN
  /\ \A j \in Items : item'[j].status = "minting" =>
       item[j].status = "minting" \/ (r.item = j /\ Owing(r))
  /\ Owing(at[m]) /\ item'[i].status = "minting" =>
       i \in cut' \/ (r.item = i /\ Owing(r))
  /\ \A j \in Items : item'[j].status = "completed" =>
       item[j].status = "completed" \/ AtUser(nft'[j]) \/ (r.item = j /\ Sending(r))
  /\ Sending(at[m]) => i \in stranded' \/ AtUser(nft'[i]) \/ (r.item = i /\ Sending(r))
  /\ package' = "completed" => \A j \in Items : Done(item'[j].status) \/ j \in clobbered'

\* ... and for its mail.
MailSeenTo(r) ==
  /\ RunOK(r, named'[r.mail])
  /\ \A i \in r.ok \cup r.had.ok : AtUser(nft'[i])

LEMMA MoreMoves ==
  ASSUME QueueBase, QueueMore, NEW m \in Minters, NEW r \in MinterStates,
         at' = [at EXCEPT ![m] = r], Onward, ItemsSeenTo(m, r), MailSeenTo(r),
         named' = named, ReviewsOK'
  PROVE  QueueMore'
<1>1. \A x \in Minters : at'[x] = IF x = m THEN r ELSE at[x]
  BY DEF QueueBase, QueueTypeOK
<1>2. MintingOwed'
  <2> SUFFICES ASSUME NEW i \in Items, item'[i].status = "minting", i \notin cut'
               PROVE  \E x \in Minters : at'[x].item = i /\ Owing(at'[x])
    BY DEF MintingOwed
  <2>1. CASE r.item = i /\ Owing(r)
    BY <1>1, <2>1
  <2>2. CASE ~(r.item = i /\ Owing(r))
    <3>1. item[i].status = "minting" /\ i \notin cut
      BY <2>2 DEF ItemsSeenTo, Onward
    <3>2. PICK x \in Minters : at[x].item = i /\ Owing(at[x])
      BY <3>1 DEF QueueMore, MintingOwed
    <3>3. x # m
      BY <2>2, <3>2 DEF ItemsSeenTo
    <3> QED BY <1>1, <3>2, <3>3
  <2> QED BY <2>1, <2>2
<1>3. CompletedItemsDelivered'
  <2>1. ASSUME NEW i \in Items, item'[i].status = "completed", ~AtUser(nft'[i]),
               i \notin stranded'
        PROVE  \E x \in Minters : at'[x].item = i /\ Sending(at'[x])
    <3>1. CASE r.item = i /\ Sending(r)
      BY <1>1, <3>1
    <3>2. CASE ~(r.item = i /\ Sending(r))
      <4>1. item[i].status = "completed" /\ i \notin stranded /\ ~AtUser(nft[i])
        BY <2>1, <3>2 DEF ItemsSeenTo, Onward
      <4>2. PICK x \in Minters : at[x].item = i /\ Sending(at[x])
        BY <4>1 DEF QueueMore, CompletedItemsDelivered, Delivered, Delivering, Sending,
           AtUser
      <4>3. x # m
        BY <2>1, <3>2, <4>2 DEF ItemsSeenTo
      <4> QED BY <1>1, <4>2, <4>3
    <3> QED BY <3>1, <3>2
  <2>2. package' = "completed" => \A i \in Items : Done(item'[i].status) \/ i \in clobbered'
    BY DEF ItemsSeenTo
  <2> QED BY <2>1, <2>2 DEF CompletedItemsDelivered, Delivered, Delivering, Sending, AtUser
<1>4. RunsOK'
  <2>1. \A x \in Minters : x # m => /\ RunOK(at[x], named[at[x].mail])
                                   /\ \A i \in at[x].ok \cup at[x].had.ok : AtUser(nft[i])
    BY DEF QueueMore, RunsOK, Delivered, AtUser
  <2>2. \A x \in Minters : at[x].ok \subseteq Items /\ at[x].had.ok \subseteq Items
    BY DEF QueueBase, QueueTypeOK, MinterStates
  <2>3. \A x \in Minters : x # m => /\ RunOK(at[x], named'[at[x].mail])
                                   /\ \A i \in at[x].ok \cup at[x].had.ok : AtUser(nft'[i])
    BY <2>1, <2>2 DEF Onward
  <2>4. \A x \in Minters : /\ RunOK(at'[x], named'[at'[x].mail])
                          /\ \A i \in at'[x].ok \cup at'[x].had.ok : AtUser(nft'[i])
    BY <1>1, <2>3 DEF MailSeenTo
  <2> QED BY <2>4 DEF RunsOK, Delivered, AtUser
<1> QED BY <1>2, <1>3, <1>4 DEF QueueMore

\* A review nobody writes.
LEMMA ReviewsStay ==
  ASSUME QueueBase, QueueMore, Onward, UNCHANGED <<named, review>>
  PROVE  ReviewsOK'
<1>1. \A v \in Mails : review[v].ok \subseteq Items
  BY DEF QueueBase, QueueTypeOK
<1> QED BY <1>1 DEF QueueMore, ReviewsOK, Onward, Delivered, AtUser

\* A call that goes on with its item.
LEMMA ItemGoesOn ==
  ASSUME QueueBase, QueueMore, NEW m \in Minters, NEW r \in MinterStates,
         at' = [at EXCEPT ![m] = r], Onward, ItemsSeenTo(m, r),
         UNCHANGED <<named, review>>,
         at[m].pc \notin Between, r.pc \notin Between, r.item = at[m].item,
         r.mail = at[m].mail, r.todo = at[m].todo, r.ok = at[m].ok, r.bad = at[m].bad,
         r.had = at[m].had
  PROVE  QueueMore'
<1>1. /\ RunOK(at[m], named[at[m].mail])
      /\ \A i \in at[m].ok \cup at[m].had.ok : AtUser(nft[i])
  BY DEF QueueMore, RunsOK, Delivered, AtUser
<1>2. at[m].ok \subseteq Items /\ at[m].had.ok \subseteq Items
  BY DEF QueueBase, QueueTypeOK, MinterStates
<1>3. RunOK(r, named'[r.mail])
  BY <1>1 DEF RunOK, Between
<1>4. MailSeenTo(r)
  BY <1>1, <1>2, <1>3 DEF MailSeenTo, Onward
<1> QED BY <1>4, ReviewsStay, MoreMoves

\* A call that is through with its item.
LEMMA ItemLeft ==
  ASSUME QueueBase, QueueMore, NEW m \in Minters, NEW good \in BOOLEAN,
         at' = [at EXCEPT ![m] = ItemOver(at[m], good)], Onward,
         ItemsSeenTo(m, ItemOver(at[m], good)), UNCHANGED <<named, review>>,
         at[m].pc \notin Between, good => AtUser(nft'[at[m].item])
  PROVE  QueueMore'
<1>1. /\ RunOK(at[m], named[at[m].mail])
      /\ \A i \in at[m].ok \cup at[m].had.ok : AtUser(nft[i])
  BY DEF QueueMore, RunsOK, Delivered, AtUser
<1>2. at[m] \in MinterStates /\ at[m].ok \subseteq Items /\ at[m].had.ok \subseteq Items
  BY DEF QueueBase, QueueTypeOK, MinterStates
<1>3. at[m].item \in Items
  BY CardFacts
<1> DEFINE r == ItemOver(at[m], good)
<1>4. r \in MinterStates
  BY <1>2, <1>3, ItemOverOK
<1>5. MailSeenTo(r)
  <2>1. CASE at[m].mail = NoItem
    <3>1. r = Idle
      BY <2>1 DEF ItemOver
    <3>2. Idle.mail \notin Mails /\ Idle.pc \notin {"outcome", "save"}
      BY QueueAssumption DEF Idle
    <3> HIDE DEF r
    <3> QED BY <3>1, <3>2, IdleCall DEF MailSeenTo, RunOK
  <2>2. CASE at[m].mail # NoItem
    <3>1. r = [at[m] EXCEPT !.pc = "next", !.item = NoItem, !.prior = "reviewing",
                 !.n = 0, !.linked = FALSE, !.adopt = FALSE,
                 !.ok = IF good THEN @ \cup {at[m].item} ELSE @,
                 !.bad = IF good THEN @ ELSE @ \cup {at[m].item}]
      BY <2>2 DEF ItemOver
    <3>2. /\ r.pc = "next" /\ r.mail = at[m].mail /\ r.todo = at[m].todo
          /\ r.ok = (IF good THEN at[m].ok \cup {at[m].item} ELSE at[m].ok)
          /\ r.bad = (IF good THEN at[m].bad ELSE at[m].bad \cup {at[m].item})
          /\ r.had = at[m].had
      <4> HIDE DEF r
      <4> QED BY <3>1, <1>2 DEF MinterStates
    <3> HIDE DEF r
    <3>3. at[m].mail \in Mails => named[at[m].mail] # {} /\
            named[at[m].mail] \subseteq at[m].todo \cup {at[m].item} \cup at[m].ok \cup at[m].bad
      BY <1>1 DEF RunOK, Between
    <3>4. RunOK(r, named'[r.mail])
      BY <3>2, <3>3 DEF RunOK
    <3>5. \A i \in r.ok \cup r.had.ok : AtUser(nft'[i])
      BY <1>1, <1>2, <3>2 DEF Onward
    <3> QED BY <3>4, <3>5 DEF MailSeenTo
  <2> QED BY <2>1, <2>2
<1> QED BY <1>4, <1>5, ReviewsStay, MoreMoves

\* What the promises say of the item in hand before a step.
LEMMA InHand ==
  ASSUME QueueBase, QueueMore, NEW m \in Minters, at[m].pc \notin Between
  PROVE  LET i == at[m].item IN
         /\ i \in Items /\ at[m] \in MinterStates /\ PlaceOK(at[m])
         /\ WorkOK(at[m], item[i], cycle[i], nft[i]) /\ TablesOK
         /\ package = "completed" => \A j \in Items : Done(item[j].status) \/ j \in clobbered
<1>1. package = "completed" => \A j \in Items : Done(item[j].status) \/ j \in clobbered
  BY DEF QueueMore, CompletedItemsDelivered
<1> QED BY <1>1, CardFacts

LEMMA ReadsRowsMore ==
  ASSUME QueueBase, QueueMore, NEW m \in Minters, ReadsRows(m)
  PROVE  QueueMore'
<1> DEFINE i == at[m].item
<1>1. UNCHANGED <<package, item, cycle, nft, named, clobbered, stranded, cut, review>>
  BY DEF ReadsRows, StartItem, FindToken, FindItem, FindLinked, ReadItems, Catch,
         rows, mails, history
<1>2. /\ at[m].pc \in {"start", "find", "attach", "complete", "close", "catch"}
      /\ at[m].pc \notin Between
  BY DEF ReadsRows, StartItem, FindToken, FindItem, FindLinked, ReadItems, Catch, Between
<1>3. /\ i \in Items /\ at[m] \in MinterStates /\ PlaceOK(at[m])
      /\ WorkOK(at[m], item[i], cycle[i], nft[i])
      /\ cycle[i].n \in 0..MaxCycles
      /\ package = "completed" => \A j \in Items : Done(item[j].status) \/ j \in clobbered
  BY <1>2, InHand DEF TablesOK
<1>4. Onward
  BY <1>1 DEF Onward
<1>5. ASSUME NEW r,
             /\ Owing(at[m]) /\ item[i].status = "minting" => r.item = i /\ Owing(r)
             /\ Sending(at[m]) => AtUser(nft[i]) \/ (r.item = i /\ Sending(r))
      PROVE  ItemsSeenTo(m, r)
  BY <1>1, <1>3, <1>5 DEF ItemsSeenTo
<1>6. ASSUME NEW good \in BOOLEAN, at' = [at EXCEPT ![m] = ItemOver(at[m], good)],
             good => AtUser(nft[i]),
             Owing(at[m]) => item[i].status # "minting",
             Sending(at[m]) => AtUser(nft[i])
      PROVE  QueueMore'
  <2>1. ItemsSeenTo(m, ItemOver(at[m], good))
    BY <1>5, <1>6
  <2>2. good => AtUser(nft'[i])
    BY <1>1, <1>6
  <2> QED BY <1>1, <1>2, <1>4, <1>6, <2>1, <2>2, ItemLeft
<1>7. ASSUME NEW r \in MinterStates, at' = [at EXCEPT ![m] = r], r.pc \notin Between,
             r.item = i, r.mail = at[m].mail, r.todo = at[m].todo, r.ok = at[m].ok,
             r.bad = at[m].bad, r.had = at[m].had,
             Owing(at[m]) /\ item[i].status = "minting" => Owing(r),
             Sending(at[m]) => Sending(r)
      PROVE  QueueMore'
  <2>1. ItemsSeenTo(m, r)
    BY <1>5, <1>7
  <2> QED BY <1>1, <1>2, <1>4, <1>7, <2>1, ItemGoesOn
<1>8. ASSUME NEW p \in {"reserve", "link", "catch", "mint", "completed", "deliver",
                        "closing", "reset"},
             at' = [at EXCEPT ![m] = [at[m] EXCEPT !.pc = p]],
             \A r : /\ r.pc = p /\ r.adopt = at[m].adopt /\ r.linked = at[m].linked
                    => /\ Owing(at[m]) /\ item[i].status = "minting" => Owing(r)
                       /\ Sending(at[m]) => Sending(r)
      PROVE  QueueMore'
  <2> DEFINE r == [at[m] EXCEPT !.pc = p]
  <2>1. /\ r \in MinterStates /\ r.pc = p /\ r.item = i
        /\ r.mail = at[m].mail /\ r.adopt = at[m].adopt /\ r.linked = at[m].linked
        /\ r.todo = at[m].todo /\ r.ok = at[m].ok /\ r.bad = at[m].bad
        /\ r.had = at[m].had
    <3>1. p \in {"idle", "match", "next", "start", "outcome", "save", "label",
                  "mint", "catch", "reset"} \cup Trying
      BY <1>8 DEF Trying
    <3> QED BY <1>3, <3>1, GoesTo
  <2>2. at' = [at EXCEPT ![m] = r]
    BY <1>8
  <2> HIDE DEF r
  <2>3. r.pc \notin Between
    BY <2>1 DEF Between
  <2>4. /\ Owing(at[m]) /\ item[i].status = "minting" => Owing(r)
        /\ Sending(at[m]) => Sending(r)
    BY <1>8, <2>1
  <2> HIDE DEF i
  <2> QED BY <2>1, <2>2, <2>3, <2>4, <1>7
<1>9. CASE StartItem(m)
  <2>1. at[m].pc = "start" /\ ~Owing(at[m]) /\ ~Sending(at[m])
    BY <1>3, <1>9 DEF StartItem, Owing, Sending, PlaceOK
  <2>2. CASE Mintable(i)
    <3> DEFINE r == [at[m] EXCEPT !.pc = "find", !.prior = item[i].status]
    <3>1. at' = [at EXCEPT ![m] = r] /\ item[i].status \in {"reviewing", "approved"}
      BY <1>9, <2>2 DEF StartItem, Put, Mintable
    <3>2. /\ r \in MinterStates /\ r.pc = "find" /\ r.item = i
          /\ r.mail = at[m].mail /\ r.todo = at[m].todo /\ r.ok = at[m].ok
          /\ r.bad = at[m].bad /\ r.had = at[m].had
      BY <3>1, <1>3 DEF MinterStates, Trying
    <3> HIDE DEF r
    <3>3. r.pc \notin Between
      BY <3>2 DEF Between
    <3> HIDE DEF i
    <3> QED BY <3>1, <3>2, <3>3, <2>1, <1>7
  <2>3. CASE ~Mintable(i)
    <3>1. at' = [at EXCEPT ![m] = ItemOver(at[m], FALSE)]
      BY <1>9, <2>3, ItemEndsIs DEF StartItem
    <3> QED BY <3>1, <2>1, <1>6
  <2> QED BY <2>2, <2>3
<1>10. CASE FindToken(m)
  <2>1. at[m].pc = "find" /\ ~Owing(at[m]) /\ ~Sending(at[m])
    BY <1>3, <1>10 DEF FindToken, Owing, Sending, PlaceOK
  <2>2. CASE cycle[i].st = "minted"
    <3> DEFINE r == [at[m] EXCEPT !.pc = "attach", !.adopt = TRUE, !.n = cycle[i].n]
    <3>1. at' = [at EXCEPT ![m] = r]
      BY <1>10, <2>2 DEF FindToken, Put
    <3>2. /\ r \in MinterStates /\ r.pc = "attach" /\ r.item = i
          /\ r.mail = at[m].mail /\ r.todo = at[m].todo /\ r.ok = at[m].ok
          /\ r.bad = at[m].bad /\ r.had = at[m].had
      BY <1>3 DEF MinterStates, Trying
    <3> HIDE DEF r
    <3>3. r.pc \notin Between
      BY <3>2 DEF Between
    <3> HIDE DEF i
    <3> QED BY <3>1, <3>2, <3>3, <2>1, <1>7
  <2>3. CASE cycle[i].st # "minted"
    <3>1. at' = [at EXCEPT ![m] = [at[m] EXCEPT !.pc = "reserve"]]
      BY <1>10, <2>3 DEF FindToken, Goes, Put
    <3> QED BY <3>1, <2>1, <1>8
  <2> QED BY <2>2, <2>3
<1>11. CASE FindItem(m)
  <2>1. at[m].pc = "attach" /\ ~Owing(at[m]) /\ ~Sending(at[m])
    BY <1>11 DEF FindItem, Owing, Sending
  <2>2. \E p \in {"link", "catch", "mint"} :
          at' = [at EXCEPT ![m] = [at[m] EXCEPT !.pc = p]]
    BY <1>11 DEF FindItem, Goes, Put
  <2> QED BY <2>1, <2>2, <1>8
<1>12. CASE FindLinked(m)
  <2>1. at[m].pc = "complete" /\ ~Sending(at[m])
    BY <1>12 DEF FindLinked, Sending
  <2>2. CASE item[i].cycle = at[m].n
    <3>1. at' = [at EXCEPT ![m] = [at[m] EXCEPT !.pc = "completed"]]
      BY <1>12, <2>2 DEF FindLinked, Goes, Put
    <3>2. \A r : /\ r.pc = "completed" /\ r.adopt = at[m].adopt /\ r.linked = at[m].linked
                 => (Owing(at[m]) => Owing(r))
      BY <2>1 DEF Owing
    <3> QED BY <3>1, <3>2, <2>1, <1>8
  <2>3. CASE item[i].cycle # at[m].n /\ at[m].adopt
    <3>1. at' = [at EXCEPT ![m] = [at[m] EXCEPT !.pc = "catch"]]
      BY <1>12, <2>3 DEF FindLinked, Goes, Put
    <3>2. \A r : r.pc = "catch" => Owing(r)
      BY DEF Owing
    <3> QED BY <3>1, <3>2, <2>1, <1>8
  <2>4. CASE item[i].cycle # at[m].n /\ ~at[m].adopt
    <3>1. at' = [at EXCEPT ![m] = [at[m] EXCEPT !.pc = "deliver"]]
      BY <1>12, <2>4 DEF FindLinked, Goes, Put
    <3>2. ~(Owing(at[m]) /\ item[i].status = "minting")
      BY <1>3, <2>1, <2>4 DEF Owing, WorkOK
    <3> QED BY <3>1, <3>2, <2>1, <1>8
  <2> QED BY <2>2, <2>3, <2>4
<1>13. CASE ReadItems(m)
  <2>1. at[m].pc = "close" /\ ~Owing(at[m])
    BY <1>13 DEF ReadItems, Owing
  <2>2. CASE at' = [at EXCEPT ![m] = [at[m] EXCEPT !.pc = "closing"]]
    <3>1. \A r : r.pc = "closing" /\ r.adopt = at[m].adopt => (Sending(at[m]) => Sending(r))
      BY DEF Sending
    <3> QED BY <3>1, <2>1, <2>2, <1>8
  <2>3. CASE ~at[m].adopt /\ at' = [at EXCEPT ![m] = [at[m] EXCEPT !.pc = "deliver"]]
    <3>1. \A r : r.pc = "deliver" /\ r.adopt = at[m].adopt => Sending(r)
      BY <2>3 DEF Sending
    <3> QED BY <3>1, <2>1, <2>3, <1>8
  <2>4. CASE at[m].adopt /\ at' = [at EXCEPT ![m] = ItemOver(at[m], TRUE)]
    <3>1. AtUser(nft[i])
      BY <1>3, <2>1, <2>4 DEF WorkOK, AtUser
    <3> QED BY <3>1, <2>1, <2>4, <1>6
  <2> QED BY <1>13, <2>2, <2>3, <2>4, ItemEndsIs DEF ReadItems, AfterCompleted, Goes, Put
<1>14. CASE Catch(m)
  <2>1. at[m].pc = "catch" /\ ~Sending(at[m])
    BY <1>14 DEF Catch, Sending
  <2>2. CASE item[i].status = "minting"
    <3>1. at' = [at EXCEPT ![m] = [at[m] EXCEPT !.pc = "reset"]]
      BY <1>14, <2>2 DEF Catch, Goes, Put
    <3>2. \A r : r.pc = "reset" => Owing(r)
      BY DEF Owing
    <3> QED BY <3>1, <3>2, <2>1, <1>8
  <2>3. CASE item[i].status # "minting"
    <3>1. at' = [at EXCEPT ![m] = ItemOver(at[m], FALSE)]
      BY <1>14, <2>3, ItemEndsIs DEF Catch
    <3> QED BY <3>1, <2>1, <2>3, <1>6
  <2> QED BY <2>2, <2>3
<1> QED BY <1>9, <1>10, <1>11, <1>12, <1>13, <1>14 DEF ReadsRows

\* The actions that write the rows of an item, its cycle or its token.
LEMMA WritesMore ==
  ASSUME QueueBase, QueueMore, NEW m \in Minters,
         \/ ReserveCycle(m) \/ LinkItem(m) \/ MintNft(m) \/ MintFails(m) \/ RecordMint(m)
         \/ SaveCompleted(m) \/ ClosePackage(m) \/ Deliver(m) \/ ResetItem(m)
  PROVE  QueueMore'
<1> DEFINE i == at[m].item
<1>1. /\ UNCHANGED <<named, stranded, cut, review>>
      /\ at[m].pc \in {"reserve", "link", "mint", "record", "completed", "closing",
                       "deliver", "reset"}
      /\ at[m].pc \notin Between
  BY DEF ReserveCycle, LinkItem, MintNft, MintFails, RecordMint, SaveCompleted,
         ClosePackage, Deliver, ResetItem, mails, history, Between
<1>2. /\ i \in Items /\ at[m] \in MinterStates /\ PlaceOK(at[m])
      /\ WorkOK(at[m], item[i], cycle[i], nft[i]) /\ TablesOK
      /\ package = "completed" => \A j \in Items : Done(item[j].status) \/ j \in clobbered
  BY <1>1, InHand
<1>3. ASSUME NEW p \in {"catch", "attach", "complete", "deliver", "record", "close",
                        "mint"},
             at' = [at EXCEPT ![m] = [at[m] EXCEPT !.pc = p]], Onward,
             \A r : /\ r.pc = p /\ r.adopt = at[m].adopt /\ r.linked = at[m].linked
                       /\ r.item = i
                    => ItemsSeenTo(m, r)
      PROVE  QueueMore'
  <2> DEFINE r == [at[m] EXCEPT !.pc = p]
  <2>1. /\ r \in MinterStates /\ r.pc = p /\ r.item = i
        /\ r.mail = at[m].mail /\ r.adopt = at[m].adopt /\ r.linked = at[m].linked
        /\ r.todo = at[m].todo /\ r.ok = at[m].ok /\ r.bad = at[m].bad
        /\ r.had = at[m].had
    <3>1. p \in {"idle", "match", "next", "start", "outcome", "save", "label",
                  "mint", "catch", "reset"} \cup Trying
      BY <1>3 DEF Trying
    <3> QED BY <1>2, <3>1, GoesTo
  <2>2. at' = [at EXCEPT ![m] = r]
    BY <1>3
  <2> HIDE DEF r
  <2>3. r.pc \notin Between
    BY <1>3, <2>1 DEF Between
  <2>4. ItemsSeenTo(m, r)
    BY <1>3, <2>1
  <2> QED BY <1>1, <1>3, <2>1, <2>2, <2>3, <2>4, ItemGoesOn
<1>4. CASE ReserveCycle(m)
  <2>1. /\ UNCHANGED <<package, item, nft, clobbered>>
        /\ at[m].pc = "reserve" /\ ~Owing(at[m]) /\ ~Sending(at[m])
    BY <1>2, <1>4 DEF ReserveCycle, history, Owing, Sending, PlaceOK
  <2>2. Onward /\ \A r : ItemsSeenTo(m, r)
    BY <1>1, <1>2, <2>1 DEF Onward, ItemsSeenTo
  <2>3. CASE cycle[i].st # "none"
    <3>1. at' = [at EXCEPT ![m] = [at[m] EXCEPT !.pc = "catch"]]
      BY <1>4, <2>3 DEF ReserveCycle, Goes, Put
    <3> QED BY <3>1, <2>2, <1>3
  <2>4. CASE cycle[i].st = "none"
    <3> DEFINE r == [at[m] EXCEPT !.pc = "attach", !.n = cycle'[i].n]
    <3>1. at' = [at EXCEPT ![m] = r] /\ cycle[i].n < MaxCycles
          /\ cycle' = [cycle EXCEPT ![i] = [n |-> cycle[i].n + 1, st |-> "open"]]
      BY <1>4, <2>4 DEF ReserveCycle, Put
    <3>2. cycle'[i].n \in 0..MaxCycles
      BY <3>1, <1>2, QueueAssumption DEF TablesOK
    <3>3. /\ r \in MinterStates /\ r.pc = "attach" /\ r.item = i
          /\ r.mail = at[m].mail /\ r.todo = at[m].todo /\ r.ok = at[m].ok
          /\ r.bad = at[m].bad /\ r.had = at[m].had
      BY <3>2, <1>2 DEF MinterStates, Trying
    <3> HIDE DEF r
    <3>4. r.pc \notin Between
      BY <3>3 DEF Between
    <3> QED BY <1>1, <2>2, <3>1, <3>3, <3>4, ItemGoesOn
  <2> QED BY <2>3, <2>4
<1>5. CASE LinkItem(m)
  <2> DEFINE r == [at[m] EXCEPT !.linked = TRUE,
                     !.pc = IF at[m].adopt THEN "deliver" ELSE "mint"]
  <2>1. /\ at[m].pc = "link" /\ ~Owing(at[m]) /\ ~Sending(at[m])
        /\ at' = [at EXCEPT ![m] = r]
        /\ item' = [item EXCEPT ![i] = [status |-> "minting", cycle |-> at[m].n]]
        /\ clobbered' = (IF Done(item[i].status) THEN clobbered \cup {i} ELSE clobbered)
        /\ UNCHANGED <<package, nft>>
    BY <1>5 DEF LinkItem, Put, Owing, Sending
  <2>2. /\ r \in MinterStates /\ r.linked = TRUE /\ r.adopt = at[m].adopt
        /\ r.pc = (IF at[m].adopt THEN "deliver" ELSE "mint")
        /\ r.item = i /\ r.mail = at[m].mail /\ r.todo = at[m].todo /\ r.ok = at[m].ok
        /\ r.bad = at[m].bad /\ r.had = at[m].had
    BY <1>2 DEF MinterStates, Trying
  <2> HIDE DEF r
  <2>3. Owing(r) /\ r.pc \notin Between
    BY <2>2 DEF Owing, Between
  <2>4. \A j \in Items : /\ j # i => item'[j] = item[j]
                         /\ item'[i].status = "minting"
    BY <1>2, <2>1 DEF TablesOK
  <2>5. Onward
    BY <1>1, <2>1 DEF Onward
  <2>6. package' = "completed" => \A j \in Items : Done(item'[j].status) \/ j \in clobbered'
    BY <1>2, <2>1, <2>4
  <2>7. ItemsSeenTo(m, r)
    BY <1>1, <1>2, <2>1, <2>2, <2>3, <2>4, <2>6 DEF ItemsSeenTo
  <2> QED BY <1>1, <2>1, <2>2, <2>3, <2>5, <2>7, ItemGoesOn
<1>6. CASE MintNft(m)
  <2>1. /\ at[m].pc = "mint" /\ ~Sending(at[m]) /\ UNCHANGED <<package, item, clobbered>>
        /\ nft' = [nft EXCEPT ![i] = "custody"]
        /\ at' = [at EXCEPT ![m] = [at[m] EXCEPT !.pc = "record"]]
    BY <1>6 DEF MintNft, Goes, Put, Sending, history
  <2>2. nft[i] = "none" /\ ~at[m].adopt
    BY <1>2, <2>1 DEF WorkOK, InMint, PlaceOK
  <2>3. Onward
    BY <1>1, <1>2, <2>1, <2>2 DEF Onward, AtUser, TablesOK
  <2>4. Owing(at[m]) => at[m].linked
    BY <2>1 DEF Owing
  <2>5. \A r : /\ r.pc = "record" /\ r.linked = at[m].linked /\ r.item = i
               => ItemsSeenTo(m, r)
    <3> TAKE r
    <3>1. r.pc = "record" /\ r.linked = at[m].linked => (Owing(at[m]) => Owing(r))
      BY <2>4 DEF Owing
    <3> QED BY <1>1, <1>2, <2>1, <3>1 DEF ItemsSeenTo
  <2> QED BY <2>1, <2>3, <2>5, <1>3
<1>7. CASE MintFails(m)
  <2>1. /\ at[m].pc = "mint" /\ ~Sending(at[m]) /\ UNCHANGED <<package, item, clobbered, nft>>
        /\ at' = [at EXCEPT ![m] = [at[m] EXCEPT !.pc = "catch"]]
    BY <1>7 DEF MintFails, Goes, Put, Sending, history
  <2>2. Onward
    BY <1>1, <2>1 DEF Onward
  <2>3. \A r : r.pc = "catch" /\ r.item = i => ItemsSeenTo(m, r)
    BY <1>1, <1>2, <2>1 DEF ItemsSeenTo, Owing
  <2> QED BY <2>1, <2>2, <2>3, <1>3
<1>8. CASE RecordMint(m)
  <2>1. /\ at[m].pc = "record" /\ ~Sending(at[m])
        /\ UNCHANGED <<package, item, clobbered, nft>>
        /\ at' = [at EXCEPT ![m] =
                    [at[m] EXCEPT !.pc = IF at[m].linked THEN "complete" ELSE "deliver"]]
    BY <1>8 DEF RecordMint, Goes, Put, Sending, history
  <2>2. Onward
    BY <1>1, <2>1 DEF Onward
  <2>3. CASE at[m].linked
    <3>1. \A r : r.pc = "complete" /\ r.linked = at[m].linked => Owing(r)
      BY <2>3 DEF Owing
    <3>2. \A r : r.pc = "complete" /\ r.linked = at[m].linked /\ r.item = i =>
            ItemsSeenTo(m, r)
      BY <1>1, <1>2, <2>1, <3>1 DEF ItemsSeenTo
    <3> QED BY <2>1, <2>2, <2>3, <3>2, <1>3
  <2>4. CASE ~at[m].linked
    <3>1. ~Owing(at[m])
      BY <2>1, <2>4 DEF Owing
    <3>2. \A r : ItemsSeenTo(m, r)
      BY <1>1, <1>2, <2>1, <3>1 DEF ItemsSeenTo
    <3> QED BY <2>1, <2>2, <2>4, <3>2, <1>3
  <2> QED BY <2>3, <2>4
<1>9. CASE SaveCompleted(m)
  <2>1. /\ at[m].pc = "completed" /\ ~Sending(at[m]) /\ UNCHANGED <<package, clobbered, nft>>
        /\ at' = [at EXCEPT ![m] = [at[m] EXCEPT !.pc = "close"]]
        /\ item' = [item EXCEPT ![i] = [status |-> "completed", cycle |-> at[m].n]]
    BY <1>9 DEF SaveCompleted, Goes, Put, Sending, history
  <2>2. Onward
    BY <1>1, <2>1 DEF Onward
  <2>3. \A j \in Items : /\ j # i => item'[j] = item[j]
                         /\ item'[i].status = "completed"
    BY <1>2, <2>1 DEF TablesOK
  <2>4. at[m].adopt => AtUser(nft'[i])
    BY <1>2, <2>1 DEF WorkOK, AtUser
  <2>5. \A r : r.pc = "close" /\ r.adopt = at[m].adopt /\ r.item = i =>
          ItemsSeenTo(m, r)
    <3> TAKE r
    <3>1. r.pc = "close" /\ r.adopt = at[m].adopt => AtUser(nft'[i]) \/ Sending(r)
      BY <2>4 DEF Sending
    <3>2. Done("completed")
      BY DEF Done
    <3> QED BY <1>1, <1>2, <2>1, <2>3, <3>1, <3>2 DEF ItemsSeenTo
  <2> QED BY <2>1, <2>2, <2>5, <1>3
<1>10. CASE ClosePackage(m)
  <2>1. /\ at[m].pc = "closing" /\ ~Owing(at[m]) /\ package' = "completed"
        /\ clobbered' = clobbered \cup {j \in Items : ~Done(item[j].status)}
        /\ UNCHANGED <<item, nft>>
    BY <1>10 DEF ClosePackage, Owing
  <2>2. Onward
    BY <1>1, <2>1 DEF Onward
  <2>3. CASE at[m].adopt
    <3>1. at' = [at EXCEPT ![m] = ItemOver(at[m], TRUE)]
      BY <1>10, <2>3, ItemEndsIs DEF ClosePackage, AfterCompleted
    <3>2. AtUser(nft'[i]) /\ ~Sending(at[m])
      BY <1>2, <2>1, <2>3 DEF WorkOK, AtUser, Sending
    <3>3. \A r : ItemsSeenTo(m, r)
      BY <1>1, <1>2, <2>1, <3>2 DEF ItemsSeenTo
    <3> QED BY <1>1, <2>2, <3>1, <3>2, <3>3, ItemLeft
  <2>4. CASE ~at[m].adopt
    <3>1. at' = [at EXCEPT ![m] = [at[m] EXCEPT !.pc = "deliver"]]
      BY <1>10, <2>4 DEF ClosePackage, AfterCompleted, Goes, Put
    <3>2. \A r : r.pc = "deliver" /\ r.adopt = at[m].adopt => Sending(r)
      BY <2>4 DEF Sending
    <3>3. \A r : r.pc = "deliver" /\ r.adopt = at[m].adopt /\ r.item = i =>
            ItemsSeenTo(m, r)
      BY <1>1, <1>2, <2>1, <3>2 DEF ItemsSeenTo
    <3> QED BY <2>2, <3>1, <3>3, <1>3
  <2> QED BY <2>3, <2>4
<1>11. CASE Deliver(m)
  <2> DEFINE sent == at[m].adopt /\ WithUser(i)
  <2>1. /\ at[m].pc = "deliver" /\ UNCHANGED <<package, item, clobbered>>
        /\ nft' = (IF ~sent /\ nft[i] = "custody" THEN [nft EXCEPT ![i] = "user"] ELSE nft)
    BY <1>11 DEF Deliver, history
  <2>2. nft[i] \in {"custody", "user", "sold"}
    BY <1>2, <2>1 DEF WorkOK, Minted, TablesOK
  <2>3. Onward
    BY <1>1, <1>2, <2>1 DEF Onward, AtUser, TablesOK
  <2>4. ~at[m].adopt => AtUser(nft'[i]) /\ ~Owing(at[m])
    BY <1>2, <2>1, <2>2 DEF AtUser, Owing, TablesOK
  <2>5. at[m].adopt => ~Sending(at[m])
    BY DEF Sending
  <2>6. \A r : (at[m].adopt => r.item = i /\ Owing(r)) => ItemsSeenTo(m, r)
    BY <1>1, <1>2, <2>1, <2>4, <2>5 DEF ItemsSeenTo
  <2>7. CASE (sent \/ nft[i] = "custody") /\ at[m].adopt
    <3>1. at' = [at EXCEPT ![m] = [at[m] EXCEPT !.pc = "complete"]]
      BY <1>11, <2>7 DEF Deliver, Goes, Put
    <3>2. \A r : r.pc = "complete" /\ r.adopt = at[m].adopt => Owing(r)
      BY <2>7 DEF Owing
    <3>3. \A r : r.pc = "complete" /\ r.adopt = at[m].adopt /\ r.item = i =>
            ItemsSeenTo(m, r)
      BY <2>6, <3>2
    <3> QED BY <2>3, <3>1, <3>3, <1>3
  <2>8. CASE (sent \/ nft[i] = "custody") /\ ~at[m].adopt
    <3>1. at' = [at EXCEPT ![m] = ItemOver(at[m], TRUE)]
      BY <1>11, <2>8, ItemEndsIs DEF Deliver
    <3>2. ItemsSeenTo(m, ItemOver(at[m], TRUE))
      BY <2>6, <2>8
    <3> QED BY <1>1, <2>3, <2>4, <2>8, <3>1, <3>2, ItemLeft
  <2>9. CASE ~(sent \/ nft[i] = "custody")
    <3>1. at' = [at EXCEPT ![m] = [at[m] EXCEPT !.pc = "catch"]]
      BY <1>11, <2>9 DEF Deliver, Goes, Put
    <3>2. \A r : r.pc = "catch" => Owing(r)
      BY DEF Owing
    <3>3. \A r : r.pc = "catch" /\ r.item = i => ItemsSeenTo(m, r)
      BY <2>6, <3>2
    <3> QED BY <2>3, <3>1, <3>3, <1>3
  <2> QED BY <2>7, <2>8, <2>9
<1>12. CASE ResetItem(m)
  <2>1. /\ at[m].pc = "reset" /\ ~Sending(at[m]) /\ UNCHANGED <<package, nft>>
        /\ item' = [item EXCEPT ![i] = Before(m)]
        /\ clobbered' = (IF Done(item[i].status) THEN clobbered \cup {i} ELSE clobbered)
        /\ at' = [at EXCEPT ![m] = ItemOver(at[m], FALSE)]
    BY <1>12, ItemEndsIs DEF ResetItem, Sending
  <2>2. Onward
    BY <1>1, <2>1 DEF Onward
  <2>3. Before(m).status \in {"reviewing", "approved"}
    BY <1>2 DEF Before, MinterStates
  <2>4. \A j \in Items : /\ j # i => item'[j] = item[j]
                         /\ item'[i].status \in {"reviewing", "approved"}
    BY <1>2, <2>1, <2>3 DEF TablesOK
  <2>5. package' = "completed" => \A j \in Items : Done(item'[j].status) \/ j \in clobbered'
    BY <1>2, <2>1, <2>4
  <2>6. \A r : ItemsSeenTo(m, r)
    BY <1>1, <1>2, <2>1, <2>4, <2>5 DEF ItemsSeenTo
  <2> QED BY <1>1, <2>1, <2>2, <2>6, ItemLeft
<1> QED BY <1>4, <1>5, <1>6, <1>7, <1>8, <1>9, <1>10, <1>11, <1>12

\* A call without an item in hand owes nothing; it moves on through a review.
LEMMA ReviewGoesOn ==
  ASSUME QueueBase, QueueMore, NEW m \in Minters, NEW r \in MinterStates,
         at' = [at EXCEPT ![m] = r], at[m].pc \in Between,
         UNCHANGED <<package, item, cycle, nft, named, stranded, cut, clobbered>>,
         ReviewsOK', RunOK(r, named[r.mail]),
         \A i \in r.ok \cup r.had.ok : AtUser(nft[i])
  PROVE  QueueMore'
<1>1. ~Owing(at[m]) /\ ~Sending(at[m])
  <2>1. at[m].pc \notin {"catch", "reset", "mint", "record", "complete", "completed",
                         "close", "closing", "deliver"}
    BY DEF Between
  <2> QED BY <2>1 DEF Owing, Sending
<1>2. Onward /\ ItemsSeenTo(m, r)
  BY <1>1 DEF Onward, ItemsSeenTo, QueueMore, CompletedItemsDelivered
<1>3. MailSeenTo(r)
  BY DEF MailSeenTo
<1> QED BY <1>2, <1>3, MoreMoves

LEMMA IdleSeenTo ==
  RunOK(Idle, named[Idle.mail]) /\ \A i \in Idle.ok \cup Idle.had.ok : AtUser(nft[i])
BY IdleCall, QueueAssumption DEF RunOK

LEMMA BegunSeenTo ==
  ASSUME NEW v \in Mails, named[v] # {}, NEW p \in {"match", "label"}
  PROVE  /\ RunOK(Begun(v, p), named[Begun(v, p).mail])
         /\ \A i \in Begun(v, p).ok \cup Begun(v, p).had.ok : AtUser(nft[i])
<1> DEFINE r == Begun(v, p)
<1>1. r.pc = p /\ r.mail = v /\ r.ok = {} /\ r.had.ok = {}
  BY StartsRecord
<1> HIDE DEF r
<1>2. RunOK(r, named[r.mail]) /\ \A i \in r.ok \cup r.had.ok : AtUser(nft[i])
  BY <1>1 DEF RunOK
<1> QED BY <1>2 DEF r

LEMMA RunOverSeenTo ==
  ASSUME NEW m \in Minters, at[m].mail \in Mails, named[at[m].mail] # {}
  PROVE  /\ RunOK(RunOver(m), named[RunOver(m).mail])
         /\ \A i \in RunOver(m).ok \cup RunOver(m).had.ok : AtUser(nft[i])
<1>1. CASE m = Poll
  <2>1. RunOver(m) = Begun(at[m].mail, "label")
    <3>1. [Idle EXCEPT !.pc = "label", !.mail = at[m].mail]
            = [Idle EXCEPT !.mail = at[m].mail, !.pc = "label"]
      BY DEF Idle
    <3> QED BY <3>1, <1>1 DEF RunOver, Begun
  <2> QED BY <2>1, BegunSeenTo
<1>2. CASE m # Poll
  BY <1>2, IdleSeenTo DEF RunOver
<1> QED BY <1>1, <1>2

LEMMA RunsReviewMore ==
  ASSUME QueueBase, QueueMore, NEW m \in Minters, RunsReview(m)
  PROVE  QueueMore'
<1> DEFINE v == at[m].mail
<1>1. /\ at[m] \in MinterStates /\ PlaceOK(at[m]) /\ TablesOK
      /\ RunOK(at[m], named[v]) /\ ReviewsOK
      /\ \A i \in at[m].ok \cup at[m].had.ok : AtUser(nft[i])
  BY CallFacts, QueueTypesSplit DEF QueueBase, QueueMore, RunsOK, Delivered, AtUser
<1>2. /\ at[m].pc \in {"match", "next", "outcome", "save"} /\ at[m].pc \in Between
      /\ UNCHANGED <<package, item, cycle, nft, named, stranded, cut, clobbered>>
  BY DEF RunsReview, MatchItems, NextItem, ReadReview, SaveOutcome, Between, rows, mails,
         history
<1>3. v \in Mails /\ at[m].item = NoItem /\ named[v] # {} /\ named[v] \subseteq Items
  BY <1>1, <1>2 DEF PlaceOK, Between, RunOK, TablesOK
<1>4. at[m].ok \in SUBSET Items /\ at[m].bad \in SUBSET Items
      /\ at[m].had.ok \in SUBSET Items /\ at[m].had.bad \in SUBSET Items
  BY <1>1 DEF MinterStates
<1>5. review' = review => ReviewsOK'
  BY <1>1, <1>2 DEF ReviewsOK, Delivered
<1>6. CASE MatchItems(m)
  <2> DEFINE queue == {i \in named[v] : Mintable(i)}
             r1 == [at[m] EXCEPT !.pc = "outcome", !.bad = named[v]]
             r2 == [at[m] EXCEPT !.pc = "next", !.todo = queue,
                                 !.bad = Unmatched(v, queue)]
  <2>1. \E r \in {RunOver(m), r1, r2} : at' = [at EXCEPT ![m] = r]
    BY <1>6 DEF MatchItems, RunEnds, Put, RunOver
  <2>2. review' = review
    BY <1>6 DEF MatchItems, mails
  <2>3. /\ RunOver(m) \in MinterStates /\ RunOK(RunOver(m), named[RunOver(m).mail])
        /\ \A i \in RunOver(m).ok \cup RunOver(m).had.ok : AtUser(nft[i])
    BY <1>1, <1>3, RunOverOK, RunOverSeenTo
  <2>4. /\ r1 \in MinterStates /\ RunOK(r1, named[r1.mail])
        /\ \A i \in r1.ok \cup r1.had.ok : AtUser(nft[i])
    <3>1. /\ r1 \in MinterStates /\ r1.pc = "outcome" /\ r1.mail = v
          /\ r1.bad = named[v] /\ r1.ok = at[m].ok /\ r1.had = at[m].had
      BY <1>1, <1>3 DEF MinterStates
    <3> HIDE DEF r1
    <3> QED BY <3>1, <1>1, <1>3 DEF RunOK
  <2>5. /\ r2 \in MinterStates /\ RunOK(r2, named[r2.mail])
        /\ \A i \in r2.ok \cup r2.had.ok : AtUser(nft[i])
    <3>0. /\ queue \in SUBSET Items /\ Unmatched(v, queue) \in SUBSET Items
          /\ named[v] \subseteq queue \cup Unmatched(v, queue)
      BY <1>3 DEF Unmatched
    <3> HIDE DEF queue
    <3>1. /\ r2 \in MinterStates /\ r2.pc = "next" /\ r2.mail = v /\ r2.todo = queue
          /\ r2.bad = Unmatched(v, queue) /\ r2.ok = at[m].ok /\ r2.had = at[m].had
      BY <3>0, <1>1 DEF MinterStates
    <3> HIDE DEF r2
    <3> QED BY <3>0, <3>1, <1>1, <1>3 DEF RunOK
  <2>6. PICK r \in {RunOver(m), r1, r2} : at' = [at EXCEPT ![m] = r]
    BY <2>1
  <2> HIDE DEF r1, r2
  <2>7. /\ r \in MinterStates /\ RunOK(r, named[r.mail])
        /\ \A i \in r.ok \cup r.had.ok : AtUser(nft[i])
    BY <2>3, <2>4, <2>5
  <2> QED BY <2>2, <2>6, <2>7, <1>2, <1>5, ReviewGoesOn
<1>7. CASE NextItem(m)
  <2>1. review' = review /\ at[m].pc = "next"
    BY <1>7 DEF NextItem, mails
  <2>2. named[v] \subseteq at[m].todo \cup at[m].ok \cup at[m].bad
    BY <1>1, <1>3, <2>1, QueueAssumption DEF RunOK
  <2>3. CASE at[m].todo = {}
    <3> DEFINE r == [at[m] EXCEPT !.pc = "outcome"]
    <3>1. at' = [at EXCEPT ![m] = r]
      BY <1>7, <2>3 DEF NextItem, Goes, Put
    <3>2. /\ r \in MinterStates /\ r.pc = "outcome" /\ r.mail = v
          /\ r.bad = at[m].bad /\ r.ok = at[m].ok /\ r.had = at[m].had
      BY <1>1 DEF MinterStates
    <3> HIDE DEF r
    <3>3. RunOK(r, named[r.mail])
      BY <3>2, <2>2, <2>3, <1>3 DEF RunOK
    <3> QED BY <3>1, <3>2, <3>3, <2>1, <1>1, <1>2, <1>5, ReviewGoesOn
  <2>4. CASE at[m].todo # {}
    <3>1. PICK i \in at[m].todo :
            at' = [at EXCEPT ![m] = [at[m] EXCEPT !.pc = "start", !.item = i,
                                                  !.todo = @ \ {i}]]
      BY <1>7, <2>4 DEF NextItem, Put
    <3> DEFINE r == [at[m] EXCEPT !.pc = "start", !.item = i, !.todo = @ \ {i}]
    <3>2. /\ r \in MinterStates /\ r.item = i /\ r.pc = "start" /\ r.mail = v
          /\ r.todo = at[m].todo \ {i} /\ r.bad = at[m].bad /\ r.ok = at[m].ok
          /\ r.had = at[m].had
      BY <1>1 DEF MinterStates
    <3>3. at' = [at EXCEPT ![m] = r]
      BY <3>1
    <3> HIDE DEF r
    <3>4. RunOK(r, named[r.mail])
      BY <3>2, <2>2, <1>3 DEF RunOK
    <3> QED BY <3>2, <3>3, <3>4, <2>1, <1>1, <1>2, <1>5, ReviewGoesOn
  <2> QED BY <2>3, <2>4
<1>8. CASE ReadReview(m)
  <2> DEFINE had == [ok |-> review[v].ok, bad |-> review[v].bad]
             r == [at[m] EXCEPT !.pc = "save", !.had = had]
  <2>1. review' = review /\ at[m].pc = "outcome" /\ at' = [at EXCEPT ![m] = r]
    BY <1>8 DEF ReadReview, mails, Put
  <2>2. /\ had \in [ok : SUBSET Items, bad : SUBSET Items] /\ had.ok = review[v].ok
        /\ \A i \in had.ok : AtUser(nft[i])
    BY <1>1, <1>3 DEF TablesOK, ReviewsOK, Delivered, AtUser
  <2> HIDE DEF had
  <2>3. /\ r \in MinterStates /\ r.pc = "save" /\ r.mail = v
        /\ r.bad = at[m].bad /\ r.ok = at[m].ok /\ r.had = had
    BY <1>1, <2>2 DEF MinterStates
  <2> HIDE DEF r
  <2>4. RunOK(r, named[r.mail])
    BY <2>1, <2>3, <1>1, <1>3 DEF RunOK
  <2>5. \A i \in r.ok \cup r.had.ok : AtUser(nft[i])
    BY <2>2, <2>3, <1>1
  <2> QED BY <2>1, <2>3, <2>4, <2>5, <1>2, <1>5, ReviewGoesOn
<1>9. CASE SaveOutcome(m)
  <2> DEFINE ok == at[m].had.ok \cup at[m].ok
             bad == (at[m].had.bad \ at[m].ok) \cup (at[m].bad \ at[m].had.ok)
             new == [status |-> IF ok # {} THEN "minted" ELSE "failed",
                     ok |-> ok, bad |-> bad]
  <2>1. /\ review' = [review EXCEPT ![v] = new] /\ at[m].pc = "save"
        /\ at' = [at EXCEPT ![m] = RunOver(m)]
    BY <1>9 DEF SaveOutcome, RunEnds, Put, RunOver
  <2>2. named[v] \subseteq at[m].ok \cup at[m].bad
    BY <1>1, <2>1 DEF RunOK
  <2>3. named[v] \subseteq ok \cup bad
    BY <2>2
  <2>4. \A i \in ok : AtUser(nft[i])
    BY <1>1
  <2>5. new.ok = ok /\ new.bad = bad
    OBVIOUS
  <2>6. \A w \in Mails : review'[w] = IF w = v THEN new ELSE review[w]
    BY <1>1, <1>3, <2>1 DEF TablesOK
  <2> HIDE DEF new, ok, bad
  <2>7. ReviewsOK'
    <3> SUFFICES ASSUME NEW w \in Mails
                 PROVE  /\ review'[w].status # "none" => named[w] # {}
                        /\ review'[w].status = "minted" =>
                             named[w] \subseteq review'[w].ok \cup review'[w].bad
                        /\ \A i \in review'[w].ok : AtUser(nft[i])
      BY <1>2 DEF ReviewsOK, Delivered, AtUser
    <3>1. CASE w = v
      BY <3>1, <2>3, <2>4, <2>5, <2>6, <1>3
    <3>2. CASE w # v
      BY <3>2, <2>6, <1>1 DEF ReviewsOK, Delivered, AtUser
    <3> QED BY <3>1, <3>2
  <2>8. /\ RunOver(m) \in MinterStates /\ RunOK(RunOver(m), named[RunOver(m).mail])
        /\ \A i \in RunOver(m).ok \cup RunOver(m).had.ok : AtUser(nft[i])
    BY <1>1, <1>3, RunOverOK, RunOverSeenTo
  <2> QED BY <2>1, <2>7, <2>8, <1>2, ReviewGoesOn
<1> QED BY <1>6, <1>7, <1>8, <1>9 DEF RunsReview

\* Calls that start, and the label of a mail.
LEMMA StartsMore ==
  ASSUME QueueBase, QueueMore,
         \/ Label
         \/ \E v \in Mails : PollMail(v) \/ \E a \in Admins : AdminMintReview(a, v)
         \/ \E a \in Admins, i \in Items : AdminMintItem(a, i)
  PROVE  QueueMore'
<1>1. /\ TablesOK /\ ReviewsOK /\ Poll \in Minters /\ Admins \subseteq Minters
  BY QueueTypesSplit DEF QueueBase, QueueMore, Minters
<1>2. ASSUME UNCHANGED <<named, nft, review>> PROVE ReviewsOK'
  BY <1>1, <1>2 DEF ReviewsOK, Delivered
<1>3. CASE Label
  <2>1. /\ at' = [at EXCEPT ![Poll] = Idle] /\ at[Poll].pc \in Between
        /\ UNCHANGED <<package, item, cycle, nft, named, clobbered, stranded, cut, review>>
    BY <1>3 DEF Label, Put, rows, history, Between
  <2>2. ReviewsOK'
    BY <2>1, <1>2
  <2> QED BY <2>1, <2>2, <1>1, IdleCall, IdleSeenTo, ReviewGoesOn
<1>4. ASSUME NEW v \in Mails, PollMail(v) PROVE QueueMore'
  <2>1. PICK p \in {"match", "label"} : at' = [at EXCEPT ![Poll] = Begun(v, p)]
    <3>1. at' = [at EXCEPT ![Poll] = [Idle EXCEPT !.mail = v,
            !.pc = IF review'[v].status = "pending" THEN "match" ELSE "label"]]
      BY <1>4 DEF PollMail, Put
    <3> QED BY <3>1 DEF Begun
  <2>2. /\ UNCHANGED <<package, item, cycle, nft, named, clobbered, stranded, cut>>
        /\ at[Poll].pc \in Between /\ named[v] # {}
    BY <1>4 DEF PollMail, rows, history, Between
  <2>3. review' = [review EXCEPT ![v].status = IF @ = "none" THEN "pending" ELSE @]
    BY <1>4 DEF PollMail
  <2>4. \A w \in Mails :
          /\ review'[w].ok = review[w].ok /\ review'[w].bad = review[w].bad
          /\ review'[w].status = review[w].status
             \/ (w = v /\ review'[w].status = "pending")
    BY <2>3, <1>1 DEF TablesOK
  <2>5. ReviewsOK'
    BY <2>2, <2>4, <1>1 DEF ReviewsOK, Delivered
  <2>6. /\ Begun(v, p) \in MinterStates
        /\ RunOK(Begun(v, p), named[Begun(v, p).mail])
        /\ \A i \in Begun(v, p).ok \cup Begun(v, p).had.ok : AtUser(nft[i])
    BY <2>1, <2>2, StartsRecord, BegunSeenTo
  <2> DEFINE r == Begun(v, p)
  <2>7. /\ r \in MinterStates /\ RunOK(r, named[r.mail])
        /\ \A i \in r.ok \cup r.had.ok : AtUser(nft[i])
        /\ at' = [at EXCEPT ![Poll] = r]
    BY <2>1, <2>6
  <2> HIDE DEF r
  <2> QED BY <2>2, <2>5, <2>7, <1>1, ReviewGoesOn
<1>5. ASSUME NEW v \in Mails, NEW a \in Admins, AdminMintReview(a, v) PROVE QueueMore'
  <2>1. /\ UNCHANGED <<package, item, cycle, nft, named, clobbered, stranded, cut, review>>
        /\ at[a].pc \in Between /\ review[v].status # "none" /\ a \in Minters
        /\ at' = [at EXCEPT ![a] = [Idle EXCEPT !.mail = v, !.pc = "match"]]
    BY <1>5, <1>1 DEF AdminMintReview, Put, rows, mails, history, Between
  <2>2. named[v] # {}
    BY <2>1, <1>1 DEF ReviewsOK
  <2>3. ReviewsOK'
    BY <2>1, <1>2
  <2> DEFINE r == Begun(v, "match")
  <2>4. /\ r \in MinterStates /\ RunOK(r, named[r.mail])
        /\ \A i \in r.ok \cup r.had.ok : AtUser(nft[i])
        /\ at' = [at EXCEPT ![a] = r]
    <3>1. Begun(v, "match") \in MinterStates
      BY StartsRecord
    <3>2. at' = [at EXCEPT ![a] = r]
      BY <2>1 DEF Begun
    <3> QED BY <3>1, <3>2, <2>2, BegunSeenTo
  <2> HIDE DEF r
  <2> QED BY <2>1, <2>3, <2>4, ReviewGoesOn
<1>6. ASSUME NEW a \in Admins, NEW i \in Items, AdminMintItem(a, i) PROVE QueueMore'
  <2> DEFINE r == [Idle EXCEPT !.pc = "start", !.item = i]
  <2>1. /\ UNCHANGED <<package, item, cycle, nft, named, clobbered, stranded, cut, review>>
        /\ at[a].pc \in Between /\ a \in Minters /\ at' = [at EXCEPT ![a] = r]
    BY <1>6, <1>1 DEF AdminMintItem, Put, rows, mails, history, Between
  <2>2. r.pc = "start" /\ r.mail = NoItem /\ r.ok = {} /\ r.had.ok = {}
    BY DEF Idle
  <2>3. r \in MinterStates
    BY IdleCall DEF MinterStates
  <2>4. ReviewsOK'
    BY <2>1, <1>2
  <2> HIDE DEF r
  <2>5. RunOK(r, named[r.mail]) /\ \A j \in r.ok \cup r.had.ok : AtUser(nft[j])
    BY <2>2, QueueAssumption DEF RunOK
  <2> QED BY <2>1, <2>3, <2>4, <2>5, ReviewGoesOn
<1> QED BY <1>3, <1>4, <1>5, <1>6

\* Writes of others: the calls stay where they are.
LEMMA MoreStays ==
  ASSUME QueueBase, QueueMore, at' = at, Onward,
         \A j \in Items : item'[j].status \in {"minting", "completed"} =>
                            item'[j].status = item[j].status,
         package' = "completed" => \A j \in Items : Done(item'[j].status) \/ j \in clobbered',
         \A m \in Minters : RunOK(at[m], named'[at[m].mail]),
         ReviewsOK'
  PROVE  QueueMore'
<1>1. MintingOwed'
  BY DEF QueueMore, MintingOwed, Onward
<1>2. CompletedItemsDelivered'
  BY DEF QueueMore, CompletedItemsDelivered, Onward, Delivered, AtUser, Delivering
<1>3. RunsOK'
  <2>1. \A x \in Minters : at[x].ok \subseteq Items /\ at[x].had.ok \subseteq Items
    BY DEF QueueBase, QueueTypeOK, MinterStates
  <2>2. \A x \in Minters : \A i \in at[x].ok \cup at[x].had.ok : AtUser(nft[i])
    BY DEF QueueMore, RunsOK, Delivered, AtUser
  <2> QED BY <2>1, <2>2 DEF RunsOK, Onward, Delivered, AtUser
<1> QED BY <1>1, <1>2, <1>3 DEF QueueMore

LEMMA OthersMore ==
  ASSUME QueueBase, QueueMore,
         \/ \E v \in Mails : Dismiss(v) \/ \E S \in (SUBSET Items) \ {{}} : SendMail(v, S)
         \/ \E i \in Items : Judge(i, "approved") \/ Judge(i, "rejected")
         \/ \E i \in Items : SellNft(i) \/ Recover(i)
  PROVE  QueueMore'
<1>1. /\ TablesOK /\ ReviewsOK
      /\ \A m \in Minters : RunOK(at[m], named[at[m].mail])
      /\ package = "completed" => \A j \in Items : Done(item[j].status) \/ j \in clobbered
      /\ \A m \in Minters : at[m] \in MinterStates /\ PlaceOK(at[m])
  BY QueueTypesSplit, CallFacts DEF QueueBase, QueueMore, RunsOK, CompletedItemsDelivered
<1>2. ASSUME NEW v \in Mails, NEW S \in (SUBSET Items) \ {{}}, SendMail(v, S)
      PROVE  QueueMore'
  <2>1. /\ UNCHANGED <<package, item, cycle, nft, labelled, review, at, stranded, cut,
                    clobbered, mishaps, runs>>
        /\ named[v] = {} /\ named' = [named EXCEPT ![v] = S]
    BY <1>2 DEF SendMail, rows, history
  <2>5. /\ \A w \in Mails : w # v => named'[w] = named[w]
        /\ named'[v] = S /\ S # {}
    BY <1>1, <1>2, <2>1 DEF TablesOK
  <2>2. Onward
    BY <2>1 DEF Onward
  <2>3. ReviewsOK'
    BY <2>1, <2>5, <1>1 DEF ReviewsOK, Delivered
  <2>4. \A m \in Minters : RunOK(at[m], named'[at[m].mail])
    <3> TAKE m \in Minters
    <3>1. CASE at[m].mail \in Mails
      <4>1. at[m].mail # v
        BY <3>1, <1>1, <2>1 DEF RunOK
      <4> QED BY <4>1, <3>1, <1>1, <2>5
    <3>2. CASE at[m].mail \notin Mails
      <4>1. at[m].pc \notin {"outcome", "save"}
        BY <3>2, <1>1 DEF PlaceOK, Between
      <4> QED BY <4>1, <3>2 DEF RunOK
    <3> QED BY <3>1, <3>2
  <2> QED BY <2>1, <2>2, <2>3, <2>4, <1>1, MoreStays
<1>3. ASSUME NEW v \in Mails, Dismiss(v) PROVE QueueMore'
  <2>1. /\ UNCHANGED <<package, item, cycle, nft, labelled, named, at, stranded, cut,
                    clobbered, mishaps, runs>>
        /\ review[v].status \in {"pending", "failed"}
        /\ review' = [review EXCEPT ![v].status = "dismissed"]
    BY <1>3 DEF Dismiss, rows, history
  <2>2. Onward
    BY <2>1 DEF Onward
  <2>3. \A w \in Mails :
          /\ review'[w].ok = review[w].ok
          /\ \/ review'[w].status = review[w].status /\ review'[w].bad = review[w].bad
             \/ w = v /\ review'[w].status = "dismissed" /\ review[w].status # "none"
    BY <2>1, <1>1 DEF TablesOK
  <2>4. ReviewsOK'
    BY <2>1, <2>3, <1>1 DEF ReviewsOK, Delivered
  <2> QED BY <2>1, <2>2, <2>4, <1>1, MoreStays
<1>4. ASSUME NEW i \in Items, NEW s \in {"approved", "rejected"}, Judge(i, s)
      PROVE  QueueMore'
  <2> DEFINE its == [item EXCEPT ![i].status = s]
  <2>1. /\ item' = its
        /\ package' = (IF AllDone(its) THEN "completed" ELSE package)
        /\ item[i].status \in {"reviewing", "approved"}
        /\ UNCHANGED <<cycle, nft, named, labelled, review, at, stranded, cut,
                       clobbered, mishaps>>
    BY <1>4 DEF Judge, mails, history
  <2>2. \A j \in Items : item'[j].status = IF j = i THEN s ELSE item[j].status
    BY <1>1, <2>1 DEF TablesOK
  <2>3. Onward
    BY <2>1 DEF Onward
  <2>4. ReviewsOK'
    BY <2>1, <1>1 DEF ReviewsOK, Delivered
  <2>5. AllDone(its) <=> \A j \in Items : Done(item'[j].status)
    BY <2>1 DEF AllDone
  <2> HIDE DEF its
  <2>6. package' = "completed" => \A j \in Items : Done(item'[j].status) \/ j \in clobbered'
    <3>1. ~Done(item[i].status)
      BY <2>1 DEF Done
    <3> QED BY <3>1, <2>1, <2>2, <2>5, <1>1
  <2> QED BY <2>1, <2>2, <2>3, <2>4, <2>6, <1>1, MoreStays
<1>5. ASSUME NEW i \in Items, SellNft(i) \/ Recover(i) PROVE QueueMore'
  <2>1. /\ UNCHANGED <<package, item, named, labelled, review, at, stranded,
                       cut, clobbered, mishaps, runs>>
        /\ \A j \in Items : nft'[j] = nft[j] \/ nft'[j] = "sold"
    BY <1>1, <1>5 DEF SellNft, Recover, mails, history, TablesOK
  <2>2. Onward
    BY <2>1 DEF Onward, AtUser
  <2>3. ReviewsOK'
    BY <2>1, <2>2, ReviewsStay
  <2> QED BY <2>1, <2>2, <2>3, <1>1, MoreStays
<1> QED BY <1>2, <1>3, <1>4, <1>5

\* A call that throws keeps what it owes, or is noted as cut off.
LEMMA CallFailsMore ==
  ASSUME QueueBase, QueueMore, NEW m \in Minters, CallFails(m)
  PROVE  QueueMore'
<1> DEFINE i == at[m].item
<1>1. /\ at[m].pc \notin {"idle", "next", "mint"}
      /\ nft' \in SentAfterAll(m)
      /\ stranded' = (IF Delivering(m) /\ nft'[i] = "custody" THEN stranded \cup {i}
                                                             ELSE stranded)
      /\ UNCHANGED <<package, item, cycle, named, labelled, review, clobbered, runs>>
  BY DEF CallFails, mails
<1>2. at[m] \in MinterStates /\ PlaceOK(at[m]) /\ TablesOK /\ ReviewsOK
  BY CallFacts, QueueTypesSplit DEF QueueBase, QueueMore
<1>3. CASE i = NoItem
  <2>1. at' = [at EXCEPT ![m] = Idle] /\ cut' = cut /\ at[m].pc \in Between
    BY <1>3, <1>1, <1>2 DEF CallFails, Put, PlaceOK, Between, Trying
  <2>2. nft' = nft /\ stranded' = stranded
    BY <1>1, <1>2, <1>3 DEF SentAfterAll, PlaceOK, Between, Delivering
  <2>3. ReviewsOK'
    BY <1>1, <1>2, <2>2 DEF ReviewsOK, Delivered
  <2> HIDE DEF i
  <2> QED BY <2>1, <2>2, <2>3, <1>1, IdleCall, IdleSeenTo, ReviewGoesOn
<1>4. CASE i # NoItem
  <2>1. at[m].pc \notin Between
    BY <1>2, <1>4 DEF PlaceOK
  <2>2. /\ i \in Items /\ WorkOK(at[m], item[i], cycle[i], nft[i])
        /\ package = "completed" => \A j \in Items : Done(item[j].status) \/ j \in clobbered
    BY <2>1, InHand
  <2>3. /\ \A j \in Items : nft'[j] = nft[j] \/ (nft[j] = "custody" /\ nft'[j] = "user")
        /\ nft'[i] \in {"none", "custody", "user", "sold"}
    BY <1>1, <1>2, <2>2 DEF SentAfterAll, TablesOK
  <2>4. Onward
    <3>1. cut \subseteq cut'
      BY DEF CallFails
    <3> QED BY <3>1, <1>1, <2>3 DEF Onward, AtUser
  <2>5. Sending(at[m]) => i \in stranded' \/ AtUser(nft'[i])
    <3> SUFFICES ASSUME Sending(at[m]) PROVE i \in stranded' \/ AtUser(nft'[i])
      OBVIOUS
    <3>1. Delivering(m) /\ nft[i] # "none"
      BY <2>2 DEF Sending, Delivering, WorkOK, Minted
    <3>2. nft'[i] # "none"
      BY <3>1, <2>2, <2>3
    <3> QED BY <1>1, <2>3, <3>1, <3>2 DEF AtUser
  <2>6. CASE at[m].pc \in Trying
    <3> DEFINE r == [at[m] EXCEPT !.pc = "catch"]
    <3>1. at' = [at EXCEPT ![m] = r] /\ cut' = cut
      BY <2>6 DEF CallFails, Goes, Put
    <3>2. /\ r \in MinterStates /\ r.pc = "catch" /\ r.item = i
          /\ r.mail = at[m].mail /\ r.todo = at[m].todo /\ r.ok = at[m].ok
          /\ r.bad = at[m].bad /\ r.had = at[m].had
      BY <1>2, GoesTo
    <3> HIDE DEF r
    <3>3. Owing(r) /\ r.pc \notin Between
      BY <3>2 DEF Owing, Between
    <3>4. ItemsSeenTo(m, r)
      BY <1>1, <2>2, <2>5, <3>2, <3>3 DEF ItemsSeenTo
    <3> QED BY <3>1, <3>2, <3>3, <3>4, <1>1, <2>1, <2>4, ItemGoesOn
  <2>7. CASE at[m].pc \notin Trying
    <3>1. /\ at' = [at EXCEPT ![m] = ItemOver(at[m], FALSE)]
          /\ cut' = (IF Responsible(m) THEN cut \cup {i} ELSE cut)
      BY <1>4, <2>7, ItemEndsIs DEF CallFails
    <3>2. Owing(at[m]) => Responsible(m)
      BY <1>4 DEF Owing, Responsible
    <3>3. ItemsSeenTo(m, ItemOver(at[m], FALSE))
      BY <1>1, <2>2, <2>5, <3>1, <3>2 DEF ItemsSeenTo
    <3> QED BY <3>1, <3>3, <1>1, <2>1, <2>4, ItemLeft
  <2> QED BY <2>6, <2>7
<1> QED BY <1>3, <1>4

\* A restart notes what each call in flight still owed.
LEMMA QueueRestartMore ==
  ASSUME QueueBase, QueueMore, QueueRestart
  PROVE  QueueMore'
<1>1. /\ stranded' = stranded \cup {at[m].item : m \in {x \in Minters : Delivering(x)}}
      /\ cut' = cut \cup {at[m].item : m \in {x \in Minters : Responsible(x)}}
      /\ at' = [m \in Minters |-> Idle]
      /\ UNCHANGED <<package, item, cycle, nft, named, labelled, review, clobbered, runs>>
  BY DEF QueueRestart, rows, mails
<1>2. \A m \in Minters : PlaceOK(at[m])
  BY CallFacts
<1>3. \A m \in Minters : Owing(at[m]) => Responsible(m)
  BY <1>2 DEF Owing, Responsible, PlaceOK, Between
<1>4. MintingOwed'
  BY <1>1, <1>3 DEF QueueMore, MintingOwed
<1>5. CompletedItemsDelivered'
  BY <1>1 DEF QueueMore, CompletedItemsDelivered, Delivered
<1>6. \A m \in Minters : at'[m] = Idle
  BY <1>1
<1>7. RunsOK'
  BY <1>1, <1>6, IdleCall, IdleSeenTo DEF RunsOK
<1>8. ReviewsOK'
  BY <1>1 DEF QueueMore, ReviewsOK, Delivered
<1> QED BY <1>4, <1>5, <1>7, <1>8 DEF QueueMore

LEMMA QueueMoreInit == QueueInit => QueueMore
<1> SUFFICES ASSUME QueueInit PROVE QueueMore
  OBVIOUS
<1>1. MintingOwed /\ CompletedItemsDelivered
  BY DEF QueueInit, MintingOwed, CompletedItemsDelivered
<1>2. \A m \in Minters : at[m] = Idle
  BY DEF QueueInit
<1>3. RunsOK
  BY <1>2, IdleCall, IdleSeenTo DEF RunsOK
<1>4. ReviewsOK
  BY DEF QueueInit, ReviewsOK, NoReview
<1> QED BY <1>1, <1>3, <1>4 DEF QueueMore

LEMMA MintsItemMore ==
  ASSUME QueueBase, QueueMore, NEW m \in Minters, MintsItem(m)
  PROVE  QueueMore'
BY ReadsRowsMore, WritesMore DEF MintsItem, ReadsRows

LEMMA QueueMoreStep == QueueBase /\ QueueMore /\ [QueueNext]_queueVars => QueueMore'
<1> SUFFICES ASSUME QueueBase, QueueMore, [QueueNext]_queueVars PROVE QueueMore'
  OBVIOUS
<1>1. CASE QueueNext
  BY <1>1, RunsReviewMore, MintsItemMore, StartsMore, OthersMore, CallFailsMore,
     QueueRestartMore DEF QueueNext
<1>2. CASE UNCHANGED queueVars
  BY <1>2 DEF queueVars, rows, mails, history, QueueMore, MintingOwed,
     CompletedItemsDelivered, RunsOK, ReviewsOK, Delivered, Delivering
<1> QED BY <1>1, <1>2

LEMMA QueueInvariance == QueueSpec => [](QueueBase /\ QueueMore)
BY QueueBaseInit, QueueBaseStep, QueueMoreInit, QueueMoreStep, PTL DEF QueueSpec

\* markItemCompletedForCycle saves "completed" before the token is sent: whoever
\* fails, restarts or crosses another in between, the token of a completed item has
\* reached its depositor, is about to be sent, or is known to be stranded.
THEOREM CompletedItemsAreDelivered == QueueSpec => []CompletedItemsDelivered
<1>1. QueueBase /\ QueueMore => CompletedItemsDelivered
  BY DEF QueueMore
<1> QED BY <1>1, QueueInvariance, PTL

\* No path of mintAndDeliverItem, its catch included, leaves an item in "minting"
\* behind, unless the call was stopped before its catch was through.
THEOREM MintingItemsHaveTheirMinter == QueueSpec => []MintingItemsHaveMinter
<1>1. QueueBase /\ QueueMore => MintingItemsHaveMinter
  <2> SUFFICES ASSUME QueueBase, QueueMore PROVE MintingItemsHaveMinter
    OBVIOUS
  <2>1. \A m \in Minters : Owing(at[m]) => Responsible(m)
    BY CallFacts DEF Owing, Responsible, PlaceOK, Between
  <2> QED BY <2>1 DEF QueueMore, MintingOwed, MintingItemsHaveMinter
<1> QED BY <1>1, QueueInvariance, PTL

\* However the results of runs of the same review are merged, a review without an
\* error accounts for every cert of its mail, by a token that is with its depositor.
THEOREM MintedReviewsAreDelivered == QueueSpec => []MintedReviewsDelivered
<1>1. QueueBase /\ QueueMore => MintedReviewsDelivered
  BY DEF QueueMore, ReviewsOK, MintedReviewsDelivered
<1> QED BY <1>1, QueueInvariance, PTL
-----------------------------------------------------------------------------
ParcelRows == [st : {"none", "awaiting_shipment", "in_transit", "psa_reviewing",
                     "completed", "cancelled"},
               paper : {"none", "slip", "tracking"}]

SlabItems == [st : {"none", "confirmed", "in_transit", "reviewing", "rejected",
                    "minting", "completed"}, cyc : 0..MaxPaths]

CallerStates ==
  [pc : {"idle", "save", "items", "judge", "sync", "create", "cycles", "auto",
         "label", "apply", "next", "confirm", "dismiss", "reserve", "attach",
         "link", "linked", "mint", "find", "complete", "completed", "clear",
         "cancel"},
   op : {"none", "slip", "cancel", "track", "arrive", "move", "complete"},
   then : {"idle", "next", "mint", "clear"}, p : Packages \cup {0},
   row : ParcelRows, gen : Nat, certs : SUBSET Certs, todo : SUBSET Certs,
   item : SlabItems, was : SlabItems, found : SUBSET Packages,
   rows : SUBSET [p : Packages, row : ParcelRows], marked : SUBSET Packages,
   had : SUBSET Packages, by : {"none", "auto", "admin"}]

Histories ==
  [shipped : SUBSET Packages, overlapped : SUBSET Packages,
   early : SUBSET Packages, torn : SUBSET Packages,
   raced : SUBSET Certs, moved : SUBSET Packages, quarrel : BOOLEAN]

Packing == {"none", "awaiting_shipment"}

\* What a call holds, by the place it is at.
HoldsOK(r) ==
  /\ r.pc \in {"cycles", "save", "items", "judge", "sync", "link", "linked",
               "complete", "completed"} => r.p \in Packages
  /\ r.pc \in {"save", "items"} => r.op # "none"
  /\ r.op = "slip" => r.row.paper = "none"
  /\ r.op = "cancel" => r.row.st = "awaiting_shipment" /\ r.row.paper # "tracking"
  /\ r.op \in {"track", "arrive", "move"} => r.row.st \in Underway
  /\ r.pc \in {"cycles", "save", "items"} /\ r.todo # {} => r.op \in {"track", "arrive"}
  /\ r.pc = "items" => r.todo # {}
  /\ r.pc = "cycles" => r.op = "track"
  /\ r.op = "track" => r.then = "idle"
  /\ r.then = "next" => r.pc \in {"save", "items"} /\ r.op = "arrive"
  /\ r.then = "next" \/ r.pc \in {"auto", "apply", "next", "confirm"} => r.by # "none"
  /\ r.pc = "judge" => r.item.st \in {"reviewing", "rejected"}
  /\ r.pc = "link" => r.item.st = "minting"
  /\ r.pc = "complete" => r.item.st = "completed"
  /\ r.pc \in {"judge", "link"} => r.was.st \notin Ended
  /\ r.pc \in {"judge", "link", "complete"} => r.was.st # "none"
  /\ r.pc = "find" => r.item.cyc # 0
  /\ r.pc = "cancel" => \A f \in r.rows : f.row.st = "awaiting_shipment"

InsideOf(s) == {c \in Certs : s.item[c].st # "none"}
OnOf(s, S)  == {c \in Certs : s.item[c].st \in S}

\* What a call read of its package that nothing has written over since: row x,
\* items s; over: the packages overlapped.
Recent(r, x, s, over) ==
  /\ r.pc \in {"cycles", "save", "items"} => r.gen <= s.gen
  /\ r.p \notin over =>
       /\ /\ r.pc \in {"cycles", "save"} /\ r.op = "track" /\ r.gen = s.gen
          => InsideOf(s) \subseteq r.certs
       /\ /\ r.pc = "save" /\ r.op = "arrive" /\ r.gen = s.gen
          => OnOf(s, Waiting) \subseteq r.todo
       /\ r.pc = "items" => r.gen = s.gen /\ x.st \notin Packing

RecordsOK ==
  /\ parcel \in [Packages -> ParcelRows]
  /\ slab \in [Packages -> [gen : Nat, item : [Certs -> SlabItems]]]
  /\ \A p \in Packages, c \in Certs :
       slab[p].item[c].st = "none" => slab[p].item[c].cyc = 0
  /\ path \in [Certs -> [n : 0..MaxPaths, open : BOOLEAN]]
  /\ letter \in [certs : SUBSET Certs, marked : SUBSET Packages, done : BOOLEAN,
                 st : {"none", "pending", "confirmed", "dismissed"}]
  /\ ever \in Histories
  /\ calls \in Nat /\ slips \in Nat

CallsOK == \A k \in Callers : LET r == caller[k] IN
  /\ HoldsOK(r)
  /\ r.pc \in {"cycles", "save", "items"} =>
       Recent(r, parcel[r.p], slab[r.p], ever.overlapped)

IntakeBase == RecordsOK /\ caller \in [Callers -> CallerStates] /\ CallsOK

TrackedShipped == \A p \in Packages \ ever.overlapped :
  parcel[p].paper = "tracking" => p \in ever.shipped

ArrivalsInHand == \A p \in Packages \ (ever.overlapped \cup ever.early \cup ever.torn) :
  parcel[p].st = "psa_reviewing" =>
    \A c \in On(p, Waiting) : \E k \in Callers :
      /\ caller[k].pc = "items" /\ caller[k].op = "arrive" /\ caller[k].p = p
      /\ c \in caller[k].todo

Shipped(p, c) ==
  /\ parcel[p].paper = "tracking" /\ parcel[p].st \in {"in_transit", "psa_reviewing"}
  /\ c \in Inside(p) /\ St(p, c) \notin Ended

\* Calls that ship, and calls about to open a cycle.
Ships(r)    == r.pc = "save" /\ r.op = "track"
Reserves(r) == r.pc = "reserve"

PathsOK ==
  /\ \A k \in Callers : Ships(caller[k]) =>
       \A c \in caller[k].certs \ ever.raced : ~path[c].open
  /\ \A k, j \in Callers : Ships(caller[k]) /\ Reserves(caller[j]) =>
       caller[k].certs \cap caller[j].certs \subseteq ever.raced
  /\ \A k \in Callers : Reserves(caller[k]) =>
       \A c \in caller[k].certs \ ever.raced, p \in Packages \ ever.overlapped :
         ~Shipped(p, c)

Confirms(r) == /\ r.by # "none" /\ r.pc \in {"next", "save", "items", "confirm"}
               /\ r.pc \in {"save", "items"} => r.then = "next"
Dismisses(r) == r.pc = "dismiss"

\* Packages a confirmation has moved and will mark.
Marks(r) == IF Confirms(r) THEN r.marked \cup (IF r.pc = "items" THEN {r.p} ELSE {})
            ELSE {}

MailOK == ~ever.quarrel =>
  /\ \A k \in Callers : Confirms(caller[k]) => letter.st = "pending"
  /\ \A k, j \in Callers : Confirms(caller[k]) /\ Confirms(caller[j]) => k = j
  /\ \A k \in Callers : Dismisses(caller[k]) => letter.st \in {"pending", "dismissed"}
  /\ \A k, j \in Callers : ~(Confirms(caller[k]) /\ Dismisses(caller[j]))
  /\ \A p \in ever.moved \ (ever.torn \cup ever.overlapped) :
       \/ letter.st = "confirmed" /\ p \in letter.marked
       \/ \E k \in Callers : p \in Marks(caller[k])
-----------------------------------------------------------------------------
(* The records, and what each call holds.                                  *)

\* What a step may do to a package not overlapped after it: row x, items s
\* become y and t.
Keep(x, s, y, t) ==
  /\ x.st \notin Packing => t.gen = s.gen /\ y.st \notin Packing
  /\ t.gen = s.gen => /\ InsideOf(t) \subseteq InsideOf(s)
                      /\ OnOf(t, Waiting) \subseteq OnOf(s, Waiting)
                      /\ OnOf(s, Ended) \subseteq OnOf(t, Ended)

KeepsPackages ==
  /\ ever.overlapped \subseteq ever'.overlapped
  /\ \A p \in Packages :
       /\ slab[p].gen <= slab'[p].gen
       /\ p \notin ever'.overlapped => Keep(parcel[p], slab[p], parcel'[p], slab'[p])

LEMMA StillRecent ==
  ASSUME NEW r, NEW x, NEW s, NEW y, NEW t, NEW over, NEW over2,
         r.gen \in Nat, s.gen \in Nat, t.gen \in Nat,
         Recent(r, x, s, over), s.gen <= t.gen, over \subseteq over2,
         r.p \notin over2 => Keep(x, s, y, t)
  PROVE  Recent(r, y, t, over2)
<1>1. r.gen <= s.gen => r.gen <= t.gen
  OBVIOUS
<1>2. r.gen <= s.gen /\ r.gen = t.gen => r.gen = s.gen /\ t.gen = s.gen
  OBVIOUS
<1> QED BY <1>1, <1>2 DEF Recent, Keep

\* One call moves on, the others go on holding what they hold.
LEMMA CallerMoves ==
  ASSUME IntakeBase, NEW k \in Callers, NEW r \in CallerStates,
         caller' = [caller EXCEPT ![k] = r], RecordsOK', KeepsPackages, HoldsOK(r),
         r.pc \in {"cycles", "save", "items"} =>
           Recent(r, parcel'[r.p], slab'[r.p], ever'.overlapped)
  PROVE  IntakeBase'
<1>1. caller' \in [Callers -> CallerStates]
  BY DEF IntakeBase
<1>2. \A j \in Callers : caller'[j] = IF j = k THEN r ELSE caller[j]
  BY DEF IntakeBase
<1>3. ASSUME NEW j \in Callers, j # k, caller[j].pc \in {"cycles", "save", "items"}
      PROVE  Recent(caller[j], parcel'[caller[j].p], slab'[caller[j].p], ever'.overlapped)
  <2> DEFINE q == caller[j].p
  <2>1. q \in Packages /\ caller[j].gen \in Nat
    BY <1>3 DEF IntakeBase, CallsOK, HoldsOK, CallerStates
  <2>2. Recent(caller[j], parcel[q], slab[q], ever.overlapped)
    BY <1>3 DEF IntakeBase, CallsOK
  <2>3. slab[q].gen \in Nat /\ slab'[q].gen \in Nat
    BY <2>1 DEF IntakeBase, RecordsOK
  <2>4. /\ slab[q].gen <= slab'[q].gen
        /\ ever.overlapped \subseteq ever'.overlapped
        /\ q \notin ever'.overlapped => Keep(parcel[q], slab[q], parcel'[q], slab'[q])
    BY <2>1 DEF KeepsPackages
  <2>5. q = caller[j].p
    OBVIOUS
  <2> HIDE DEF q
  <2>6. Recent(caller[j], parcel'[q], slab'[q], ever'.overlapped)
    BY <2>1, <2>2, <2>3, <2>4, <2>5, StillRecent
  <2> QED BY <2>6 DEF q
<1>4. CallsOK'
  <2>1. \A j \in Callers : HoldsOK(caller'[j])
    BY <1>2 DEF IntakeBase, CallsOK
  <2>2. \A j \in Callers : caller'[j].pc \in {"cycles", "save", "items"} =>
          Recent(caller'[j], parcel'[caller'[j].p], slab'[caller'[j].p], ever'.overlapped)
    BY <1>2, <1>3
  <2> QED BY <2>1, <2>2 DEF CallsOK
<1> QED BY <1>1, <1>4 DEF IntakeBase

LEMMA RestCall ==
  /\ AtRest \in CallerStates /\ HoldsOK(AtRest) /\ AtRest.pc = "idle"
  /\ AtRest.op = "none" /\ AtRest.then = "idle" /\ AtRest.by = "none"
  /\ AtRest.p = 0 /\ AtRest.certs = {} /\ AtRest.todo = {} /\ AtRest.found = {}
  /\ AtRest.rows = {} /\ AtRest.marked = {} /\ AtRest.had = {}
<1>1. NoParcel \in ParcelRows /\ Unlisted \in SlabItems
  BY IntakeAssumption DEF NoParcel, ParcelRows, Unlisted, SlabItems
<1>2. AtRest \in CallerStates
  BY <1>1 DEF AtRest, CallerStates
<1> QED BY <1>2 DEF AtRest, HoldsOK

\* The same call further on.
LEMMA GoesOn ==
  ASSUME NEW r \in CallerStates,
         NEW q \in {"idle", "save", "items", "judge", "sync", "create", "cycles", "auto",
         "label", "apply", "next", "confirm", "dismiss", "reserve", "attach",
         "link", "linked", "mint", "find", "complete", "completed", "clear", "cancel"}
  PROVE  LET e == [r EXCEPT !.pc = q] IN
         /\ e \in CallerStates /\ e.pc = q /\ e.op = r.op /\ e.then = r.then
         /\ e.p = r.p /\ e.row = r.row /\ e.gen = r.gen /\ e.certs = r.certs
         /\ e.todo = r.todo /\ e.item = r.item /\ e.was = r.was /\ e.found = r.found
         /\ e.rows = r.rows /\ e.marked = r.marked /\ e.had = r.had /\ e.by = r.by
BY DEF CallerStates

\* A package that is read for a save.
LEMMA ReadsPackage ==
  ASSUME RecordsOK, NEW r \in CallerStates, NEW p \in Packages,
         NEW op \in {"none", "slip", "cancel", "track", "arrive", "move", "complete"},
         NEW todo \in SUBSET Certs, NEW then \in {"idle", "next", "mint", "clear"}
  PROVE  LET e == With(r, op, p, todo, then) IN
         /\ e \in CallerStates /\ e.pc = r.pc /\ e.op = op /\ e.then = then
         /\ e.p = p /\ e.row = parcel[p] /\ e.gen = slab[p].gen /\ e.certs = Inside(p)
         /\ e.todo = todo /\ e.item = r.item /\ e.was = r.was /\ e.found = r.found
         /\ e.rows = r.rows /\ e.marked = r.marked /\ e.had = r.had /\ e.by = r.by
<1> DEFINE x == parcel[p]
           g == slab[p].gen
           S == Inside(p)
           e == [r EXCEPT !.op = op, !.p = p, !.row = x, !.gen = g,
            !.certs = S, !.todo = todo, !.then = then]
<1>1. x \in ParcelRows /\ g \in Nat /\ S \in SUBSET Certs
  BY DEF RecordsOK, Inside
<1>2. With(r, op, p, todo, then) = e
  BY DEF With
<1> HIDE DEF x, g, S
<1>3. e \in CallerStates
  BY <1>1 DEF CallerStates
<1>4. /\ e.pc = r.pc /\ e.op = op /\ e.then = then
      /\ e.p = p /\ e.row = x /\ e.gen = g /\ e.certs = S
      /\ e.todo = todo /\ e.item = r.item /\ e.was = r.was /\ e.found = r.found
      /\ e.rows = r.rows /\ e.marked = r.marked /\ e.had = r.had /\ e.by = r.by
  BY DEF CallerStates
<1> HIDE DEF e
<1>5. LET w == With(r, op, p, todo, then) IN
      /\ w \in CallerStates /\ w.pc = r.pc /\ w.op = op /\ w.then = then
      /\ w.p = p /\ w.row = x /\ w.gen = g /\ w.certs = S
      /\ w.todo = todo /\ w.item = r.item /\ w.was = r.was /\ w.found = r.found
      /\ w.rows = r.rows /\ w.marked = r.marked /\ w.had = r.had /\ w.by = r.by
  BY <1>2, <1>3, <1>4
<1> QED BY <1>5 DEF x, g, S

\* The confirmation of a mail goes on, the direct mint resumes.
LEMMA ContinuesCall ==
  ASSUME NEW r \in CallerStates, NEW M \in SUBSET Packages, r.by # "none"
  PROVE  LET e == Continues(r, M) IN
         /\ e \in CallerStates /\ HoldsOK(e) /\ e.pc = "next" /\ e.marked = M
         /\ e.by = r.by /\ e.then = "idle" /\ e.op = "none" /\ e.todo = {}
         /\ e.certs = {}
<1> DEFINE f == r.found
           h == r.had
           b == r.by
           e == [AtRest EXCEPT !.pc = "next", !.by = b, !.found = f, !.had = h,
                 !.marked = M]
<1>1. f \in SUBSET Packages /\ h \in SUBSET Packages /\ b \in {"auto", "admin"}
      /\ b \in {"none", "auto", "admin"} /\ M \in SUBSET Packages
  BY DEF CallerStates
<1>2. Continues(r, M) = e
  BY DEF Continues
<1> HIDE DEF f, h, b
<1>8. NoParcel \in ParcelRows /\ Unlisted \in SlabItems
  BY IntakeAssumption DEF NoParcel, ParcelRows, Unlisted, SlabItems
<1>3. e \in CallerStates
  <2> DEFINE d == [AtRest EXCEPT !.pc = "next"]
             g == [d EXCEPT !.by = b]
  <2>1. AtRest \in CallerStates
    BY RestCall
  <2>2. d \in CallerStates
    BY <2>1 DEF CallerStates
  <2>3. e = [g EXCEPT !.found = f, !.had = h, !.marked = M]
    BY DEF AtRest
  <2> HIDE DEF d
  <2>4. g \in CallerStates
    BY <1>1, <2>2 DEF CallerStates
  <2> HIDE DEF g, e
  <2> QED BY <1>1, <2>3, <2>4 DEF CallerStates
<1>4. /\ e.pc = "next" /\ e.marked = M /\ e.by = b /\ e.then = "idle" /\ e.op = "none"
      /\ e.todo = {} /\ e.certs = {}
  BY DEF AtRest
<1> HIDE DEF e
<1>5. HoldsOK(e)
  BY <1>1, <1>4 DEF HoldsOK
<1>6. LET w == Continues(r, M) IN
      /\ w \in CallerStates /\ HoldsOK(w) /\ w.pc = "next" /\ w.marked = M
      /\ w.by = b /\ w.then = "idle" /\ w.op = "none" /\ w.todo = {} /\ w.certs = {}
  BY <1>2, <1>3, <1>4, <1>5
<1> QED BY <1>6 DEF b

LEMMA ResumesCall ==
  ASSUME NEW r \in CallerStates, NEW q \in {"mint", "clear", "find"},
         q = "find" => r.item.cyc # 0
  PROVE  LET e == Resumes(r, q) IN
         /\ e \in CallerStates /\ HoldsOK(e) /\ e.pc = q /\ e.certs = r.certs
         /\ e.item = r.item /\ e.by = "none" /\ e.then = "idle" /\ e.op = "none"
<1> DEFINE S == r.certs
           it == r.item
           e == [AtRest EXCEPT !.pc = q, !.certs = S, !.item = it]
<1>1. S \in SUBSET Certs /\ it \in SlabItems
  BY DEF CallerStates
<1>2. Resumes(r, q) = e
  BY DEF Resumes
<1>7. q = "find" => it.cyc # 0
  OBVIOUS
<1> HIDE DEF S, it
<1>8. AtRest \in CallerStates
  BY RestCall
<1>3. e \in CallerStates
  BY <1>1, <1>8 DEF CallerStates
<1>4. /\ e.pc = q /\ e.certs = S /\ e.item = it /\ e.by = "none" /\ e.then = "idle"
      /\ e.op = "none" /\ e.todo = {}
  BY DEF AtRest
<1> HIDE DEF e
<1>5. HoldsOK(e)
  BY <1>4, <1>7 DEF HoldsOK
<1>6. LET w == Resumes(r, q) IN
      /\ w \in CallerStates /\ HoldsOK(w) /\ w.pc = q /\ w.certs = S
      /\ w.item = it /\ w.by = "none" /\ w.then = "idle" /\ w.op = "none"
  BY <1>2, <1>3, <1>4, <1>5
<1> QED BY <1>6 DEF S, it

\* A call that is through with its package, or stopped by an error.
LEMMA CallEndsOK ==
  ASSUME NEW r \in CallerStates, HoldsOK(r), r.then = "next" => r.p \in Packages
  PROVE  /\ CallEnds(r) \in CallerStates /\ HoldsOK(CallEnds(r))
         /\ CallEnds(r).pc \in {"idle", "next", "mint", "clear"}
         /\ Throws(r) \in CallerStates /\ HoldsOK(Throws(r))
         /\ Throws(r).pc \in {"idle", "next"}
<1>1. r.marked \in SUBSET Packages /\ r.then \in {"idle", "next", "mint", "clear"}
      /\ (r.then = "next" => r.by # "none")
  BY DEF HoldsOK, CallerStates
<1>2. r.then = "next" => r.marked \cup {r.p} \in SUBSET Packages
  BY <1>1
<1>3. CASE r.then = "next"
  BY <1>1, <1>2, <1>3, ContinuesCall DEF CallEnds, Throws
<1>4. CASE r.then = "idle"
  BY <1>4, RestCall DEF CallEnds, Throws
<1>5. CASE r.then \in {"mint", "clear"}
  BY <1>5, RestCall, ResumesCall DEF CallEnds, Throws
<1> QED BY <1>1, <1>3, <1>4, <1>5

LEMMA CallerFacts ==
  ASSUME IntakeBase, NEW k \in Callers
  PROVE  /\ caller[k] \in CallerStates /\ HoldsOK(caller[k])
         /\ caller[k].pc \in {"cycles", "save", "items"} =>
              /\ Recent(caller[k], parcel[caller[k].p], slab[caller[k].p], ever.overlapped)
              /\ caller[k].p \in Packages
         /\ RecordsOK
BY DEF IntakeBase, CallsOK, HoldsOK

\* A step that writes no package.
LEMMA QuietCall ==
  ASSUME IntakeBase, NEW k \in Callers, NEW r \in CallerStates,
         caller' = [caller EXCEPT ![k] = r], UNCHANGED <<parcel, slab>>,
         path' \in [Certs -> [n : 0..MaxPaths, open : BOOLEAN]],
         letter' \in [certs : SUBSET Certs, marked : SUBSET Packages, done : BOOLEAN,
                      st : {"none", "pending", "confirmed", "dismissed"}],
         ever' \in Histories, ever'.overlapped = ever.overlapped,
         calls' \in Nat, slips' \in Nat, HoldsOK(r),
         r.pc \in {"cycles", "save", "items"} =>
           Recent(r, parcel[r.p], slab[r.p], ever.overlapped)
  PROVE  IntakeBase'
<1>1. RecordsOK'
  BY DEF IntakeBase, RecordsOK
<1>2. KeepsPackages
  <2>1. \A p \in Packages : slab[p].gen \in Nat
    BY DEF IntakeBase, RecordsOK
  <2> QED BY <2>1 DEF KeepsPackages, Keep
<1>3. r.pc \in {"cycles", "save", "items"} =>
           Recent(r, parcel'[r.p], slab'[r.p], ever'.overlapped)
  OBVIOUS
<1> QED BY <1>1, <1>2, <1>3, CallerMoves

LEMMA FreshRecent ==
  ASSUME RecordsOK, NEW r \in CallerStates, r.p \in Packages, r.pc # "items",
         r.gen = slab[r.p].gen,
         r.op = "track" => Inside(r.p) \subseteq r.certs,
         r.op = "arrive" => On(r.p, Waiting) \subseteq r.todo
  PROVE  Recent(r, parcel[r.p], slab[r.p], ever.overlapped)
<1>1. slab[r.p].gen \in Nat
  BY DEF RecordsOK
<1>2. InsideOf(slab[r.p]) = Inside(r.p) /\ OnOf(slab[r.p], Waiting) = On(r.p, Waiting)
  BY DEF InsideOf, Inside, OnOf, On, St
<1> QED BY <1>1, <1>2 DEF Recent

\* What the histories and the records keep when only marks are added.
LEMMA RecordTypes ==
  ASSUME IntakeBase
  PROVE  /\ path \in [Certs -> [n : 0..MaxPaths, open : BOOLEAN]]
         /\ letter \in [certs : SUBSET Certs, marked : SUBSET Packages, done : BOOLEAN,
                        st : {"none", "pending", "confirmed", "dismissed"}]
         /\ ever \in Histories /\ calls \in Nat /\ slips \in Nat
         /\ calls + 1 \in Nat /\ slips + 1 \in Nat
BY DEF IntakeBase, RecordsOK

LEMMA RacedMore ==
  ASSUME ever \in Histories, NEW S \in SUBSET Certs
  PROVE  LET e == [ever EXCEPT !.raced = @ \cup S] IN
         /\ e \in Histories /\ e.overlapped = ever.overlapped
         /\ e.shipped = ever.shipped /\ e.early = ever.early /\ e.torn = ever.torn
         /\ e.moved = ever.moved /\ e.quarrel = ever.quarrel
         /\ e.raced = ever.raced \cup S
BY DEF Histories

\* A call reads a package, to save it.
LEMMA ReadsForSave ==
  ASSUME IntakeBase, NEW k \in Callers, NEW p \in Packages,
         NEW pc \in {"save", "cycles", "judge"}, NEW r \in CallerStates,
         r.pc = pc, r.by = "none",
         NEW op \in {"none", "slip", "cancel", "track", "arrive", "move", "complete"},
         NEW todo \in SUBSET Certs,
         caller' = [caller EXCEPT ![k] = With(r, op, p, todo, "idle")],
         UNCHANGED <<parcel, slab, path, letter, ever, slips>>, calls' \in Nat,
         pc = "save" => op # "none", pc = "cycles" <=> op = "track", pc # "judge",
         op = "slip" => parcel[p].paper = "none",
         op = "cancel" => PreShip(p),
         op \in {"track", "arrive", "move"} => Arrivable(p),
         op = "arrive" => todo = ToReview(p),
         op \notin {"arrive", "track"} => todo = {}
  PROVE  IntakeBase'
<1> DEFINE e == With(r, op, p, todo, "idle")
<1>1. RecordsOK
  BY DEF IntakeBase
<1>2. /\ e \in CallerStates /\ e.pc = pc /\ e.op = op /\ e.then = "idle"
      /\ e.p = p /\ e.row = parcel[p] /\ e.gen = slab[p].gen /\ e.certs = Inside(p)
      /\ e.todo = todo /\ e.by = "none"
  BY <1>1, ReadsPackage
<1> HIDE DEF e
<1>3. HoldsOK(e)
  BY <1>2 DEF HoldsOK, PreShip, Arrivable
<1>4. Recent(e, parcel[e.p], slab[e.p], ever.overlapped)
  BY <1>1, <1>2, FreshRecent DEF ToReview
<1>5. caller' = [caller EXCEPT ![k] = e]
  BY DEF e
<1> QED BY <1>2, <1>3, <1>4, <1>5, RecordTypes, QuietCall

\* AtRest at another place.
LEMMA RestAt ==
  ASSUME NEW q \in {"save", "cycles", "judge"}
  PROVE  LET r == [AtRest EXCEPT !.pc = q] IN
         r \in CallerStates /\ r.pc = q /\ r.by = "none"
<1>1. AtRest \in CallerStates /\ AtRest.by = "none"
  BY RestCall
<1> QED BY <1>1 DEF CallerStates

LEMMA SellerReads ==
  ASSUME IntakeBase, NEW k \in Callers, NEW p \in Packages,
         \/ DownloadSlip(k, p) \/ CancelPreShip(k, p) \/ MarkArrived(k, p)
         \/ RegisterTracking(k, p)
  PROVE  IntakeBase'
<1>1. UNCHANGED <<parcel, slab, path, letter, ever, slips>> /\ calls' = calls + 1
  BY DEF DownloadSlip, CancelPreShip, MarkArrived, RegisterTracking, Begins, NextCall,
         records
<1>2. calls' \in Nat
  BY <1>1, RecordTypes
<1> DEFINE r == [AtRest EXCEPT !.pc = "save"]
           q == [AtRest EXCEPT !.pc = "cycles"]
<1>3. r \in CallerStates /\ r.pc = "save" /\ r.by = "none"
  BY RestAt
<1>4. q \in CallerStates /\ q.pc = "cycles" /\ q.by = "none"
  BY RestAt
<1>5. /\ DownloadSlip(k, p) =>
           /\ caller' = [caller EXCEPT ![k] = With(r, "slip", p, {}, "idle")]
           /\ parcel[p].paper = "none"
      /\ CancelPreShip(k, p) =>
           /\ caller' = [caller EXCEPT ![k] = With(r, "cancel", p, {}, "idle")]
           /\ PreShip(p)
      /\ MarkArrived(k, p) =>
           /\ caller' = [caller EXCEPT ![k] = With(r, "arrive", p, ToReview(p), "idle")]
           /\ Arrivable(p)
      /\ RegisterTracking(k, p) =>
           /\ caller' = [caller EXCEPT ![k] =
                           With(q, "track", p, On(p, {"confirmed"}), "idle")]
           /\ Arrivable(p)
  BY DEF DownloadSlip, CancelPreShip, MarkArrived, RegisterTracking, Sets, Arrivable
<1>6. ToReview(p) \in SUBSET Certs /\ On(p, {"confirmed"}) \in SUBSET Certs
  BY DEF ToReview, On
<1> HIDE DEF r, q
<1>7. CASE DownloadSlip(k, p)
  BY <1>1, <1>2, <1>3, <1>5, <1>7, ReadsForSave
<1>8. CASE CancelPreShip(k, p)
  BY <1>1, <1>2, <1>3, <1>5, <1>8, ReadsForSave
<1>9. CASE MarkArrived(k, p)
  BY <1>1, <1>2, <1>3, <1>5, <1>6, <1>9, ReadsForSave
<1>10. CASE RegisterTracking(k, p)
  BY <1>1, <1>2, <1>4, <1>5, <1>6, <1>10, ReadsForSave
<1> QED BY <1>7, <1>8, <1>9, <1>10

LEMMA CheckCyclesBase ==
  ASSUME IntakeBase, NEW k \in Callers, CheckCycles(k)
  PROVE  IntakeBase'
<1>1. /\ caller[k].pc = "cycles" /\ caller[k] \in CallerStates /\ HoldsOK(caller[k])
      /\ Recent(caller[k], parcel[caller[k].p], slab[caller[k].p], ever.overlapped)
      /\ UNCHANGED <<parcel, slab, path, letter, calls, slips>>
  BY CallerFacts DEF CheckCycles, records
<1>2. CASE caller' = [caller EXCEPT ![k] = AtRest] /\ UNCHANGED ever
  BY <1>1, <1>2, RestCall, RecordTypes, QuietCall
<1>3. CASE ~(caller' = [caller EXCEPT ![k] = AtRest] /\ UNCHANGED ever)
  <2> DEFINE r == [caller[k] EXCEPT !.pc = "save"]
             S == UNION {caller[k].certs \cap caller[j].certs : j \in Reserving}
  <2>1. /\ caller' = [caller EXCEPT ![k] = r]
        /\ ever' = [ever EXCEPT !.raced = @ \cup S]
    BY <1>3 DEF CheckCycles, Goto, Sets
  <2>2. /\ r \in CallerStates /\ r.pc = "save" /\ r.op = caller[k].op /\ r.p = caller[k].p
        /\ r.then = caller[k].then /\ r.row = caller[k].row /\ r.gen = caller[k].gen
        /\ r.certs = caller[k].certs /\ r.todo = caller[k].todo /\ r.by = caller[k].by
        /\ r.rows = caller[k].rows /\ r.item = caller[k].item /\ r.was = caller[k].was
    <3>1. caller[k] \in CallerStates
      BY <1>1
    <3> QED BY <3>1 DEF CallerStates
  <2>3. S \in SUBSET Certs
    BY <1>1 DEF CallerStates
  <2>4. ever' \in Histories /\ ever'.overlapped = ever.overlapped
    BY <2>1, <2>3, RecordTypes, RacedMore
  <2> HIDE DEF r, S
  <2>5. HoldsOK(r)
    BY <1>1, <2>2 DEF HoldsOK
  <2>6. Recent(r, parcel[r.p], slab[r.p], ever.overlapped)
    BY <1>1, <2>2, <2>5 DEF Recent, HoldsOK
  <2> QED BY <1>1, <2>1, <2>2, <2>4, <2>5, <2>6, RecordTypes, QuietCall
<1> QED BY <1>2, <1>3

\* The verdict of an admin on an item that was read.
LEMMA SetItemStatusBase ==
  ASSUME IntakeBase, NEW k \in Callers, NEW p \in Packages, NEW c \in Certs,
         NEW st \in {"reviewing", "rejected"}, SetItemStatus(k, p, c, st)
  PROVE  IntakeBase'
<1> DEFINE w == slab[p].item[c]
           i == [w EXCEPT !.st = st]
           q == [AtRest EXCEPT !.pc = "judge"]
           e == With(q, "none", p, {}, "idle")
           S == {c}
           r == [e EXCEPT !.certs = S, !.was = w, !.item = i]
<1>1. /\ UNCHANGED <<parcel, slab, path, letter, ever, slips>> /\ calls' = calls + 1
      /\ c \in Inside(p) /\ St(p, c) \notin Ended /\ caller' = [caller EXCEPT ![k] = r]
  BY DEF SetItemStatus, Begins, NextCall, Sets, records
<1>2. w \in SlabItems /\ i \in SlabItems /\ i.st = st /\ w.st # "none" /\ w.st \notin Ended
      /\ RecordsOK
  <2>1. w \in SlabItems /\ RecordsOK
    BY DEF IntakeBase, RecordsOK
  <2>2. w.st # "none" /\ w.st \notin Ended
    BY <1>1 DEF Inside, St
  <2> HIDE DEF w
  <2> QED BY <2>1, <2>2 DEF SlabItems
<1>3. /\ e \in CallerStates /\ e.pc = "judge" /\ e.op = "none" /\ e.then = "idle"
      /\ e.p = p /\ e.todo = {} /\ e.by = "none"
  <2>1. q \in CallerStates /\ q.pc = "judge" /\ q.by = "none"
    BY RestAt
  <2> HIDE DEF q
  <2> QED BY <1>2, <2>1, ReadsPackage
<1>4. S \in SUBSET Certs
  OBVIOUS
<1> HIDE DEF e, w, i, S
<1>5. /\ r \in CallerStates /\ r.pc = "judge" /\ r.op = "none" /\ r.then = "idle"
      /\ r.p = p /\ r.todo = {} /\ r.by = "none" /\ r.was = w /\ r.item = i
  BY <1>2, <1>3, <1>4 DEF CallerStates
<1> HIDE DEF r
<1>6. HoldsOK(r)
  BY <1>2, <1>5 DEF HoldsOK
<1> QED BY <1>1, <1>5, <1>6, RecordTypes, QuietCall

LEMMA SyncPackageBase ==
  ASSUME IntakeBase, NEW k \in Callers, SyncPackage(k)
  PROVE  IntakeBase'
<1> DEFINE p == caller[k].p
           q == [AtRest EXCEPT !.pc = "save"]
<1>1. /\ caller[k].pc = "sync" /\ caller[k] \in CallerStates /\ p \in Packages
      /\ UNCHANGED <<parcel, slab, path, letter, ever, calls, slips>>
  BY CallerFacts DEF SyncPackage, records, HoldsOK
<1>2. CASE Follows(p) = {}
  <2>1. caller' = [caller EXCEPT ![k] = AtRest]
    BY <1>2 DEF SyncPackage, Sets
  <2> QED BY <1>1, <2>1, RestCall, RecordTypes, QuietCall
<1>3. CASE Follows(p) # {}
  <2>1. PICK op \in Follows(p) :
          caller' = [caller EXCEPT ![k] = With(q, op, p, {}, "idle")]
    BY <1>3 DEF SyncPackage, Sets
  <2>2. op \in {"complete", "move"} /\ (op = "move" => Arrivable(p))
    BY <2>1 DEF Follows
  <2>3. q \in CallerStates /\ q.pc = "save" /\ q.by = "none" /\ calls' \in Nat
    BY <1>1, RestAt, RecordTypes
  <2>4. {} \in SUBSET Certs /\ op # "none" /\ op \notin {"track", "arrive", "slip", "cancel"}
        /\ op \in {"none", "slip", "cancel", "track", "arrive", "move", "complete"}
    BY <2>2
  <2> HIDE DEF p, q
  <2> QED BY <1>1, <2>1, <2>2, <2>3, <2>4, ReadsForSave
<1> QED BY <1>2, <1>3
-----------------------------------------------------------------------------
(* The mail                                                                *)

\* A call of the mail at another place.
LEMMA MailGoes ==
  ASSUME NEW r \in CallerStates, HoldsOK(r), r.pc \in {"auto", "apply", "next", "confirm"},
         NEW q \in {"label", "apply", "confirm"}
  PROVE  LET e == [r EXCEPT !.pc = q] IN
         e \in CallerStates /\ HoldsOK(e) /\ e.pc = q /\ e.by = r.by
         /\ e.marked = r.marked /\ e.had = r.had
<1> DEFINE e == [r EXCEPT !.pc = q]
<1>1. /\ e \in CallerStates /\ e.pc = q /\ e.op = r.op /\ e.then = r.then
      /\ e.row = r.row /\ e.todo = r.todo /\ e.by = r.by /\ e.marked = r.marked
      /\ e.had = r.had
  BY DEF CallerStates
<1> HIDE DEF e
<1>2. HoldsOK(e)
  BY <1>1 DEF HoldsOK
<1> QED BY <1>1, <1>2 DEF e

LEMMA FinishedCall ==
  ASSUME NEW k \in Callers, caller[k] \in CallerStates, HoldsOK(caller[k]),
         caller[k].pc \in {"apply", "confirm"}, Finished(k)
  PROVE  \E r \in CallerStates :
           /\ caller' = [caller EXCEPT ![k] = r] /\ HoldsOK(r)
           /\ r.pc \in {"idle", "label"}
<1>1. CASE caller[k].by = "auto"
  <2> DEFINE r == [caller[k] EXCEPT !.pc = "label"]
  <2>1. caller' = [caller EXCEPT ![k] = r]
    BY <1>1 DEF Finished, Goto, Sets
  <2>2. r \in CallerStates /\ HoldsOK(r) /\ r.pc = "label"
    BY MailGoes
  <2> HIDE DEF r
  <2> QED BY <2>1, <2>2
<1>2. CASE caller[k].by # "auto"
  <2>1. caller' = [caller EXCEPT ![k] = AtRest]
    BY <1>2 DEF Finished, Sets
  <2> QED BY <2>1, RestCall
<1> QED BY <1>1, <1>2

\* The poll, the admin and the dismissal take the mail up.
LEMMA MailStarts ==
  ASSUME IntakeBase, NEW k \in Callers,
         \/ \E S \in SUBSET Certs : PollReceived(k, S)
         \/ AdminConfirmMail(k) \/ DismissArrival(k)
  PROVE  IntakeBase'
<1>1. letter.marked \in SUBSET Packages /\ calls + 1 \in Nat
  BY RecordTypes
<1>2. ASSUME NEW S \in SUBSET Certs, PollReceived(k, S) PROVE IntakeBase'
  <2> DEFINE q == IF letter'.st = "pending" THEN "auto" ELSE "label"
             r == [AtRest EXCEPT !.by = "auto", !.pc = q]
  <2>1. /\ UNCHANGED <<parcel, slab, path, ever, slips>> /\ calls' = calls + 1
        /\ caller' = [caller EXCEPT ![k] = r]
        /\ letter' = (IF letter.st = "none"
               THEN [letter EXCEPT !.certs = S, !.st = "pending",
                                   !.marked = Holding(S)]
               ELSE letter)
    BY <1>2 DEF PollReceived, NextCall, Sets
  <2>2. Holding(S) \in SUBSET Packages
    BY DEF Holding
  <2>3. letter' \in [certs : SUBSET Certs, marked : SUBSET Packages, done : BOOLEAN,
                      st : {"none", "pending", "confirmed", "dismissed"}]
    BY <2>1, <2>2, RecordTypes
  <2>4. q \in {"auto", "label"}
    OBVIOUS
  <2> HIDE DEF q
  <2>5. /\ r \in CallerStates /\ r.pc = q /\ r.by = "auto" /\ r.op = "none"
        /\ r.then = "idle" /\ r.todo = {}
    <3> DEFINE d == [AtRest EXCEPT !.by = "auto"]
    <3>1. AtRest \in CallerStates
      BY RestCall
    <3>2. d \in CallerStates
      BY <3>1 DEF CallerStates
    <3>3. /\ r = [d EXCEPT !.pc = q] /\ r.pc = q /\ r.by = "auto" /\ r.op = "none"
          /\ r.then = "idle" /\ r.todo = {}
      BY DEF AtRest
    <3> HIDE DEF d, r
    <3>4. r \in CallerStates
      BY <2>4, <3>2, <3>3 DEF CallerStates
    <3> QED BY <3>3, <3>4
  <2> HIDE DEF r
  <2>6. HoldsOK(r)
    BY <2>4, <2>5 DEF HoldsOK
  <2>7. r.pc \notin {"cycles", "save", "items"} /\ calls' \in Nat
    BY <1>1, <2>1, <2>4, <2>5
  <2> QED BY <2>1, <2>3, <2>5, <2>6, <2>7, RecordTypes, QuietCall
<1>3. CASE AdminConfirmMail(k)
  <2> DEFINE r == [AtRest EXCEPT !.pc = "apply", !.by = "admin"]
  <2>1. /\ UNCHANGED <<parcel, slab, path, letter, ever, slips>> /\ calls' = calls + 1
        /\ caller' = [caller EXCEPT ![k] = r]
    BY <1>3 DEF AdminConfirmMail, Begins, NextCall, Sets, records
  <2>2. /\ r \in CallerStates /\ r.pc = "apply" /\ r.by = "admin" /\ r.op = "none"
        /\ r.then = "idle" /\ r.todo = {}
    <3> DEFINE d == [AtRest EXCEPT !.by = "admin"]
    <3>1. AtRest \in CallerStates
      BY RestCall
    <3>2. d \in CallerStates
      BY <3>1 DEF CallerStates
    <3>3. /\ r = [d EXCEPT !.pc = "apply"] /\ r.pc = "apply" /\ r.by = "admin" /\ r.op = "none"
          /\ r.then = "idle" /\ r.todo = {}
      BY DEF AtRest
    <3> HIDE DEF d, r
    <3>4. r \in CallerStates
      BY <3>2, <3>3 DEF CallerStates
    <3> QED BY <3>3, <3>4
  <2> HIDE DEF r
  <2>3. HoldsOK(r) /\ calls' \in Nat
    BY <1>1, <2>1, <2>2 DEF HoldsOK
  <2> QED BY <2>1, <2>2, <2>3, RecordTypes, QuietCall
<1>4. CASE DismissArrival(k)
  <2> DEFINE r == [AtRest EXCEPT !.pc = "dismiss", !.had = letter.marked]
  <2>1. /\ UNCHANGED <<parcel, slab, path, letter, slips>> /\ calls' = calls + 1
        /\ caller' = [caller EXCEPT ![k] = r]
        /\ ever' = [ever EXCEPT !.quarrel = @ \/ Confirming]
    BY <1>4 DEF DismissArrival, Begins, NextCall, Sets, records
  <2>2. /\ r \in CallerStates /\ r.pc = "dismiss" /\ r.by = "none" /\ r.op = "none"
        /\ r.then = "idle" /\ r.todo = {}
    <3>1. AtRest \in CallerStates
      BY RestCall
    <3>2. r \in CallerStates
      BY <1>1, <3>1 DEF CallerStates
    <3>3. /\ r.pc = "dismiss" /\ r.by = "none" /\ r.op = "none" /\ r.then = "idle"
          /\ r.todo = {}
      BY DEF AtRest
    <3> QED BY <3>2, <3>3
  <2> HIDE DEF r
  <2>3. HoldsOK(r) /\ calls' \in Nat
    BY <1>1, <2>1, <2>2 DEF HoldsOK
  <2>4. ever' \in Histories /\ ever'.overlapped = ever.overlapped
    BY <2>1, RecordTypes DEF Histories, Confirming
  <2> QED BY <2>1, <2>2, <2>3, <2>4, RecordTypes, QuietCall
<1> QED BY <1>2, <1>3, <1>4

LEMMA MailGoesOn ==
  ASSUME IntakeBase, NEW k \in Callers,
         \/ MaybeAutoConfirm(k) \/ ApplyConfirm(k) \/ SaveConfirmed(k)
         \/ LabelMail(k) \/ SaveDismissed(k)
  PROVE  IntakeBase'
<1>1. /\ caller[k] \in CallerStates /\ HoldsOK(caller[k])
      /\ UNCHANGED <<parcel, slab, path, calls, slips>>
  BY CallerFacts DEF MaybeAutoConfirm, ApplyConfirm, SaveConfirmed, LabelMail,
     SaveDismissed, records
<1>2. caller[k].marked \in SUBSET Packages /\ caller[k].had \in SUBSET Packages
  BY <1>1 DEF CallerStates
<1>3. ASSUME NEW r \in CallerStates, caller' = [caller EXCEPT ![k] = r], HoldsOK(r),
             r.pc \notin {"cycles", "save", "items"},
             letter' \in [certs : SUBSET Certs, marked : SUBSET Packages, done : BOOLEAN,
                          st : {"none", "pending", "confirmed", "dismissed"}],
             ever' \in Histories, ever'.overlapped = ever.overlapped
      PROVE  IntakeBase'
  BY <1>1, <1>3, RecordTypes, QuietCall
<1>4. CASE MaybeAutoConfirm(k)
  <2>1. caller[k].pc = "auto" /\ UNCHANGED <<letter, ever>>
    BY <1>4 DEF MaybeAutoConfirm, records
  <2> DEFINE r == [caller[k] EXCEPT !.pc = "label"]
             e == [caller[k] EXCEPT !.pc = "apply"]
  <2>2. r \in CallerStates /\ HoldsOK(r) /\ r.pc = "label"
    BY <1>1, <2>1, MailGoes
  <2>3. e \in CallerStates /\ HoldsOK(e) /\ e.pc = "apply"
    BY <1>1, <2>1, MailGoes
  <2>4. caller' = [caller EXCEPT ![k] = r] \/ caller' = [caller EXCEPT ![k] = e]
    BY <1>4 DEF MaybeAutoConfirm, Goto, Sets
  <2> HIDE DEF r, e
  <2> QED BY <2>1, <2>2, <2>3, <2>4, <1>3, RecordTypes
<1>5. CASE ApplyConfirm(k)
  <2>1. caller[k].pc = "apply" /\ UNCHANGED letter
    BY <1>5 DEF ApplyConfirm, records
  <2>2. CASE Pending
    <3> DEFINE F == Matching
               H == letter.marked
               r == [caller[k] EXCEPT !.pc = "next", !.found = F, !.had = H]
    <3>1. /\ caller' = [caller EXCEPT ![k] = r]
          /\ ever' = [ever EXCEPT !.quarrel = @ \/ Dismissing \/ Confirming]
      BY <1>5, <2>2 DEF ApplyConfirm, Sets
    <3>2. F \in SUBSET Packages /\ H \in SUBSET Packages
      BY RecordTypes DEF Matching, Holding
    <3> HIDE DEF F, H
    <3>3. /\ r \in CallerStates /\ r.pc = "next" /\ r.by = caller[k].by
          /\ r.op = caller[k].op /\ r.then = caller[k].then /\ r.todo = caller[k].todo
          /\ r.row = caller[k].row
      BY <1>1, <3>2 DEF CallerStates
    <3> HIDE DEF r
    <3>4. HoldsOK(r)
      BY <1>1, <2>1, <3>3 DEF HoldsOK
    <3>5. ever' \in Histories /\ ever'.overlapped = ever.overlapped
      BY <3>1, RecordTypes DEF Histories, Confirming, Dismissing
    <3> QED BY <2>1, <3>1, <3>3, <3>4, <3>5, <1>3, RecordTypes
  <2>3. CASE ~Pending
    <3>1. Finished(k) /\ UNCHANGED ever
      BY <1>5, <2>3 DEF ApplyConfirm
    <3>2. PICK r \in CallerStates :
           /\ caller' = [caller EXCEPT ![k] = r] /\ HoldsOK(r)
           /\ r.pc \in {"idle", "label"}
      BY <1>1, <2>1, <3>1, FinishedCall
    <3> QED BY <2>1, <3>1, <3>2, <1>3, RecordTypes
  <2> QED BY <2>2, <2>3
<1>6. CASE SaveConfirmed(k)
  <2>1. /\ caller[k].pc = "confirm" /\ UNCHANGED ever /\ Finished(k)
        /\ letter' = [letter EXCEPT !.st = "confirmed",
                              !.marked = caller[k].had \cup caller[k].marked]
    BY <1>6 DEF SaveConfirmed
  <2>2. letter' \in [certs : SUBSET Certs, marked : SUBSET Packages, done : BOOLEAN,
                     st : {"none", "pending", "confirmed", "dismissed"}]
    BY <1>2, <2>1, RecordTypes
  <2>3. PICK r \in CallerStates :
         /\ caller' = [caller EXCEPT ![k] = r] /\ HoldsOK(r)
         /\ r.pc \in {"idle", "label"}
    BY <1>1, <2>1, FinishedCall
  <2> QED BY <2>1, <2>2, <2>3, <1>3, RecordTypes
<1>7. CASE LabelMail(k)
  <2>1. letter' = [letter EXCEPT !.done = TRUE] /\ caller' = [caller EXCEPT ![k] = AtRest]
        /\ UNCHANGED ever
    BY <1>7 DEF LabelMail, Sets
  <2>2. letter' \in [certs : SUBSET Certs, marked : SUBSET Packages, done : BOOLEAN,
                     st : {"none", "pending", "confirmed", "dismissed"}]
    BY <2>1, RecordTypes
  <2> QED BY <2>1, <2>2, <1>3, RecordTypes, RestCall
<1>8. CASE SaveDismissed(k)
  <2>1. /\ letter' = [letter EXCEPT !.st = "dismissed", !.marked = caller[k].had]
        /\ caller' = [caller EXCEPT ![k] = AtRest] /\ UNCHANGED ever
    BY <1>8 DEF SaveDismissed, Sets
  <2>2. letter' \in [certs : SUBSET Certs, marked : SUBSET Packages, done : BOOLEAN,
                     st : {"none", "pending", "confirmed", "dismissed"}]
    BY <1>2, <2>1, RecordTypes
  <2> QED BY <2>1, <2>2, <1>3, RecordTypes, RestCall
<1> QED BY <1>4, <1>5, <1>6, <1>7, <1>8

LEMMA NextPackageBase ==
  ASSUME IntakeBase, NEW k \in Callers, NextPackage(k)
  PROVE  IntakeBase'
<1>1. /\ caller[k] \in CallerStates /\ HoldsOK(caller[k]) /\ RecordsOK
      /\ caller[k].pc = "next"
      /\ UNCHANGED <<parcel, slab, path, letter, ever, calls, slips>>
  BY CallerFacts DEF NextPackage, records
<1>2. caller[k].by # "none" /\ caller[k].then # "next" /\ caller[k].found \in SUBSET Packages
  BY <1>1 DEF HoldsOK, CallerStates
<1>3. ASSUME NEW r \in CallerStates, caller' = [caller EXCEPT ![k] = r], HoldsOK(r),
             r.pc \in {"cycles", "save", "items"} =>
               Recent(r, parcel[r.p], slab[r.p], ever.overlapped)
      PROVE  IntakeBase'
  BY <1>1, <1>3, RecordTypes, QuietCall
<1>4. CASE caller[k].found = {}
  <2> DEFINE r == [caller[k] EXCEPT !.pc = "label"]
             e == [caller[k] EXCEPT !.pc = "confirm"]
  <2>2. r \in CallerStates /\ HoldsOK(r) /\ r.pc = "label"
    BY <1>1, MailGoes
  <2>3. e \in CallerStates /\ HoldsOK(e) /\ e.pc = "confirm"
    BY <1>1, MailGoes
  <2>4. caller' = [caller EXCEPT ![k] = r] \/ caller' = [caller EXCEPT ![k] = e]
    BY <1>4 DEF NextPackage, Goto, Sets
  <2> HIDE DEF r, e
  <2> QED BY <2>2, <2>3, <2>4, <1>3
<1>5. CASE caller[k].found # {}
  <2> DEFINE s(p) == [caller[k] EXCEPT !.found = @ \ {p}]
             t(p) == [s(p) EXCEPT !.pc = "save"]
             e(p) == With(t(p), "arrive", p, ToReview(p), "next")
  <2>1. PICK p \in caller[k].found :
          caller' = [caller EXCEPT ![k] = IF Arrivable(p) THEN e(p) ELSE s(p)]
    BY <1>5 DEF NextPackage, Sets
  <2>2. p \in Packages /\ caller[k].found \ {p} \in SUBSET Packages
    BY <1>2, <2>1
  <2>3. /\ s(p) \in CallerStates /\ s(p).pc = "next" /\ s(p).by = caller[k].by
        /\ s(p).op = caller[k].op /\ s(p).then = caller[k].then
        /\ s(p).todo = caller[k].todo /\ s(p).row = caller[k].row
    BY <1>1, <2>2 DEF CallerStates
  <2>4. t(p) \in CallerStates /\ t(p).pc = "save" /\ t(p).by = caller[k].by
    BY <2>3 DEF CallerStates
  <2>5. ToReview(p) \in SUBSET Certs
    BY DEF ToReview, On
  <2> HIDE DEF s, t
  <2>6. CASE Arrivable(p)
    <3>1. /\ e(p) \in CallerStates /\ e(p).pc = "save" /\ e(p).op = "arrive"
          /\ e(p).then = "next" /\ e(p).p = p /\ e(p).row = parcel[p]
          /\ e(p).gen = slab[p].gen /\ e(p).todo = ToReview(p) /\ e(p).by = caller[k].by
      BY <1>1, <2>2, <2>4, <2>5, ReadsPackage
    <3> DEFINE r == e(p)
    <3>2. caller' = [caller EXCEPT ![k] = r]
      BY <2>1, <2>6
    <3>5. /\ r \in CallerStates /\ r.pc = "save" /\ r.op = "arrive"
          /\ r.then = "next" /\ r.p = p /\ r.row = parcel[p]
          /\ r.gen = slab[p].gen /\ r.todo = ToReview(p) /\ r.by = caller[k].by
      BY <3>1
    <3> HIDE DEF r, e
    <3>3. HoldsOK(r)
      BY <1>2, <2>2, <2>6, <3>5 DEF HoldsOK, Arrivable
    <3>4. Recent(r, parcel[r.p], slab[r.p], ever.overlapped)
      BY <1>1, <2>2, <3>5, FreshRecent DEF ToReview
    <3> QED BY <3>2, <3>3, <3>4, <3>5, <1>3
  <2>7. CASE ~Arrivable(p)
    <3>1. caller' = [caller EXCEPT ![k] = s(p)]
      BY <2>1, <2>7
    <3>2. HoldsOK(s(p))
      BY <1>1, <2>3 DEF HoldsOK
    <3> QED BY <2>3, <3>1, <3>2, <1>3
  <2> QED BY <2>6, <2>7
<1> QED BY <1>4, <1>5
-----------------------------------------------------------------------------
(* The direct mint                                                         *)

LEMMA MintReserves ==
  ASSUME IntakeBase, NEW k \in Callers, NEW c \in Certs,
         StartDirectMint(k, c) \/ ReservePath(k, c)
  PROVE  IntakeBase'
<1>1. CASE StartDirectMint(k, c)
  <2> DEFINE S == {c}
             r == [AtRest EXCEPT !.pc = "reserve", !.certs = S]
             R == UNION {{c} \cap caller[j].certs : j \in Shipping}
  <2>1. /\ UNCHANGED <<parcel, slab, path, letter, slips>> /\ calls' = calls + 1
        /\ caller' = [caller EXCEPT ![k] = r]
        /\ ever' = [ever EXCEPT !.raced = @ \cup R]
    BY <1>1 DEF StartDirectMint, Begins, NextCall, Sets, records
  <2>2. S \in SUBSET Certs /\ R \in SUBSET Certs
    OBVIOUS
  <2>3. ever' \in Histories /\ ever'.overlapped = ever.overlapped
    BY <2>1, <2>2, RecordTypes, RacedMore
  <2> HIDE DEF S, R
  <2>4. r \in CallerStates
    <3>1. AtRest \in CallerStates
      BY RestCall
    <3> QED BY <2>2, <3>1 DEF CallerStates
  <2>5. /\ r.pc = "reserve" /\ r.op = "none" /\ r.then = "idle" /\ r.todo = {}
    BY DEF AtRest
  <2> HIDE DEF r
  <2>6. HoldsOK(r) /\ calls' \in Nat
    BY <2>1, <2>5, RecordTypes DEF HoldsOK
  <2> QED BY <2>1, <2>3, <2>4, <2>5, <2>6, RecordTypes, QuietCall
<1>2. CASE ReservePath(k, c)
  <2>1. /\ UNCHANGED <<parcel, slab, letter, ever, calls, slips>>
        /\ caller[k].pc = "reserve" /\ caller[k] \in CallerStates /\ HoldsOK(caller[k])
    BY <1>2, CallerFacts DEF ReservePath
  <2>2. CASE caller' = [caller EXCEPT ![k] = AtRest] /\ path' = path
    BY <2>1, <2>2, RestCall, RecordTypes, QuietCall
  <2>3. CASE ~(caller' = [caller EXCEPT ![k] = AtRest] /\ path' = path)
    <3> DEFINE r == [caller[k] EXCEPT !.pc = "attach"]
               n == path[c].n + 1
    <3>1. /\ caller' = [caller EXCEPT ![k] = r] /\ path[c].n # MaxPaths
          /\ path' = [path EXCEPT ![c] = [n |-> n, open |-> TRUE]]
      BY <1>2, <2>3 DEF ReservePath, Goto, Sets
    <3>2. n \in 0..MaxPaths
      <4>1. path[c].n \in 0..MaxPaths
        BY RecordTypes
      <4> QED BY <3>1, <4>1, IntakeAssumption
    <3> HIDE DEF n
    <3>3. path' \in [Certs -> [n : 0..MaxPaths, open : BOOLEAN]]
      BY <3>1, <3>2, RecordTypes
    <3>4. /\ r \in CallerStates /\ r.pc = "attach" /\ r.op = caller[k].op
          /\ r.then = caller[k].then /\ r.todo = caller[k].todo /\ r.row = caller[k].row
      BY <2>1 DEF CallerStates
    <3> HIDE DEF r
    <3>5. HoldsOK(r)
      BY <2>1, <3>4 DEF HoldsOK
    <3> QED BY <2>1, <3>1, <3>3, <3>4, <3>5, RecordTypes, QuietCall
  <2> QED BY <2>2, <2>3
<1> QED BY <1>1, <1>2

\* attachCycleForCert and markItemCompletedForCycle find an item.
LEMMA MintFinds ==
  ASSUME IntakeBase, NEW k \in Callers, FindShipped(k) \/ FindMinted(k)
  PROVE  IntakeBase'
<1>1. /\ caller[k] \in CallerStates /\ HoldsOK(caller[k]) /\ RecordsOK
      /\ caller[k].pc \in {"attach", "find"}
      /\ UNCHANGED <<parcel, slab, path, letter, ever, calls, slips>>
  BY CallerFacts DEF FindShipped, FindMinted, records
<1>2. ASSUME NEW r \in CallerStates, caller' = [caller EXCEPT ![k] = r], HoldsOK(r),
             r.pc \notin {"cycles", "save", "items"}
      PROVE  IntakeBase'
  BY <1>1, <1>2, RecordTypes, QuietCall
<1>3. ASSUME caller' = [caller EXCEPT ![k] = Resumes(caller[k], "mint")]
             \/ caller' = [caller EXCEPT ![k] = Resumes(caller[k], "clear")]
      PROVE  IntakeBase'
  <2> DEFINE r == Resumes(caller[k], "mint")
             e == Resumes(caller[k], "clear")
  <2>1. r \in CallerStates /\ HoldsOK(r) /\ r.pc = "mint"
    BY <1>1, ResumesCall
  <2>2. e \in CallerStates /\ HoldsOK(e) /\ e.pc = "clear"
    BY <1>1, ResumesCall
  <2> HIDE DEF r, e
  <2>3. caller' = [caller EXCEPT ![k] = r] \/ caller' = [caller EXCEPT ![k] = e]
    BY <1>3 DEF r, e
  <2> QED BY <2>1, <2>2, <2>3, <1>2
<1>4. ASSUME NEW c \in Certs, NEW p \in Packages, NEW q \in {"link", "complete"},
             NEW i \in SlabItems,
             q = "link" => i.st = "minting" /\ slab[p].item[c].st \notin Ended,
             q = "complete" => i.st = "completed",
             slab[p].item[c].st # "none",
             caller' = [caller EXCEPT ![k] =
                          [caller[k] EXCEPT !.pc = q, !.p = p, !.gen = slab[p].gen,
                            !.was = slab[p].item[c], !.item = i]]
      PROVE  IntakeBase'
  <2> DEFINE g == slab[p].gen
             w == slab[p].item[c]
             d == [caller[k] EXCEPT !.pc = q]
             r == [d EXCEPT !.p = p, !.gen = g, !.was = w, !.item = i]
  <2>1. g \in Nat /\ w \in SlabItems /\ p \in Packages \cup {0}
    BY <1>1, <1>4 DEF RecordsOK
  <2>7. w.st # "none" /\ (q = "link" => w.st \notin Ended)
    BY <1>4
  <2>2. caller' = [caller EXCEPT ![k] = r]
    BY <1>4, <1>1 DEF CallerStates
  <2> HIDE DEF g, w
  <2>3. /\ d \in CallerStates /\ d.pc = q /\ d.op = caller[k].op
        /\ d.then = caller[k].then /\ d.todo = caller[k].todo /\ d.row = caller[k].row
    BY <1>1, <1>4 DEF CallerStates
  <2> HIDE DEF d
  <2>4. /\ r \in CallerStates /\ r.pc = q /\ r.op = caller[k].op
        /\ r.then = caller[k].then /\ r.todo = caller[k].todo /\ r.row = caller[k].row
        /\ r.p = p /\ r.was = w /\ r.item = i
    BY <1>4, <2>1, <2>3 DEF CallerStates
  <2> HIDE DEF r
  <2>5. HoldsOK(r)
    BY <1>1, <1>4, <2>7, <2>4 DEF HoldsOK
  <2>6. r.pc \notin {"cycles", "save", "items"}
    BY <1>4, <2>4
  <2> QED BY <2>2, <2>4, <2>5, <2>6, <1>2
<1>5. CASE FindShipped(k)
  <2> DEFINE here(c) == {p \in Packages :
                      /\ parcel[p].st \in {"in_transit", "psa_reviewing"}
                      /\ c \in Inside(p) /\ St(p, c) \notin Ended}
             it(c) == [st |-> "minting", cyc |-> path[c].n]
  <2>1. PICK c \in caller[k].certs :
          IF here(c) = {} THEN caller' = [caller EXCEPT ![k] = Resumes(caller[k], "mint")]
          ELSE \E p \in here(c) : caller' = [caller EXCEPT ![k] =
                 [caller[k] EXCEPT !.pc = "link", !.p = p, !.gen = slab[p].gen,
                            !.was = slab[p].item[c], !.item = it(c)]]
    BY <1>5 DEF FindShipped, Sets
  <2>2. c \in Certs
    BY <1>1, <2>1 DEF CallerStates
  <2>3. it(c) \in SlabItems /\ it(c).st = "minting"
    BY <1>1, <2>2 DEF SlabItems, RecordsOK
  <2>4. CASE here(c) = {}
    BY <2>1, <2>4, <1>3
  <2>5. CASE here(c) # {}
    <3>1. PICK p \in here(c) : caller' = [caller EXCEPT ![k] =
                 [caller[k] EXCEPT !.pc = "link", !.p = p, !.gen = slab[p].gen,
                            !.was = slab[p].item[c], !.item = it(c)]]
      BY <2>1, <2>5
    <3>2. p \in Packages /\ slab[p].item[c].st # "none" /\ slab[p].item[c].st \notin Ended
      BY <3>1 DEF Inside, St
    <3> DEFINE i == it(c)
    <3>3. i \in SlabItems /\ i.st = "minting" /\ caller' = [caller EXCEPT ![k] =
                 [caller[k] EXCEPT !.pc = "link", !.p = p, !.gen = slab[p].gen,
                            !.was = slab[p].item[c], !.item = i]]
      BY <2>3, <3>1
    <3> HIDE DEF i, here, it
    <3> QED BY <2>2, <3>2, <3>3, <1>4
  <2> QED BY <2>4, <2>5
<1>6. CASE FindMinted(k)
  <2> DEFINE here(c) == {p \in Packages : slab[p].item[c].cyc = caller[k].item.cyc}
             i == [caller[k].item EXCEPT !.st = "completed"]
  <2>1. PICK c \in caller[k].certs :
          IF here(c) = {} THEN caller' = [caller EXCEPT ![k] = Resumes(caller[k], "clear")]
          ELSE \E p \in here(c) : caller' = [caller EXCEPT ![k] =
                 [caller[k] EXCEPT !.pc = "complete", !.p = p, !.gen = slab[p].gen,
                            !.was = slab[p].item[c], !.item.st = "completed"]]
    BY <1>6 DEF FindMinted, Sets
  <2>2. c \in Certs /\ caller[k].item \in SlabItems
    BY <1>1, <2>1 DEF CallerStates
  <2>3. i \in SlabItems /\ i.st = "completed"
    BY <2>2 DEF SlabItems
  <2>6. caller[k].item.cyc # 0
    BY <1>1, <1>6 DEF HoldsOK, FindMinted
  <2>4. CASE here(c) = {}
    BY <2>1, <2>4, <1>3
  <2>5. CASE here(c) # {}
    <3>1. PICK p \in here(c) : caller' = [caller EXCEPT ![k] =
                 [caller[k] EXCEPT !.pc = "complete", !.p = p, !.gen = slab[p].gen,
                            !.was = slab[p].item[c], !.item.st = "completed"]]
      BY <2>1, <2>5
    <3>2. p \in Packages /\ slab[p].item[c].st # "none"
      BY <1>1, <2>2, <2>6, <3>1 DEF RecordsOK
    <3>3. caller' = [caller EXCEPT ![k] =
                 [caller[k] EXCEPT !.pc = "complete", !.p = p, !.gen = slab[p].gen,
                            !.was = slab[p].item[c], !.item = i]]
      BY <1>1, <3>1 DEF CallerStates
    <3> HIDE DEF i, here
    <3> QED BY <2>2, <2>3, <3>2, <3>3, <1>4
  <2> QED BY <2>4, <2>5
<1> QED BY <1>5, <1>6

\* The direct mint saves the package of its card.
LEMMA MintSaves ==
  ASSUME IntakeBase, NEW k \in Callers, caller[k].p \in Packages,
         NEW op \in {"move", "complete"}, NEW then \in {"mint", "clear"},
         op = "move" => parcel[caller[k].p].st = "in_transit",
         UNCHANGED <<parcel, slab, path, letter, ever, calls, slips>>,
         caller' = [caller EXCEPT ![k] =
           [With([caller[k] EXCEPT !.pc = "save"], op, caller[k].p, {}, then)
              EXCEPT !.certs = caller[k].certs, !.was = Unlisted]]
  PROVE  IntakeBase'
<1> DEFINE p == caller[k].p
           C == caller[k].certs
           u == Unlisted
           d == [caller[k] EXCEPT !.pc = "save"]
           w == With(d, op, p, {}, then)
           r == [w EXCEPT !.certs = C, !.was = u]
<1>1. /\ RecordsOK /\ caller[k] \in CallerStates /\ p \in Packages
      /\ op \in {"none", "slip", "cancel", "track", "arrive", "move", "complete"}
      /\ then \in {"idle", "next", "mint", "clear"} /\ {} \in SUBSET Certs
  BY CallerFacts
<1>2. C \in SUBSET Certs /\ u \in SlabItems
  BY <1>1, IntakeAssumption DEF CallerStates, Unlisted, SlabItems
<1>3. d \in CallerStates /\ d.pc = "save"
  BY <1>1 DEF CallerStates
<1>4. caller' = [caller EXCEPT ![k] = r] /\ (op = "move" => parcel[p].st = "in_transit")
  OBVIOUS
<1> HIDE DEF p, C, u, d
<1>5. /\ w \in CallerStates /\ w.pc = "save" /\ w.op = op /\ w.then = then
      /\ w.p = p /\ w.row = parcel[p] /\ w.gen = slab[p].gen /\ w.todo = {}
  BY <1>1, <1>3, ReadsPackage
<1> HIDE DEF w
<1>6. /\ r \in CallerStates /\ r.pc = "save" /\ r.op = op /\ r.then = then
      /\ r.p = p /\ r.row = parcel[p] /\ r.gen = slab[p].gen /\ r.todo = {}
  BY <1>2, <1>5 DEF CallerStates
<1> HIDE DEF r
<1>7. HoldsOK(r)
  BY <1>1, <1>4, <1>6 DEF HoldsOK, Underway
<1>8. Recent(r, parcel[r.p], slab[r.p], ever.overlapped)
  BY <1>1, <1>6, FreshRecent
<1> QED BY <1>4, <1>6, <1>7, <1>8, RecordTypes, QuietCall

\* The places where the direct mint only goes on, or ends.
LEMMA MintGoesOn ==
  ASSUME IntakeBase, NEW k \in Callers,
         MovePackage(k) \/ MintDirect(k) \/ GiveUpMint(k) \/ CompletePackage(k)
  PROVE  IntakeBase'
<1>1. caller[k] \in CallerStates /\ HoldsOK(caller[k]) /\ RecordsOK
  BY CallerFacts
<1>2. ASSUME NEW q \in {"mint", "clear", "find"}, q = "find" => caller[k].item.cyc # 0,
             caller' = [caller EXCEPT ![k] = Resumes(caller[k], q)],
             UNCHANGED <<parcel, slab, path, letter, ever, calls, slips>>
      PROVE  IntakeBase'
  <2> DEFINE r == Resumes(caller[k], q)
  <2>1. r \in CallerStates /\ HoldsOK(r) /\ r.pc = q /\ caller' = [caller EXCEPT ![k] = r]
    BY <1>1, <1>2, ResumesCall
  <2> HIDE DEF r
  <2>2. r.pc \notin {"cycles", "save", "items"}
    BY <2>1, <1>2
  <2> QED BY <1>2, <2>1, <2>2, RecordTypes, QuietCall
<1>3. CASE MovePackage(k)
  <2>1. /\ caller[k].p \in Packages
        /\ UNCHANGED <<parcel, slab, path, letter, ever, calls, slips>>
    BY <1>1, <1>3 DEF MovePackage, records, HoldsOK
  <2>2. CASE parcel[caller[k].p].st = "in_transit"
    <3>1. caller' = [caller EXCEPT ![k] =
           [With([caller[k] EXCEPT !.pc = "save"], "move", caller[k].p, {}, "mint")
              EXCEPT !.certs = caller[k].certs, !.was = Unlisted]]
      BY <1>3, <2>2 DEF MovePackage, Sets
    <3> QED BY <2>1, <2>2, <3>1, MintSaves
  <2>3. CASE parcel[caller[k].p].st # "in_transit"
    <3>1. caller' = [caller EXCEPT ![k] = Resumes(caller[k], "mint")]
      BY <1>3, <2>3 DEF MovePackage, Sets
    <3> QED BY <2>1, <3>1, <1>2
  <2> QED BY <2>2, <2>3
<1>4. CASE MintDirect(k)
  <2>1. UNCHANGED <<parcel, slab, path, letter, ever, calls, slips>>
    BY <1>4 DEF MintDirect, records
  <2>2. CASE caller[k].item.cyc = 0
    <3>1. caller' = [caller EXCEPT ![k] = Resumes(caller[k], "clear")]
      BY <1>4, <2>2 DEF MintDirect, Sets
    <3> QED BY <2>1, <3>1, <1>2
  <2>3. CASE caller[k].item.cyc # 0
    <3>1. caller' = [caller EXCEPT ![k] = Resumes(caller[k], "find")]
      BY <1>4, <2>3 DEF MintDirect, Sets
    <3> QED BY <2>1, <2>3, <3>1, <1>2
  <2> QED BY <2>2, <2>3
<1>5. CASE GiveUpMint(k)
  <2>1. /\ UNCHANGED <<parcel, slab, letter, ever, calls>> /\ slips' = slips + 1
        /\ caller' = [caller EXCEPT ![k] = AtRest]
        /\ path' = [c \in Certs |-> IF c \in caller[k].certs
                              THEN [path[c] EXCEPT !.open = FALSE] ELSE path[c]]
    BY <1>5 DEF GiveUpMint, Sets
  <2>2. path' \in [Certs -> [n : 0..MaxPaths, open : BOOLEAN]]
    BY <2>1, RecordTypes
  <2> QED BY <2>1, <2>2, RestCall, RecordTypes, QuietCall
<1>6. CASE CompletePackage(k)
  <2>1. /\ caller[k].p \in Packages
        /\ UNCHANGED <<parcel, slab, path, letter, ever, calls, slips>>
    BY <1>1, <1>6 DEF CompletePackage, records, HoldsOK
  <2>2. CASE Inside(caller[k].p) = On(caller[k].p, Ended)
    <3>1. caller' = [caller EXCEPT ![k] =
           [With([caller[k] EXCEPT !.pc = "save"], "complete", caller[k].p, {}, "clear")
              EXCEPT !.certs = caller[k].certs, !.was = Unlisted]]
      BY <1>6, <2>2 DEF CompletePackage, Sets
    <3> QED BY <2>1, <3>1, MintSaves
  <2>3. CASE Inside(caller[k].p) # On(caller[k].p, Ended)
    <3>1. caller' = [caller EXCEPT ![k] = Resumes(caller[k], "clear")]
      BY <1>6, <2>3 DEF CompletePackage, Sets
    <3> QED BY <2>1, <3>1, <1>2
  <2> QED BY <2>2, <2>3
<1> QED BY <1>3, <1>4, <1>5, <1>6

\* cancelPreShipPackagesForCert finds the packages it will cancel.
LEMMA FindPreShipBase ==
  ASSUME IntakeBase, NEW k \in Callers, FindPreShip(k)
  PROVE  IntakeBase'
<1> DEFINE F == {q \in Packages : /\ parcel[q].st = "awaiting_shipment"
                                  /\ Inside(q) \cap caller[k].certs # {}}
           R == {[p |-> p, row |-> parcel[p]] : p \in F}
           r == [AtRest EXCEPT !.pc = "cancel", !.rows = R]
<1>1. /\ UNCHANGED <<parcel, slab, path, letter, ever, calls, slips>>
      /\ caller' = [caller EXCEPT ![k] = r]
  BY DEF FindPreShip, Sets, records
<1>2. R \in SUBSET [p : Packages, row : ParcelRows]
      /\ \A f \in R : f.row.st = "awaiting_shipment"
  BY DEF IntakeBase, RecordsOK
<1> HIDE DEF R
<1>3. r \in CallerStates
  <2>1. AtRest \in CallerStates
    BY RestCall
  <2> QED BY <1>2, <2>1 DEF CallerStates
<1>4. /\ r.pc = "cancel" /\ r.op = "none" /\ r.then = "idle" /\ r.todo = {}
      /\ r.rows = R
  BY DEF AtRest
<1> HIDE DEF r
<1>5. HoldsOK(r)
  BY <1>2, <1>4 DEF HoldsOK
<1> QED BY <1>1, <1>3, <1>4, <1>5, RecordTypes, QuietCall

\* Steps of no call.
LEMMA CallsStay ==
  ASSUME IntakeBase, UNCHANGED <<parcel, slab, caller>>,
         path' \in [Certs -> [n : 0..MaxPaths, open : BOOLEAN]],
         letter' = letter, ever' = ever, calls' = calls, slips' = slips
  PROVE  IntakeBase'
<1>1. RecordsOK'
  BY DEF IntakeBase, RecordsOK
<1>2. CallsOK'
  BY DEF IntakeBase, CallsOK
<1> QED BY <1>1, <1>2 DEF IntakeBase

LEMMA EndCycleBase ==
  ASSUME IntakeBase, NEW c \in Certs, EndCycle(c)
  PROVE  IntakeBase'
<1>1. /\ UNCHANGED <<parcel, slab, letter, caller, ever, calls, slips>>
      /\ path' = [path EXCEPT ![c].open = FALSE]
  BY DEF EndCycle
<1>2. path' \in [Certs -> [n : 0..MaxPaths, open : BOOLEAN]]
  BY <1>1, RecordTypes
<1> QED BY <1>1, <1>2, CallsStay
-----------------------------------------------------------------------------
(* Faults                                                                  *)

LEMMA HalfDonePackages ==
  ASSUME NEW r \in CallerStates, HoldsOK(r)
  PROVE  HalfDone(r) \in SUBSET Packages
BY DEF HalfDone, HoldsOK, CallerStates

LEMMA IntakeFailsBase ==
  ASSUME IntakeBase, NEW k \in Callers, IntakeFails(k)
  PROVE  IntakeBase'
<1>1. caller[k] \in CallerStates /\ HoldsOK(caller[k]) /\ RecordsOK
  BY CallerFacts
<1> DEFINE H == HalfDone(caller[k])
           t == Throws(caller[k])
           d == [AtRest EXCEPT !.by = "auto"]
           l == [d EXCEPT !.pc = "label"]
<1>2. /\ UNCHANGED <<parcel, slab, path, letter, calls>> /\ slips' = slips + 1
      /\ ever' = [ever EXCEPT !.torn = @ \cup H]
      /\ caller' = [caller EXCEPT ![k] = t] \/ caller' = [caller EXCEPT ![k] = l]
  BY DEF IntakeFails, Sets, records, AtRest
<1>3. H \in SUBSET Packages
  BY <1>1, HalfDonePackages
<1> HIDE DEF H
<1>4. ever' \in Histories /\ ever'.overlapped = ever.overlapped /\ slips' \in Nat
  BY <1>2, <1>3, RecordTypes DEF Histories
<1>5. t \in CallerStates /\ HoldsOK(t) /\ t.pc \notin {"cycles", "save", "items"}
  BY <1>1, CallEndsOK DEF HoldsOK
<1>6. l \in CallerStates /\ HoldsOK(l) /\ l.pc \notin {"cycles", "save", "items"}
  <2>1. d \in CallerStates
    <3>1. AtRest \in CallerStates
      BY RestCall
    <3> QED BY <3>1 DEF CallerStates
  <2>2. l.pc = "label" /\ l.op = "none" /\ l.then = "idle" /\ l.todo = {} /\ l.by = "auto"
    BY DEF AtRest
  <2> HIDE DEF d
  <2>3. l \in CallerStates
    BY <2>1 DEF CallerStates
  <2> HIDE DEF l
  <2> QED BY <2>2, <2>3 DEF HoldsOK
<1> HIDE DEF t, l
<1> QED BY <1>2, <1>4, <1>5, <1>6, RecordTypes, QuietCall

LEMMA IntakeRestartBase ==
  ASSUME IntakeBase, IntakeRestart
  PROVE  IntakeBase'
<1> DEFINE H == UNION {HalfDone(caller[k]) : k \in Callers}
<1>1. /\ UNCHANGED <<parcel, slab, path, letter, calls>> /\ slips' = slips + 1
      /\ ever' = [ever EXCEPT !.torn = @ \cup H]
      /\ caller' = [k \in Callers |-> AtRest]
  BY DEF IntakeRestart, records
<1>2. \A k \in Callers : HalfDone(caller[k]) \in SUBSET Packages
  BY CallerFacts, HalfDonePackages
<1>3. H \in SUBSET Packages
  BY <1>2
<1> HIDE DEF H
<1>4. ever' \in Histories /\ slips' \in Nat
  BY <1>1, <1>3, RecordTypes DEF Histories
<1>5. RecordsOK'
  BY <1>1, <1>4 DEF IntakeBase, RecordsOK
<1>6. AtRest \in CallerStates /\ HoldsOK(AtRest) /\ AtRest.pc = "idle"
  BY RestCall
<1>7. caller' \in [Callers -> CallerStates] /\ \A k \in Callers : caller'[k] = AtRest
  BY <1>1, <1>6
<1>8. CallsOK'
  BY <1>6, <1>7 DEF CallsOK
<1> QED BY <1>5, <1>7, <1>8 DEF IntakeBase
-----------------------------------------------------------------------------
(* Calls that write a package                                              *)

\* A step that makes row and items of package p into y and t.
LEMMA OnePackage ==
  ASSUME IntakeBase, NEW p \in Packages, NEW y \in ParcelRows,
         NEW t \in [gen : Nat, item : [Certs -> SlabItems]],
         parcel' = [parcel EXCEPT ![p] = y], slab' = [slab EXCEPT ![p] = t],
         \A c \in Certs : t.item[c].st = "none" => t.item[c].cyc = 0,
         UNCHANGED <<path, letter>>, ever' \in Histories, calls' \in Nat, slips' \in Nat,
         ever.overlapped \subseteq ever'.overlapped, slab[p].gen <= t.gen,
         p \notin ever'.overlapped => Keep(parcel[p], slab[p], y, t)
  PROVE  RecordsOK' /\ KeepsPackages
<1>1. /\ parcel \in [Packages -> ParcelRows]
      /\ slab \in [Packages -> [gen : Nat, item : [Certs -> SlabItems]]]
  BY DEF IntakeBase, RecordsOK
<1>2. \A q \in Packages : /\ parcel'[q] = IF q = p THEN y ELSE parcel[q]
                          /\ slab'[q] = IF q = p THEN t ELSE slab[q]
  BY <1>1
<1>3. /\ parcel' \in [Packages -> ParcelRows]
      /\ slab' \in [Packages -> [gen : Nat, item : [Certs -> SlabItems]]]
  BY <1>1
<1>4. RecordsOK'
  BY <1>2, <1>3 DEF IntakeBase, RecordsOK
<1>5. \A q \in Packages : slab[q].gen \in Nat
  BY <1>1
<1>6. ASSUME NEW q \in Packages
      PROVE  /\ slab[q].gen <= slab'[q].gen
             /\ q \notin ever'.overlapped =>
                  Keep(parcel[q], slab[q], parcel'[q], slab'[q])
  <2>1. CASE q = p
    BY <1>2, <2>1
  <2>2. CASE q # p
    <3>1. parcel'[q] = parcel[q] /\ slab'[q] = slab[q]
      BY <1>2, <2>2
    <3> QED BY <1>5, <3>1 DEF Keep
  <2> QED BY <2>1, <2>2
<1> QED BY <1>4, <1>6 DEF KeepsPackages

\* The history of a save that may write over something.
LEMMA OverlappedMore ==
  ASSUME ever \in Histories, NEW S \in SUBSET Packages
  PROVE  LET e == [ever EXCEPT !.overlapped = @ \cup S] IN
         /\ e \in Histories /\ e.overlapped = ever.overlapped \cup S
         /\ e.shipped = ever.shipped /\ e.early = ever.early /\ e.torn = ever.torn
         /\ e.moved = ever.moved /\ e.quarrel = ever.quarrel /\ e.raced = ever.raced
BY DEF Histories

LEMMA ComposedPackage ==
  ASSUME IntakeBase, NEW p \in Packages, NEW S \in SUBSET Certs, Composed(p, S),
         parcel[p].st \in Packing, NEW y \in ParcelRows,
         parcel' = [parcel EXCEPT ![p] = y],
         UNCHANGED <<path, letter, ever, slips>>, calls' \in Nat
  PROVE  RecordsOK' /\ KeepsPackages
<1> DEFINE items == [c \in Certs |-> IF c \in S THEN [st |-> "confirmed", cyc |-> 0]
                                          ELSE Unlisted]
           t == [gen |-> slab[p].gen + 1, item |-> items]
<1>1. slab[p].gen \in Nat
  BY DEF IntakeBase, RecordsOK
<1>2. items \in [Certs -> SlabItems]
  BY IntakeAssumption DEF Unlisted, SlabItems
<1>3. \A c \in Certs : items[c].st = "none" => items[c].cyc = 0
  BY DEF Unlisted
<1>4. slab' = [slab EXCEPT ![p] = t]
  BY DEF Composed
<1> HIDE DEF items
<1>5. t \in [gen : Nat, item : [Certs -> SlabItems]] /\ t.gen = slab[p].gen + 1
      /\ t.item = items
  BY <1>1, <1>2
<1> HIDE DEF t
<1>6. slab[p].gen <= t.gen /\ Keep(parcel[p], slab[p], y, t)
  BY <1>1, <1>5 DEF Keep
<1>7. \A c \in Certs : t.item[c].st = "none" => t.item[c].cyc = 0
  BY <1>3, <1>5
<1> QED BY <1>4, <1>5, <1>6, <1>7, RecordTypes, OnePackage

LEMMA UpsertDraftBase ==
  ASSUME IntakeBase, NEW k \in Callers, NEW S \in SUBSET Certs, UpsertDraft(k, S)
  PROVE  IntakeBase'
<1>1. /\ UNCHANGED <<parcel, path, letter, ever, slips>> /\ calls' = calls + 1
      /\ caller[k].pc = "idle"
  BY DEF UpsertDraft, NextCall
<1>2. calls' \in Nat
  BY <1>1, RecordTypes
<1>3. CASE UNCHANGED slab
  <2> DEFINE r == [AtRest EXCEPT !.pc = "create", !.certs = S]
  <2>1. r \in CallerStates
    <3>1. AtRest \in CallerStates
      BY RestCall
    <3> QED BY <3>1 DEF CallerStates
  <2>2. r.pc = "create" /\ r.op = "none" /\ r.then = "idle" /\ r.todo = {}
    BY DEF AtRest
  <2>3. CASE caller' = [caller EXCEPT ![k] = r]
    <3> HIDE DEF r
    <3>1. HoldsOK(r)
      BY <2>2 DEF HoldsOK
    <3> QED BY <1>1, <1>2, <1>3, <2>1, <2>2, <2>3, <3>1, RecordTypes, QuietCall
  <2>4. CASE ~(caller' = [caller EXCEPT ![k] = r])
    <3>1. PICK p \in {p \in Packages : parcel[p].st = "awaiting_shipment"} :
            Composed(p, S) /\ UNCHANGED caller
      BY <2>4 DEF UpsertDraft, Sets
    <3>2. slab[p].gen \in Nat /\ slab \in [Packages -> [gen : Nat, item : [Certs -> SlabItems]]]
      BY <3>1 DEF IntakeBase, RecordsOK
    <3>3. slab'[p].gen = slab[p].gen + 1
      BY <3>1, <3>2 DEF Composed
    <3> QED BY <1>3, <3>2, <3>3
  <2> QED BY <2>3, <2>4
<1>4. CASE ~(UNCHANGED slab)
  <2>1. PICK p \in {p \in Packages : parcel[p].st = "awaiting_shipment"} :
          Composed(p, S) /\ UNCHANGED caller
    BY <1>4 DEF UpsertDraft, Sets
  <2>2. p \in Packages /\ parcel[p].st \in Packing /\ parcel[p] \in ParcelRows
        /\ parcel' = [parcel EXCEPT ![p] = parcel[p]]
    BY <1>1, <2>1 DEF IntakeBase, RecordsOK, Packing
  <2>3. RecordsOK' /\ KeepsPackages
    BY <1>1, <1>2, <2>1, <2>2, ComposedPackage
  <2>4. /\ caller[k] \in CallerStates /\ HoldsOK(caller[k])
        /\ caller' = [caller EXCEPT ![k] = caller[k]]
    BY <2>1, CallerFacts DEF IntakeBase
  <2>5. caller[k].pc \notin {"cycles", "save", "items"}
    BY <1>1
  <2> QED BY <2>3, <2>4, <2>5, CallerMoves
<1> QED BY <1>3, <1>4

LEMMA CreatePackageBase ==
  ASSUME IntakeBase, NEW k \in Callers, NEW p \in Packages, CreatePackage(k, p)
  PROVE  IntakeBase'
<1> DEFINE y == [parcel[p] EXCEPT !.st = "awaiting_shipment"]
           S == caller[k].certs
<1>1. /\ UNCHANGED <<path, letter, ever, calls, slips>> /\ Composed(p, S)
      /\ caller' = [caller EXCEPT ![k] = AtRest] /\ parcel[p].st = "none"
      /\ parcel' = [parcel EXCEPT ![p] = y]
  BY DEF CreatePackage, Sets, Exists
<1>2. S \in SUBSET Certs /\ parcel[p] \in ParcelRows /\ calls' \in Nat
  BY <1>1, CallerFacts DEF CallerStates, RecordsOK
<1>3. y \in ParcelRows
  BY <1>2 DEF ParcelRows
<1> HIDE DEF y, S
<1>4. parcel[p].st \in Packing
  BY <1>1 DEF Packing
<1>5. RecordsOK' /\ KeepsPackages
  BY <1>1, <1>2, <1>3, <1>4, ComposedPackage
<1> QED BY <1>1, <1>5, RestCall, CallerMoves

\* The row that a save writes.
LEMMA RewrittenRow ==
  ASSUME NEW row \in ParcelRows,
         NEW op \in {"slip", "cancel", "track", "arrive", "move", "complete"}
  PROVE  /\ Rewritten(op, row) \in ParcelRows
         /\ row.st \notin Packing => Rewritten(op, row).st \notin Packing
         /\ op \in {"track", "arrive"} => Rewritten(op, row).st \notin Packing
         /\ op = "slip" => Rewritten(op, row) = [st |-> row.st, paper |-> "slip"]
         /\ op = "cancel" => Rewritten(op, row) = [st |-> "cancelled", paper |-> row.paper]
         /\ op = "track" =>
              Rewritten(op, row) = [st |-> "in_transit", paper |-> "tracking"]
         /\ op \in {"arrive", "move"} =>
              Rewritten(op, row) = [st |-> "psa_reviewing", paper |-> row.paper]
         /\ op = "complete" =>
              Rewritten(op, row) = [st |-> "completed", paper |-> row.paper]
<1>1. CASE op = "slip"
  BY <1>1 DEF Rewritten, ParcelRows, Packing
<1>2. CASE op = "cancel"
  BY <1>2 DEF Rewritten, ParcelRows, Packing
<1>3. CASE op = "track"
  BY <1>3 DEF Rewritten, ParcelRows, Packing
<1>4. CASE op = "arrive"
  BY <1>4 DEF Rewritten, ParcelRows, Packing
<1>5. CASE op = "move"
  BY <1>5 DEF Rewritten, ParcelRows, Packing
<1>6. CASE op = "complete"
  BY <1>6 DEF Rewritten, ParcelRows, Packing
<1> QED BY <1>1, <1>2, <1>3, <1>4, <1>5, <1>6

\* Facts of a save that is not refused.
LEMMA SavedPackage ==
  ASSUME IntakeBase, NEW k \in Callers, SavePackage(k),
         slab[caller[k].p].gen = caller[k].gen
  PROVE  LET r == caller[k]  p == r.p  y == Rewritten(r.op, r.row) IN
         /\ r \in CallerStates /\ HoldsOK(r) /\ r.pc = "save" /\ p \in Packages
         /\ r.op \in {"slip", "cancel", "track", "arrive", "move", "complete"}
         /\ r.row \in ParcelRows /\ y \in ParcelRows
         /\ parcel' = [parcel EXCEPT ![p] = y]
         /\ caller' = [caller EXCEPT ![k] =
                        IF r.todo = {} THEN CallEnds(r) ELSE [r EXCEPT !.pc = "items"]]
         /\ UNCHANGED <<slab, path, letter, calls, slips>>
         /\ ever' \in Histories
         /\ ever'.overlapped = ever.overlapped \cup {q \in {p} : parcel[p] # r.row}
         /\ ever'.shipped = ever.shipped \cup {q \in {p} : r.op = "track"}
         /\ ever'.early = ever.early \cup {q \in {p} : r.op = "move" /\ On(p, Waiting) # {}}
         /\ ever'.moved = ever.moved \cup {q \in {p} : r.then = "next"}
         /\ ever'.torn = ever.torn /\ ever'.raced = ever.raced
         /\ ever'.quarrel = ever.quarrel
<1> DEFINE r == caller[k]
           p == r.p
           y == Rewritten(r.op, r.row)
           O == {q \in {p} : parcel[p] # r.row}
           D == {q \in {p} : r.op = "track"}
           E == {q \in {p} : r.op = "move" /\ On(p, Waiting) # {}}
           M == {q \in {p} : r.then = "next"}
<1>1. /\ r.pc = "save" /\ parcel' = [parcel EXCEPT ![p] = y]
      /\ caller' = [caller EXCEPT ![k] =
                     IF r.todo = {} THEN CallEnds(r) ELSE [r EXCEPT !.pc = "items"]]
      /\ UNCHANGED <<slab, path, letter, calls, slips>>
      /\ ever' = [ever EXCEPT !.overlapped = @ \cup O, !.shipped = @ \cup D,
                              !.early = @ \cup E, !.moved = @ \cup M]
  BY DEF SavePackage, Sets
<1>2. r \in CallerStates /\ HoldsOK(r) /\ p \in Packages /\ ever \in Histories
  BY <1>1, CallerFacts, RecordTypes
<1>3. r.op \in {"slip", "cancel", "track", "arrive", "move", "complete"}
      /\ r.row \in ParcelRows
  BY <1>1, <1>2 DEF HoldsOK, CallerStates
<1>4. y \in ParcelRows
  BY <1>3, RewrittenRow
<1>5. O \in SUBSET Packages /\ D \in SUBSET Packages /\ E \in SUBSET Packages
      /\ M \in SUBSET Packages
  BY <1>2
<1>6. /\ ever' \in Histories
      /\ ever'.overlapped = ever.overlapped \cup O /\ ever'.shipped = ever.shipped \cup D
      /\ ever'.early = ever.early \cup E /\ ever'.moved = ever.moved \cup M
      /\ ever'.torn = ever.torn /\ ever'.raced = ever.raced
      /\ ever'.quarrel = ever.quarrel
  <2> HIDE DEF O, D, E, M
  <2> QED BY <1>1, <1>2, <1>5 DEF Histories
<1> HIDE DEF y
<1>7. /\ r \in CallerStates /\ HoldsOK(r) /\ r.pc = "save" /\ p \in Packages
      /\ r.op \in {"slip", "cancel", "track", "arrive", "move", "complete"}
      /\ r.row \in ParcelRows /\ y \in ParcelRows
      /\ parcel' = [parcel EXCEPT ![p] = y]
      /\ caller' = [caller EXCEPT ![k] =
                     IF r.todo = {} THEN CallEnds(r) ELSE [r EXCEPT !.pc = "items"]]
      /\ UNCHANGED <<slab, path, letter, calls, slips>>
  BY <1>1, <1>2, <1>3, <1>4
<1> QED BY <1>6, <1>7 DEF y

LEMMA SaveThrows ==
  ASSUME IntakeBase, NEW k \in Callers, caller[k].pc \in {"save", "items"},
         caller' = [caller EXCEPT ![k] = Throws(caller[k])],
         UNCHANGED <<parcel, slab, path, letter, ever, calls, slips>>
  PROVE  IntakeBase'
<1> DEFINE t == Throws(caller[k])
<1>1. caller[k] \in CallerStates /\ HoldsOK(caller[k]) /\ caller[k].p \in Packages
  BY CallerFacts
<1>2. t \in CallerStates /\ HoldsOK(t) /\ t.pc \in {"idle", "next"}
  BY <1>1, CallEndsOK
<1>3. caller' = [caller EXCEPT ![k] = t]
  OBVIOUS
<1> HIDE DEF t
<1> QED BY <1>2, <1>3, RecordTypes, QuietCall

LEMMA SavePackageBase ==
  ASSUME IntakeBase, NEW k \in Callers, SavePackage(k)
  PROVE  IntakeBase'
<1> DEFINE r == caller[k]
           p == r.p
           y == Rewritten(r.op, r.row)
           i == [r EXCEPT !.pc = "items"]
           e == CallEnds(r)
<1>1. CASE slab[p].gen # r.gen
  <2>1. /\ r.pc = "save" /\ caller' = [caller EXCEPT ![k] = Throws(caller[k])]
        /\ UNCHANGED <<parcel, slab, path, letter, ever, calls, slips>>
    BY <1>1 DEF SavePackage, Sets
  <2> QED BY <2>1, SaveThrows
<1>2. CASE slab[p].gen = r.gen
  <2>1. /\ r \in CallerStates /\ HoldsOK(r) /\ r.pc = "save" /\ p \in Packages
        /\ r.op \in {"slip", "cancel", "track", "arrive", "move", "complete"}
        /\ r.row \in ParcelRows /\ y \in ParcelRows
        /\ parcel' = [parcel EXCEPT ![p] = y]
        /\ caller' = [caller EXCEPT ![k] = IF r.todo = {} THEN e ELSE i]
        /\ UNCHANGED <<slab, path, letter, calls, slips>>
        /\ ever' \in Histories
        /\ ever'.overlapped = ever.overlapped \cup {q \in {p} : parcel[p] # r.row}
    BY <1>2, SavedPackage
  <2>2. /\ slab[p] \in [gen : Nat, item : [Certs -> SlabItems]]
        /\ slab' = [slab EXCEPT ![p] = slab[p]] /\ slab[p].gen \in Nat
        /\ \A c \in Certs : slab[p].item[c].st = "none" => slab[p].item[c].cyc = 0
    BY <2>1 DEF IntakeBase, RecordsOK
  <2>3. ASSUME p \notin ever'.overlapped PROVE Keep(parcel[p], slab[p], y, slab[p])
    <3>1. parcel[p] = r.row
      BY <2>1, <2>3
    <3>2. r.row.st \notin Packing => y.st \notin Packing
      BY <2>1, RewrittenRow
    <3> HIDE DEF y
    <3> QED BY <3>1, <3>2 DEF Keep
  <2>4. RecordsOK' /\ KeepsPackages
    <3>1. ever.overlapped \subseteq ever'.overlapped /\ slab[p].gen <= slab[p].gen
          /\ calls' \in Nat /\ slips' \in Nat
      BY <2>1, <2>2, RecordTypes
    <3> HIDE DEF y, i, e
    <3> QED BY <2>1, <2>2, <2>3, <3>1, OnePackage
  <2>5. CASE r.todo = {}
    <3>1. e \in CallerStates /\ HoldsOK(e) /\ e.pc \notin {"cycles", "save", "items"}
      BY <2>1, CallEndsOK
    <3>2. caller' = [caller EXCEPT ![k] = e]
      BY <2>1, <2>5
    <3> HIDE DEF e
    <3> QED BY <2>4, <3>1, <3>2, CallerMoves
  <2>6. CASE r.todo # {}
    <3>1. /\ i \in CallerStates /\ i.pc = "items" /\ i.op = r.op /\ i.p = r.p
          /\ i.then = r.then /\ i.row = r.row /\ i.gen = r.gen
          /\ i.certs = r.certs /\ i.todo = r.todo /\ i.by = r.by
      BY <2>1 DEF CallerStates
    <3>2. caller' = [caller EXCEPT ![k] = i]
      BY <2>1, <2>6
    <3> HIDE DEF i
    <3>3. HoldsOK(i) /\ r.op \in {"track", "arrive"}
      BY <2>1, <2>6, <3>1 DEF HoldsOK
    <3>4. /\ parcel'[p] = y /\ y.st \notin Packing /\ slab'[p] = slab[p]
      BY <2>1, <3>3, RewrittenRow DEF IntakeBase, RecordsOK
    <3> HIDE DEF y
    <3>5. Recent(i, parcel'[i.p], slab'[i.p], ever'.overlapped)
      BY <1>2, <2>2, <3>1, <3>4 DEF Recent
    <3> QED BY <2>4, <3>1, <3>2, <3>3, <3>5, CallerMoves
  <2> QED BY <2>5, <2>6
<1> QED BY <1>1, <1>2

\* Facts of an item's save that is not refused.
LEMMA SavedItem ==
  ASSUME IntakeBase, NEW k \in Callers, NEW c \in Certs, SaveItem(k, c),
         ~(slab[caller[k].p].gen # caller[k].gen /\ c \in Inside(caller[k].p))
  PROVE  LET r == caller[k]  p == r.p
             it == [st |-> IF r.op = "track" THEN "in_transit" ELSE "reviewing",
                    cyc |-> 0]
             seen == IF r.op = "track" THEN {"confirmed"} ELSE Waiting
             t == [slab[p] EXCEPT !.item[c] = it]
             left == r.todo \ {c} IN
         /\ r \in CallerStates /\ HoldsOK(r) /\ r.pc = "items" /\ p \in Packages
         /\ c \in r.todo /\ r.op \in {"track", "arrive"}
         /\ t \in [gen : Nat, item : [Certs -> SlabItems]] /\ t.gen = slab[p].gen
         /\ \A d \in Certs : t.item[d] = IF d = c THEN it ELSE slab[p].item[d]
         /\ slab' = [slab EXCEPT ![p] = t]
         /\ caller' = [caller EXCEPT ![k] =
                        IF left = {} THEN CallEnds(r) ELSE [r EXCEPT !.todo = left]]
         /\ UNCHANGED <<parcel, path, letter, calls, slips>>
         /\ ever' = [ever EXCEPT
               !.overlapped = @ \cup {q \in {p} : St(p, c) \notin seen}]
<1> DEFINE r == caller[k]
           p == r.p
           it == [st |-> IF r.op = "track" THEN "in_transit" ELSE "reviewing",
                  cyc |-> 0]
           t == [slab[p] EXCEPT !.item[c] = it]
<1>1. /\ r.pc = "items" /\ c \in r.todo
      /\ UNCHANGED <<parcel, path, letter, calls, slips>>
      /\ slab' = [slab EXCEPT ![p].item[c] = it]
      /\ caller' = [caller EXCEPT ![k] =
                     IF r.todo \ {c} = {} THEN CallEnds(r)
                                          ELSE [r EXCEPT !.todo = r.todo \ {c}]]
      /\ ever' = [ever EXCEPT
            !.overlapped = @ \cup {q \in {p} : St(p, c) \notin
              (IF r.op = "track" THEN {"confirmed"} ELSE Waiting)}]
  BY DEF SaveItem, Sets
<1>2. /\ r \in CallerStates /\ HoldsOK(r) /\ p \in Packages
      /\ slab \in [Packages -> [gen : Nat, item : [Certs -> SlabItems]]]
  BY <1>1, CallerFacts DEF RecordsOK
<1>3. r.op \in {"track", "arrive"}
  BY <1>1, <1>2 DEF HoldsOK
<1>4. it \in SlabItems
  BY IntakeAssumption DEF SlabItems
<1>5. slab' = [slab EXCEPT ![p] = t]
  BY <1>1, <1>2
<1> HIDE DEF it
<1>6. /\ t \in [gen : Nat, item : [Certs -> SlabItems]] /\ t.gen = slab[p].gen
      /\ \A d \in Certs : t.item[d] = IF d = c THEN it ELSE slab[p].item[d]
  BY <1>2, <1>4
<1> HIDE DEF t
<1>7. /\ r \in CallerStates /\ HoldsOK(r) /\ r.pc = "items" /\ p \in Packages
      /\ c \in r.todo /\ r.op \in {"track", "arrive"}
      /\ t \in [gen : Nat, item : [Certs -> SlabItems]] /\ t.gen = slab[p].gen
      /\ \A d \in Certs : t.item[d] = IF d = c THEN it ELSE slab[p].item[d]
      /\ slab' = [slab EXCEPT ![p] = t]
  BY <1>1, <1>2, <1>3, <1>5, <1>6
<1> QED BY <1>1, <1>7 DEF t, it

LEMMA SaveItemBase ==
  ASSUME IntakeBase, NEW k \in Callers, NEW c \in Certs, SaveItem(k, c)
  PROVE  IntakeBase'
<1> DEFINE r == caller[k]
           p == r.p
           it == [st |-> IF r.op = "track" THEN "in_transit" ELSE "reviewing",
                  cyc |-> 0]
           seen == IF r.op = "track" THEN {"confirmed"} ELSE Waiting
           t == [slab[p] EXCEPT !.item[c] = it]
           left == r.todo \ {c}
           i == [r EXCEPT !.todo = left]
           e == CallEnds(r)
<1>1. CASE slab[p].gen # r.gen /\ c \in Inside(p)
  <2>1. /\ r.pc = "items" /\ caller' = [caller EXCEPT ![k] = Throws(caller[k])]
        /\ UNCHANGED <<parcel, slab, path, letter, ever, calls, slips>>
    BY <1>1 DEF SaveItem, Sets
  <2> QED BY <2>1, SaveThrows
<1>2. CASE ~(slab[p].gen # r.gen /\ c \in Inside(p))
  <2>1. /\ r \in CallerStates /\ HoldsOK(r) /\ r.pc = "items" /\ p \in Packages
        /\ c \in r.todo /\ r.op \in {"track", "arrive"}
        /\ t \in [gen : Nat, item : [Certs -> SlabItems]] /\ t.gen = slab[p].gen
        /\ \A d \in Certs : t.item[d] = IF d = c THEN it ELSE slab[p].item[d]
        /\ slab' = [slab EXCEPT ![p] = t]
        /\ caller' = [caller EXCEPT ![k] = IF left = {} THEN e ELSE i]
        /\ UNCHANGED <<parcel, path, letter, calls, slips>>
        /\ ever' = [ever EXCEPT
              !.overlapped = @ \cup {q \in {p} : St(p, c) \notin seen}]
    BY <1>2, SavedItem
  <2>2. /\ parcel[p] \in ParcelRows /\ slab[p].gen \in Nat
        /\ parcel' = [parcel EXCEPT ![p] = parcel[p]]
        /\ \A d \in Certs : slab[p].item[d].st = "none" => slab[p].item[d].cyc = 0
    BY <2>1 DEF IntakeBase, RecordsOK
  <2>3. it.st \in {"in_transit", "reviewing"} /\ it.cyc = 0
        /\ (r.op = "track" => it.st = "in_transit")
        /\ (r.op # "track" => it.st = "reviewing")
    OBVIOUS
  <2>4. /\ ever' \in Histories
        /\ ever'.overlapped = ever.overlapped \cup {q \in {p} : St(p, c) \notin seen}
    <3> DEFINE O == {q \in {p} : St(p, c) \notin seen}
    <3>1. O \in SUBSET Packages /\ ever' = [ever EXCEPT !.overlapped = @ \cup O]
      BY <2>1
    <3> HIDE DEF O
    <3>2. ever' \in Histories /\ ever'.overlapped = ever.overlapped \cup O
      BY <3>1, OverlappedMore, RecordTypes
    <3> QED BY <3>2 DEF O
  <2> HIDE DEF it, t
  <2>5. ASSUME p \notin ever'.overlapped PROVE Keep(parcel[p], slab[p], parcel[p], t)
    <3>1. slab[p].item[c].st \in seen
      BY <2>4, <2>5 DEF St
    <3>2. slab[p].item[c].st \in Waiting
      BY <3>1 DEF Waiting
    <3>3. InsideOf(t) \subseteq InsideOf(slab[p])
      BY <2>1, <3>2 DEF InsideOf, Waiting
    <3>4. OnOf(t, Waiting) \subseteq OnOf(slab[p], Waiting)
      BY <2>1, <3>2 DEF OnOf
    <3>5. OnOf(slab[p], Ended) \subseteq OnOf(t, Ended)
      BY <2>1, <3>2 DEF OnOf, Waiting, Ended
    <3> QED BY <2>1, <3>3, <3>4, <3>5 DEF Keep
  <2>6. RecordsOK' /\ KeepsPackages
    <3>1. ever.overlapped \subseteq ever'.overlapped /\ slab[p].gen <= t.gen
          /\ calls' \in Nat /\ slips' \in Nat
      BY <2>1, <2>2, <2>4, RecordTypes
    <3>2. \A d \in Certs : t.item[d].st = "none" => t.item[d].cyc = 0
      BY <2>1, <2>2, <2>3
    <3> HIDE DEF i, e, seen
    <3> QED BY <2>1, <2>2, <2>4, <2>5, <3>1, <3>2, OnePackage
  <2>7. CASE left = {}
    <3>1. e \in CallerStates /\ HoldsOK(e) /\ e.pc \notin {"cycles", "save", "items"}
      BY <2>1, CallEndsOK
    <3>2. caller' = [caller EXCEPT ![k] = e]
      BY <2>1, <2>7
    <3> HIDE DEF e
    <3> QED BY <2>6, <3>1, <3>2, CallerMoves
  <2>8. CASE left # {}
    <3>1. left \in SUBSET Certs
      BY <2>1 DEF CallerStates
    <3>2. caller' = [caller EXCEPT ![k] = i]
      BY <2>1, <2>8
    <3>3. left # {}
      BY <2>8
    <3> HIDE DEF left
    <3>4. /\ i \in CallerStates /\ i.pc = "items" /\ i.op = r.op /\ i.p = r.p
          /\ i.then = r.then /\ i.row = r.row /\ i.gen = r.gen
          /\ i.certs = r.certs /\ i.todo = left /\ i.by = r.by
      BY <2>1, <3>1 DEF CallerStates
    <3> HIDE DEF i
    <3>5. HoldsOK(i)
      BY <2>1, <3>3, <3>4 DEF HoldsOK
    <3>6. parcel'[p] = parcel[p] /\ slab'[p] = t
      BY <2>1 DEF IntakeBase, RecordsOK
    <3>7. Recent(r, parcel[p], slab[p], ever.overlapped)
      BY <2>1, CallerFacts
    <3>8. ever.overlapped \subseteq ever'.overlapped
      BY <2>4
    <3>9. Recent(i, parcel'[i.p], slab'[i.p], ever'.overlapped)
      BY <2>1, <3>4, <3>6, <3>7, <3>8 DEF Recent
    <3> QED BY <2>6, <3>2, <3>4, <3>5, <3>9, CallerMoves
  <2> QED BY <2>7, <2>8
<1> QED BY <1>1, <1>2

\* Facts of the save of one item by a call at pc that is not refused.
LEMMA SavedOne ==
  ASSUME IntakeBase, NEW k \in Callers, NEW pc \in {"judge", "link", "complete"},
         NEW next \in {"sync", "linked", "completed"}, SavesItem(k, pc, next),
         ~(caller' = [caller EXCEPT ![k] = AtRest] /\ UNCHANGED <<slab, ever>>)
  PROVE  LET r == caller[k]  p == r.p IN
         \E c \in Certs, t \in [gen : Nat, item : [Certs -> SlabItems]] :
           /\ c \in r.certs /\ t.gen = slab[p].gen
           /\ \A d \in Certs : t.item[d] = IF d = c THEN r.item ELSE slab[p].item[d]
           /\ slab' = [slab EXCEPT ![p] = t]
           /\ caller' = [caller EXCEPT ![k] = [r EXCEPT !.pc = next]]
           /\ ever' = [ever EXCEPT
                 !.overlapped = @ \cup {q \in {p} : slab[p].item[c] # r.was}]
<1> DEFINE r == caller[k]
           p == r.p
           t(c) == [slab[p] EXCEPT !.item[c] = r.item]
<1>1. PICK c \in r.certs :
        IF slab[p].gen # r.gen /\ c \in Inside(p)
        THEN caller' = [caller EXCEPT ![k] = AtRest] /\ UNCHANGED <<slab, ever>>
        ELSE /\ slab' = [slab EXCEPT ![p].item[c] = r.item]
             /\ ever' = [ever EXCEPT
                  !.overlapped = @ \cup {q \in {p} : slab[p].item[c] # r.was}]
             /\ caller' = [caller EXCEPT ![k] = [r EXCEPT !.pc = next]]
  BY DEF SavesItem, Sets, Goto
<1>2. r.pc = pc /\ r \in CallerStates /\ HoldsOK(r) /\ RecordsOK
  BY CallerFacts DEF SavesItem
<1>3. /\ c \in Certs /\ p \in Packages /\ r.item \in SlabItems
      /\ slab \in [Packages -> [gen : Nat, item : [Certs -> SlabItems]]]
  BY <1>1, <1>2 DEF HoldsOK, CallerStates, RecordsOK
<1>4. slab' = [slab EXCEPT ![p] = t(c)]
  BY <1>1, <1>3
<1>5. /\ t(c) \in [gen : Nat, item : [Certs -> SlabItems]] /\ t(c).gen = slab[p].gen
      /\ \A d \in Certs : t(c).item[d] = IF d = c THEN r.item ELSE slab[p].item[d]
  BY <1>3
<1> QED BY <1>1, <1>3, <1>4, <1>5

LEMMA SavesItemBase ==
  ASSUME IntakeBase, NEW k \in Callers, SaveVerdict(k) \/ LinkShipped(k) \/ CompleteItem(k)
  PROVE  IntakeBase'
<1>1. ASSUME NEW pc \in {"judge", "link", "complete"},
             NEW next \in {"sync", "linked", "completed"}, SavesItem(k, pc, next)
      PROVE  IntakeBase'
  <2> DEFINE r == caller[k]
             p == r.p
             e == [r EXCEPT !.pc = next]
  <2>1. /\ r.pc = pc /\ r \in CallerStates /\ HoldsOK(r) /\ RecordsOK
        /\ UNCHANGED <<parcel, path, letter, calls, slips>>
    BY <1>1, CallerFacts DEF SavesItem
  <2>2. CASE caller' = [caller EXCEPT ![k] = AtRest] /\ UNCHANGED <<slab, ever>>
    BY <2>1, <2>2, RestCall, RecordTypes, QuietCall
  <2>3. CASE ~(caller' = [caller EXCEPT ![k] = AtRest] /\ UNCHANGED <<slab, ever>>)
    <3>1. PICK c \in Certs, u \in [gen : Nat, item : [Certs -> SlabItems]] :
           /\ c \in caller[k].certs /\ u.gen = slab[caller[k].p].gen
           /\ \A d \in Certs :
                u.item[d] = IF d = c THEN caller[k].item ELSE slab[caller[k].p].item[d]
           /\ slab' = [slab EXCEPT ![caller[k].p] = u]
           /\ caller' = [caller EXCEPT ![k] = [caller[k] EXCEPT !.pc = next]]
           /\ ever' = [ever EXCEPT !.overlapped =
                 @ \cup {q \in {caller[k].p} : slab[caller[k].p].item[c] # caller[k].was}]
      <4>1. ~(caller' = [caller EXCEPT ![k] = AtRest] /\ UNCHANGED <<slab, ever>>)
        BY <2>3
      <4> QED BY <1>1, <4>1, SavedOne
    <3> DEFINE O == {q \in {p} : slab[p].item[c] # r.was}
    <3>2. /\ u \in [gen : Nat, item : [Certs -> SlabItems]] /\ u.gen = slab[p].gen
          /\ \A d \in Certs : u.item[d] = IF d = c THEN r.item ELSE slab[p].item[d]
          /\ slab' = [slab EXCEPT ![p] = u]
      BY <3>1
    <3>3. /\ p \in Packages /\ r.was.st # "none"
          /\ (pc \in {"judge", "link"} => r.was.st \notin Ended)
          /\ r.item.st \in {"reviewing", "rejected", "minting", "completed"}
          /\ (pc = "complete" => r.item.st = "completed")
      BY <2>1 DEF HoldsOK
    <3>4. O \in SUBSET Packages /\ ever' = [ever EXCEPT !.overlapped = @ \cup O]
      BY <3>1, <3>3
    <3>5. ever' \in Histories /\ ever'.overlapped = ever.overlapped \cup O
      <4> HIDE DEF O
      <4> QED BY <3>4, OverlappedMore, RecordTypes
    <3>6. /\ parcel[p] \in ParcelRows /\ slab[p].gen \in Nat
          /\ parcel' = [parcel EXCEPT ![p] = parcel[p]]
          /\ \A d \in Certs : slab[p].item[d].st = "none" => slab[p].item[d].cyc = 0
      BY <2>1, <3>3 DEF RecordsOK
    <3>7. ASSUME p \notin ever'.overlapped PROVE Keep(parcel[p], slab[p], parcel[p], u)
      <4>1. slab[p].item[c] = r.was
        BY <3>5, <3>7
      <4>2. InsideOf(u) \subseteq InsideOf(slab[p])
        BY <3>2, <3>3, <4>1 DEF InsideOf
      <4>3. OnOf(u, Waiting) \subseteq OnOf(slab[p], Waiting)
        BY <3>2, <3>3 DEF OnOf, Waiting
      <4>4. OnOf(slab[p], Ended) \subseteq OnOf(u, Ended)
        BY <3>2, <3>3, <4>1 DEF OnOf, Ended
      <4> QED BY <3>2, <4>2, <4>3, <4>4 DEF Keep
    <3>8. RecordsOK' /\ KeepsPackages
      <4>1. ever.overlapped \subseteq ever'.overlapped /\ slab[p].gen <= u.gen
            /\ calls' \in Nat /\ slips' \in Nat
        BY <2>1, <3>2, <3>5, <3>6, RecordTypes
      <4>2. \A d \in Certs : u.item[d].st = "none" => u.item[d].cyc = 0
        BY <3>2, <3>3, <3>6
      <4> HIDE DEF e, O
      <4> QED BY <2>1, <3>2, <3>3, <3>5, <3>6, <3>7, <4>1, <4>2, OnePackage
    <3>9. /\ e \in CallerStates /\ e.pc = next /\ e.op = r.op /\ e.p = r.p
          /\ e.then = r.then /\ e.row = r.row /\ e.todo = r.todo
      BY <2>1 DEF CallerStates
    <3>10. caller' = [caller EXCEPT ![k] = e]
      BY <3>1
    <3> HIDE DEF e
    <3>11. HoldsOK(e)
      BY <2>1, <3>3, <3>9 DEF HoldsOK
    <3> QED BY <3>8, <3>9, <3>10, <3>11, CallerMoves
  <2> QED BY <2>2, <2>3
<1> QED BY <1>1 DEF SaveVerdict, LinkShipped, CompleteItem

\* Facts of the one transaction that cancels packages not shipped.
LEMMA ClearedPackages ==
  ASSUME IntakeBase, NEW k \in Callers, ClearPreShip(k)
  PROVE  \E F \in SUBSET Packages : \E read \in [F -> ParcelRows] :
           /\ \A p \in F : read[p].st = "awaiting_shipment"
           /\ parcel' = [p \in Packages |->
                IF p \in F THEN [st |-> "cancelled", paper |-> read[p].paper]
                ELSE parcel[p]]
           /\ ever' = [ever EXCEPT
                !.overlapped = @ \cup {p \in F : parcel[p] # read[p]}]
           /\ caller' = [caller EXCEPT ![k] = AtRest]
           /\ UNCHANGED <<slab, path, letter, calls, slips>>
<1> DEFINE F == {f.p : f \in caller[k].rows}
           one(p) == CHOOSE f \in caller[k].rows : f.p = p
           read == [p \in F |-> one(p).row]
<1>1. /\ caller[k].pc = "cancel"
      /\ parcel' = [p \in Packages |->
                  IF p \in F THEN Rewritten("cancel", read[p]) ELSE parcel[p]]
      /\ ever' = [ever EXCEPT
           !.overlapped = @ \cup {p \in F : parcel[p] # read[p]}]
      /\ caller' = [caller EXCEPT ![k] = AtRest]
      /\ UNCHANGED <<slab, path, letter, calls, slips>>
  BY DEF ClearPreShip, Sets
<1>2. /\ caller[k].rows \in SUBSET [p : Packages, row : ParcelRows]
      /\ \A f \in caller[k].rows : f.row.st = "awaiting_shipment"
  BY <1>1, CallerFacts DEF HoldsOK, CallerStates
<1>3. F \in SUBSET Packages
  BY <1>2
<1>4. \A p \in F : one(p) \in caller[k].rows
  OBVIOUS
<1> HIDE DEF one
<1>5. \A p \in F : read[p] \in ParcelRows /\ read[p].st = "awaiting_shipment"
  BY <1>2, <1>4
<1>6. read \in [F -> ParcelRows]
  BY <1>5
<1> HIDE DEF F, read
<1>7. \A p \in F : Rewritten("cancel", read[p]) = [st |-> "cancelled", paper |-> read[p].paper]
  BY <1>5, RewrittenRow
<1>8. parcel' = [p \in Packages |->
                IF p \in F THEN [st |-> "cancelled", paper |-> read[p].paper]
                ELSE parcel[p]]
  BY <1>1, <1>7
<1> QED BY <1>1, <1>3, <1>5, <1>6, <1>8

LEMMA ClearPreShipBase ==
  ASSUME IntakeBase, NEW k \in Callers, ClearPreShip(k)
  PROVE  IntakeBase'
<1>0. PICK F \in SUBSET Packages : \E read \in [F -> ParcelRows] :
           /\ \A p \in F : read[p].st = "awaiting_shipment"
           /\ parcel' = [p \in Packages |->
                IF p \in F THEN [st |-> "cancelled", paper |-> read[p].paper]
                ELSE parcel[p]]
           /\ ever' = [ever EXCEPT
                !.overlapped = @ \cup {p \in F : parcel[p] # read[p]}]
           /\ caller' = [caller EXCEPT ![k] = AtRest]
           /\ UNCHANGED <<slab, path, letter, calls, slips>>
  BY ClearedPackages
<1>1. PICK read \in [F -> ParcelRows] :
           /\ \A p \in F : read[p].st = "awaiting_shipment"
           /\ parcel' = [p \in Packages |->
                IF p \in F THEN [st |-> "cancelled", paper |-> read[p].paper]
                ELSE parcel[p]]
           /\ ever' = [ever EXCEPT
                !.overlapped = @ \cup {p \in F : parcel[p] # read[p]}]
           /\ caller' = [caller EXCEPT ![k] = AtRest]
           /\ UNCHANGED <<slab, path, letter, calls, slips>>
  BY <1>0
<1>2. /\ parcel \in [Packages -> ParcelRows]
      /\ slab \in [Packages -> [gen : Nat, item : [Certs -> SlabItems]]]
  BY DEF IntakeBase, RecordsOK
<1>3. parcel' \in [Packages -> ParcelRows]
  <2>1. \A p \in F : [st |-> "cancelled", paper |-> read[p].paper] \in ParcelRows
    BY DEF ParcelRows
  <2> QED BY <1>1, <1>2, <2>1
<1>4. /\ ever' \in Histories
      /\ ever'.overlapped = ever.overlapped \cup {p \in F : parcel[p] # read[p]}
  <2> DEFINE O == {p \in F : parcel[p] # read[p]}
  <2>1. O \in SUBSET Packages /\ ever' = [ever EXCEPT !.overlapped = @ \cup O]
    BY <1>1
  <2> HIDE DEF O
  <2>2. ever' \in Histories /\ ever'.overlapped = ever.overlapped \cup O
    BY <2>1, OverlappedMore, RecordTypes
  <2> QED BY <2>2 DEF O
<1>5. RecordsOK'
  BY <1>1, <1>3, <1>4 DEF IntakeBase, RecordsOK
<1>6. ASSUME NEW p \in Packages, p \notin ever'.overlapped
      PROVE  Keep(parcel[p], slab[p], parcel'[p], slab'[p])
  <2>1. slab'[p] = slab[p]
    BY <1>1
  <2>2. CASE p \in F
    <3>1. parcel[p].st = "awaiting_shipment"
      BY <1>1, <1>4, <1>6, <2>2
    <3> QED BY <2>1, <3>1 DEF Keep, Packing
  <2>3. CASE p \notin F
    <3>1. parcel'[p] = parcel[p]
      BY <1>1, <2>3
    <3> QED BY <2>1, <3>1 DEF Keep
  <2> QED BY <2>2, <2>3
<1>7. KeepsPackages
  <2>1. \A p \in Packages : slab[p].gen <= slab'[p].gen
    BY <1>1, <1>2
  <2> QED BY <1>4, <1>6, <2>1 DEF KeepsPackages
<1> QED BY <1>1, <1>5, <1>7, RestCall, CallerMoves
-----------------------------------------------------------------------------

LEMMA IntakeBaseInit ==
  ASSUME IntakeInit PROVE IntakeBase
<1>1. NoParcel \in ParcelRows /\ Unlisted \in SlabItems /\ OnItsWay \in SlabItems
      /\ Unlisted.cyc = 0 /\ OnItsWay.cyc = 0
      /\ Rewritten("track", NoParcel) \in ParcelRows
  BY IntakeAssumption DEF NoParcel, ParcelRows, Unlisted, OnItsWay, SlabItems, Rewritten
<1>2. parcel \in [Packages -> ParcelRows]
  BY <1>1 DEF IntakeInit
<1>3. slab \in [Packages -> [gen : Nat, item : [Certs -> SlabItems]]]
  BY <1>1 DEF IntakeInit
<1>4. \A p \in Packages, c \in Certs : slab[p].item[c].cyc = 0
  <2> TAKE p \in Packages, c \in Certs
  <2>1. slab[p].item[c] = Unlisted \/ slab[p].item[c] = OnItsWay
    BY DEF IntakeInit
  <2> QED BY <1>1, <2>1
<1>5. ever \in Histories
  <2>1. NothingYet \in Histories
    BY DEF NothingYet, Histories
  <2>2. {1} \cap Packages \in SUBSET Packages
    OBVIOUS
  <2>3. [NothingYet EXCEPT !.shipped = {1} \cap Packages] \in Histories
    BY <2>1, <2>2 DEF Histories
  <2> QED BY <2>1, <2>3 DEF IntakeInit
<1>6. /\ path \in [Certs -> [n : 0..MaxPaths, open : BOOLEAN]]
      /\ letter \in [certs : SUBSET Certs, marked : SUBSET Packages, done : BOOLEAN,
                     st : {"none", "pending", "confirmed", "dismissed"}]
      /\ calls \in Nat /\ slips \in Nat
  BY IntakeAssumption DEF IntakeInit
<1>7. caller \in [Callers -> CallerStates] /\ CallsOK
  <2>1. caller = [k \in Callers |-> AtRest]
    BY DEF IntakeInit
  <2>2. \A k \in Callers : caller[k] = AtRest
    BY <2>1
  <2> QED BY <2>1, <2>2, RestCall DEF CallsOK
<1> QED BY <1>2, <1>3, <1>4, <1>5, <1>6, <1>7 DEF IntakeBase, RecordsOK

LEMMA IntakeBaseStep ==
  ASSUME IntakeBase, [IntakeNext]_intakeVars
  PROVE  IntakeBase'
<1>1. ASSUME NEW k \in Callers, Sells(k) PROVE IntakeBase'
  <2>1. CASE \E S \in SUBSET Certs : UpsertDraft(k, S)
    BY <2>1, UpsertDraftBase
  <2>2. CASE \E p \in Packages :
         CreatePackage(k, p) \/ DownloadSlip(k, p) \/ CancelPreShip(k, p)
           \/ RegisterTracking(k, p) \/ MarkArrived(k, p)
    BY <2>2, CreatePackageBase, SellerReads
  <2>3. CASE CheckCycles(k) \/ SavePackage(k) \/ \E c \in Certs : SaveItem(k, c)
    BY <2>3, CheckCyclesBase, SavePackageBase, SaveItemBase
  <2>4. CASE \E p \in Packages, c \in Certs, st \in {"reviewing", "rejected"} :
               SetItemStatus(k, p, c, st)
    BY <2>4, SetItemStatusBase
  <2>5. CASE SaveVerdict(k) \/ SyncPackage(k)
    BY <2>5, SavesItemBase, SyncPackageBase
  <2> QED BY <1>1, <2>1, <2>2, <2>3, <2>4, <2>5 DEF Sells
<1>2. ASSUME NEW k \in Callers, ReadsMail(k) PROVE IntakeBase'
  BY <1>2, MailStarts, MailGoesOn, NextPackageBase DEF ReadsMail
<1>3. ASSUME NEW k \in Callers, Mints(k) PROVE IntakeBase'
  <2>1. CASE \E c \in Certs : StartDirectMint(k, c) \/ ReservePath(k, c)
    BY <2>1, MintReserves
  <2>2. CASE FindShipped(k) \/ FindMinted(k)
    BY <2>2, MintFinds
  <2>3. CASE MovePackage(k) \/ MintDirect(k) \/ GiveUpMint(k) \/ CompletePackage(k)
    BY <2>3, MintGoesOn
  <2>4. CASE LinkShipped(k) \/ CompleteItem(k)
    BY <2>4, SavesItemBase
  <2>5. CASE FindPreShip(k) \/ ClearPreShip(k)
    BY <2>5, FindPreShipBase, ClearPreShipBase
  <2> QED BY <1>3, <2>1, <2>2, <2>3, <2>4, <2>5 DEF Mints
<1>4. CASE IntakeNext
  BY <1>4, <1>1, <1>2, <1>3, IntakeFailsBase, EndCycleBase, IntakeRestartBase DEF IntakeNext
<1>5. CASE UNCHANGED intakeVars
  BY <1>5, RecordTypes, CallsStay DEF intakeVars, records
<1> QED BY <1>4, <1>5

LEMMA IntakeInvariance == IntakeSpec => []IntakeBase
<1>1. IntakeInit => IntakeBase
  BY IntakeBaseInit
<1>2. IntakeBase /\ [IntakeNext]_intakeVars => IntakeBase'
  BY IntakeBaseStep
<1> QED BY <1>1, <1>2, PTL DEF IntakeSpec

\* The rows, items, paths, the mail and what every call holds in memory have
\* their types, and a save of a package knows what it is for.
THEOREM IntakeTypeCorrect == IntakeSpec => []IntakeTypeOK
<1>1. IntakeBase => IntakeTypeOK
  <2> HAVE IntakeBase
  <2>1. \A k \in Callers : caller[k] \in CallerStates /\ HoldsOK(caller[k])
    BY CallerFacts
  <2>2. ASSUME NEW k \in Callers
        PROVE  LET r == caller[k] IN
       /\ r.p \in Packages \cup {0} /\ r.row \in ParcelRows /\ r.gen \in Nat
       /\ r.certs \in SUBSET Certs /\ r.todo \in SUBSET Certs
       /\ r.item \in SlabItems /\ r.was \in SlabItems
       /\ r.found \in SUBSET Packages /\ r.marked \in SUBSET Packages
       /\ r.had \in SUBSET Packages
       /\ r.rows \in SUBSET [p : Packages, row : ParcelRows]
       /\ r.by \in {"none", "auto", "admin"}
       /\ r.then \in {"idle", "next", "mint", "clear"}
       /\ (r.pc \in {"save", "items"} => r.op # "none")
    BY <2>1 DEF CallerStates, HoldsOK
  <2>3. RecordsOK
    BY DEF IntakeBase
  <2> QED BY <2>2, <2>3 DEF IntakeTypeOK, RecordsOK, ParcelRows, SlabItems, Histories
<1> QED BY <1>1, IntakeInvariance, PTL
-----------------------------------------------------------------------------
(* What the steps leave alone                                              *)

\* A call that moves from q to r and neither ships, arrives, reserves nor
\* decides on the mail.
Aside(q, r) ==
  \/ r = q
  \/ /\ q.pc \notin {"save", "items", "next", "confirm", "dismiss", "reserve"}
     /\ r.pc \notin {"items", "next", "confirm", "dismiss", "reserve"}
     /\ r.pc = "save" => r.op # "track" /\ r.then # "next"

AsideStep ==
  /\ UNCHANGED <<parcel, slab, ever>>
  /\ letter'.st = letter.st /\ letter'.marked = letter.marked
  /\ \A c \in Certs : path'[c].open => path[c].open
  /\ \A j \in Callers : Aside(caller[j], caller'[j])

LEMMA AsideCall ==
  ASSUME NEW k \in Callers, \A j \in Callers : j # k => caller'[j] = caller[j],
         caller[k].pc \notin {"save", "items", "next", "confirm", "dismiss", "reserve"},
         caller'[k].pc \notin {"items", "next", "confirm", "dismiss", "reserve"},
         caller'[k].pc = "save" => caller'[k].op # "track" /\ caller'[k].then # "next"
  PROVE  \A j \in Callers : Aside(caller[j], caller'[j])
BY DEF Aside

LEMMA AsideSeller ==
  ASSUME IntakeBase, NEW k \in Callers, NEW p \in Packages,
         \/ DownloadSlip(k, p) \/ CancelPreShip(k, p) \/ MarkArrived(k, p)
         \/ RegisterTracking(k, p)
         \/ \E c \in Certs, st \in {"reviewing", "rejected"} : SetItemStatus(k, p, c, st)
  PROVE  AsideStep
<1>1. UNCHANGED <<parcel, slab, path, letter, ever>> /\ caller[k].pc = "idle"
  BY DEF DownloadSlip, CancelPreShip, MarkArrived, RegisterTracking, SetItemStatus,
         Begins, NextCall, records
<1>4. caller \in [Callers -> CallerStates]
  BY DEF IntakeBase
<1>2. /\ \A j \in Callers : j # k => caller'[j] = caller[j]
      /\ caller'[k].pc \in {"save", "cycles", "judge"}
      /\ caller'[k].pc = "save" => caller'[k].op # "track" /\ caller'[k].then # "next"
  <2>1. CASE DownloadSlip(k, p)
    BY <1>4, <2>1 DEF DownloadSlip, Sets, With, AtRest
  <2>2. CASE CancelPreShip(k, p)
    BY <1>4, <2>2 DEF CancelPreShip, Sets, With, AtRest
  <2>3. CASE MarkArrived(k, p)
    BY <1>4, <2>3 DEF MarkArrived, Sets, With, AtRest
  <2>4. CASE RegisterTracking(k, p)
    BY <1>4, <2>4 DEF RegisterTracking, Sets, With, AtRest
  <2>5. ASSUME NEW c \in Certs, NEW st \in {"reviewing", "rejected"}, SetItemStatus(k, p, c, st)
        PROVE  /\ \A j \in Callers : j # k => caller'[j] = caller[j]
               /\ caller'[k].pc = "judge"
    BY <1>4, <2>5 DEF SetItemStatus, Sets, With, AtRest
  <2> QED BY <2>1, <2>2, <2>3, <2>4, <2>5
<1>3. \A j \in Callers : Aside(caller[j], caller'[j])
  BY <1>1, <1>2, AsideCall
<1> QED BY <1>1, <1>3 DEF AsideStep

LEMMA AsideMail ==
  ASSUME IntakeBase, NEW k \in Callers,
         SyncPackage(k) \/ MaybeAutoConfirm(k) \/ AdminConfirmMail(k) \/ LabelMail(k)
  PROVE  AsideStep
<1>1. /\ UNCHANGED <<parcel, slab, path, ever>>
      /\ letter'.st = letter.st /\ letter'.marked = letter.marked
      /\ caller[k].pc \in {"sync", "auto", "idle", "label"}
  BY RecordTypes DEF SyncPackage, MaybeAutoConfirm, AdminConfirmMail, LabelMail, Begins,
         NextCall, records
<1>2. caller[k] \in CallerStates /\ caller \in [Callers -> CallerStates]
  BY CallerFacts DEF IntakeBase
<1>3. /\ \A j \in Callers : j # k => caller'[j] = caller[j]
      /\ caller'[k].pc \in {"idle", "save", "apply", "label"}
      /\ caller'[k].pc = "save" => caller'[k].op # "track" /\ caller'[k].then # "next"
  <2>1. CASE SyncPackage(k)
    <3>1. CASE Follows(caller[k].p) = {}
      BY <1>2, <2>1, <3>1 DEF SyncPackage, Sets, AtRest
    <3>2. CASE Follows(caller[k].p) # {}
      <4>1. PICK op \in Follows(caller[k].p) :
              caller' = [caller EXCEPT ![k] =
                With([AtRest EXCEPT !.pc = "save"], op, caller[k].p, {}, "idle")]
        BY <2>1, <3>2 DEF SyncPackage, Sets
      <4>2. op # "track"
        BY <4>1 DEF Follows
      <4> QED BY <1>2, <4>1, <4>2 DEF With, AtRest
    <3> QED BY <3>1, <3>2
  <2>2. CASE MaybeAutoConfirm(k)
    BY <1>2, <2>2 DEF MaybeAutoConfirm, Goto, Sets, CallerStates
  <2>3. CASE AdminConfirmMail(k)
    BY <1>2, <2>3 DEF AdminConfirmMail, Sets, AtRest
  <2>4. CASE LabelMail(k)
    BY <1>2, <2>4 DEF LabelMail, Sets, AtRest
  <2> QED BY <2>1, <2>2, <2>3, <2>4
<1>5. \A j \in Callers : Aside(caller[j], caller'[j])
  BY <1>1, <1>3, AsideCall
<1> QED BY <1>1, <1>5 DEF AsideStep

LEMMA AsideMint ==
  ASSUME IntakeBase, NEW k \in Callers,
         \/ FindShipped(k) \/ MovePackage(k) \/ MintDirect(k) \/ GiveUpMint(k)
         \/ FindMinted(k) \/ CompletePackage(k) \/ FindPreShip(k)
  PROVE  AsideStep
<1>1. /\ caller[k] \in CallerStates /\ caller \in [Callers -> CallerStates]
      /\ path \in [Certs -> [n : 0..MaxPaths, open : BOOLEAN]]
  BY CallerFacts, RecordTypes DEF IntakeBase
<1>2. /\ UNCHANGED <<parcel, slab, letter, ever>>
      /\ caller[k].pc \in {"attach", "linked", "mint", "find", "completed", "clear"}
  BY DEF FindShipped, MovePackage, MintDirect, GiveUpMint, FindMinted, CompletePackage,
         FindPreShip, records
<1>3. \A c \in Certs : path'[c].open => path[c].open
  <2>1. CASE GiveUpMint(k)
    BY <1>1, <2>1 DEF GiveUpMint
  <2>2. CASE ~GiveUpMint(k)
    BY <2>2 DEF FindShipped, MovePackage, MintDirect, FindMinted, CompletePackage,
         FindPreShip, records
  <2> QED BY <2>1, <2>2
<1>4. /\ \A j \in Callers : j # k => caller'[j] = caller[j]
      /\ caller'[k].pc \in {"idle", "save", "mint", "clear", "find", "link", "complete", "cancel"}
      /\ caller'[k].pc = "save" => caller'[k].op # "track" /\ caller'[k].then # "next"
  <2>1. CASE FindShipped(k)
    <3>1. PICK c \in caller[k].certs :
            \/ caller' = [caller EXCEPT ![k] = Resumes(caller[k], "mint")]
            \/ \E p \in Packages : caller' = [caller EXCEPT ![k] =
                 [caller[k] EXCEPT !.pc = "link", !.p = p, !.gen = slab[p].gen,
                         !.was = slab[p].item[c],
                         !.item = [st |-> "minting", cyc |-> path[c].n]]]
      BY <2>1 DEF FindShipped, Sets
    <3>2. CASE caller' = [caller EXCEPT ![k] = Resumes(caller[k], "mint")]
      BY <1>1, <3>2 DEF Resumes, AtRest
    <3>3. ASSUME NEW p \in Packages, caller' = [caller EXCEPT ![k] =
                 [caller[k] EXCEPT !.pc = "link", !.p = p, !.gen = slab[p].gen,
                         !.was = slab[p].item[c],
                         !.item = [st |-> "minting", cyc |-> path[c].n]]]
          PROVE  /\ \A j \in Callers : j # k => caller'[j] = caller[j]
                 /\ caller'[k].pc = "link"
      BY <1>1, <3>3 DEF CallerStates
    <3> QED BY <3>1, <3>2, <3>3
  <2>2. CASE MovePackage(k)
    <3>1. CASE parcel[caller[k].p].st = "in_transit"
      BY <1>1, <2>2, <3>1 DEF MovePackage, Sets, With, CallerStates
    <3>2. CASE parcel[caller[k].p].st # "in_transit"
      BY <1>1, <2>2, <3>2 DEF MovePackage, Sets, Resumes, AtRest
    <3> QED BY <3>1, <3>2
  <2>3. CASE MintDirect(k)
    BY <1>1, <2>3 DEF MintDirect, Sets, Resumes, AtRest
  <2>4. CASE GiveUpMint(k)
    BY <1>1, <2>4 DEF GiveUpMint, Sets, AtRest
  <2>5. CASE FindMinted(k)
    <3>1. PICK c \in caller[k].certs :
            \/ caller' = [caller EXCEPT ![k] = Resumes(caller[k], "clear")]
            \/ \E p \in Packages : caller' = [caller EXCEPT ![k] =
                 [caller[k] EXCEPT !.pc = "complete", !.p = p, !.gen = slab[p].gen,
                         !.was = slab[p].item[c], !.item.st = "completed"]]
      BY <2>5 DEF FindMinted, Sets
    <3>2. CASE caller' = [caller EXCEPT ![k] = Resumes(caller[k], "clear")]
      BY <1>1, <3>2 DEF Resumes, AtRest
    <3>3. ASSUME NEW p \in Packages, caller' = [caller EXCEPT ![k] =
                 [caller[k] EXCEPT !.pc = "complete", !.p = p, !.gen = slab[p].gen,
                         !.was = slab[p].item[c], !.item.st = "completed"]]
          PROVE  /\ \A j \in Callers : j # k => caller'[j] = caller[j]
                 /\ caller'[k].pc = "complete"
      BY <1>1, <3>3 DEF CallerStates
    <3> QED BY <3>1, <3>2, <3>3
  <2>6. CASE CompletePackage(k)
    <3>1. CASE Inside(caller[k].p) = On(caller[k].p, Ended)
      BY <1>1, <2>6, <3>1 DEF CompletePackage, Sets, With, CallerStates
    <3>2. CASE Inside(caller[k].p) # On(caller[k].p, Ended)
      BY <1>1, <2>6, <3>2 DEF CompletePackage, Sets, Resumes, AtRest
    <3> QED BY <3>1, <3>2
  <2>7. CASE FindPreShip(k)
    BY <1>1, <2>7 DEF FindPreShip, Sets, AtRest
  <2> QED BY <2>1, <2>2, <2>3, <2>4, <2>5, <2>6, <2>7
<1>6. \A j \in Callers : Aside(caller[j], caller'[j])
  BY <1>2, <1>4, AsideCall
<1> QED BY <1>2, <1>3, <1>6 DEF AsideStep

LEMMA AsideNobody ==
  ASSUME IntakeBase, (\E c \in Certs : EndCycle(c)) \/ UNCHANGED intakeVars
  PROVE  AsideStep
<1>1. \A c \in Certs : path'[c].open => path[c].open
  BY RecordTypes DEF EndCycle, intakeVars, records
<1> QED BY <1>1 DEF EndCycle, intakeVars, records, AsideStep, Aside

\* Steps that ship, reserve or decide on the mail, but write no package.
Decides(k) ==
  \/ CheckCycles(k)
  \/ \E S \in SUBSET Certs : PollReceived(k, S)
  \/ ApplyConfirm(k) \/ NextPackage(k) \/ SaveConfirmed(k)
  \/ DismissArrival(k) \/ SaveDismissed(k)
  \/ \E c \in Certs : StartDirectMint(k, c) \/ ReservePath(k, c)

\* Steps that write one.
Writes(k) ==
  \/ \E S \in SUBSET Certs : UpsertDraft(k, S)
  \/ \E p \in Packages : CreatePackage(k, p)
  \/ SavePackage(k) \/ \E c \in Certs : SaveItem(k, c)
  \/ SaveVerdict(k) \/ LinkShipped(k) \/ CompleteItem(k) \/ ClearPreShip(k)

LEMMA StepKinds ==
  ASSUME IntakeBase, [IntakeNext]_intakeVars
  PROVE  \/ AsideStep
         \/ \E k \in Callers : Decides(k) \/ Writes(k) \/ IntakeFails(k)
         \/ IntakeRestart
<1>1. ASSUME NEW k \in Callers, Sells(k) PROVE AsideStep \/ Decides(k) \/ Writes(k)
  BY <1>1, AsideSeller, AsideMail DEF Sells, Decides, Writes
<1>2. ASSUME NEW k \in Callers, ReadsMail(k) PROVE AsideStep \/ Decides(k)
  BY <1>2, AsideMail DEF ReadsMail, Decides
<1>3. ASSUME NEW k \in Callers, Mints(k) PROVE AsideStep \/ Decides(k) \/ Writes(k)
  BY <1>3, AsideMint DEF Mints, Decides, Writes
<1> QED BY <1>1, <1>2, <1>3, AsideNobody DEF IntakeNext

LEMMA DecidingCall ==
  ASSUME IntakeBase, NEW k \in Callers, Decides(k)
  PROVE  /\ UNCHANGED <<parcel, slab>> /\ caller[k].pc \notin {"save", "items"}
         /\ \A j \in Callers : j # k => caller'[j] = caller[j]
         /\ ever'.shipped = ever.shipped /\ ever'.overlapped = ever.overlapped
         /\ ever'.early = ever.early /\ ever'.torn = ever.torn
         /\ ever'.moved = ever.moved
<1>1. /\ UNCHANGED <<parcel, slab>> /\ caller[k].pc \notin {"save", "items"}
      /\ \E r : caller' = [caller EXCEPT ![k] = r]
      /\ \/ UNCHANGED ever
         \/ \E S : ever' = [ever EXCEPT !.raced = S]
         \/ \E b : ever' = [ever EXCEPT !.quarrel = b]
  BY DEF Decides, CheckCycles, PollReceived, ApplyConfirm, NextPackage, SaveConfirmed,
         DismissArrival, SaveDismissed, StartDirectMint, ReservePath, Begins, NextCall,
         Sets, Goto, Finished, records
<1>2. ever \in Histories /\ caller \in [Callers -> CallerStates]
  BY RecordTypes DEF IntakeBase
<1> QED BY <1>1, <1>2 DEF Histories

\* Saves of items, and the composition, leave the rows of packages alone.
ItemsOnly(k) ==
  \/ \E S \in SUBSET Certs : UpsertDraft(k, S)
  \/ \E c \in Certs : SaveItem(k, c)
  \/ SaveVerdict(k) \/ LinkShipped(k) \/ CompleteItem(k)

LEMMA ItemsOnlyStep ==
  ASSUME IntakeBase, NEW k \in Callers, ItemsOnly(k)
  PROVE  /\ UNCHANGED <<parcel, path, letter>>
         /\ \A j \in Callers : j # k => caller'[j] = caller[j]
         /\ ever'.shipped = ever.shipped /\ ever.overlapped \subseteq ever'.overlapped
         /\ ever'.early = ever.early /\ ever'.torn = ever.torn
         /\ ever'.moved = ever.moved /\ ever'.raced = ever.raced
         /\ ever'.quarrel = ever.quarrel
<1>1. ever \in Histories /\ caller \in [Callers -> CallerStates]
  BY RecordTypes DEF IntakeBase
<1>2. UNCHANGED <<parcel, path, letter>>
  BY DEF ItemsOnly, UpsertDraft, SaveItem, SaveVerdict, LinkShipped, CompleteItem,
         SavesItem
<1>3. \A j \in Callers : j # k => caller'[j] = caller[j]
  BY <1>1 DEF ItemsOnly, UpsertDraft, SaveItem, SaveVerdict, LinkShipped, CompleteItem,
         SavesItem, Sets, Goto
<1>4. /\ ever'.shipped = ever.shipped /\ ever.overlapped \subseteq ever'.overlapped
      /\ ever'.early = ever.early /\ ever'.torn = ever.torn
      /\ ever'.moved = ever.moved /\ ever'.raced = ever.raced
      /\ ever'.quarrel = ever.quarrel
  <2>1. UNCHANGED ever \/ \E S : ever' = [ever EXCEPT !.overlapped = @ \cup S]
    BY DEF ItemsOnly, UpsertDraft, SaveItem, SaveVerdict, LinkShipped, CompleteItem,
           SavesItem
  <2> QED BY <1>1, <2>1 DEF Histories
<1> QED BY <1>2, <1>3, <1>4

LEMMA FaultStep ==
  ASSUME IntakeBase, (\E k \in Callers : IntakeFails(k)) \/ IntakeRestart
  PROVE  /\ UNCHANGED records
         /\ ever'.shipped = ever.shipped /\ ever'.overlapped = ever.overlapped
         /\ ever'.early = ever.early /\ ever.torn \subseteq ever'.torn
         /\ ever'.moved = ever.moved /\ ever'.raced = ever.raced
         /\ ever'.quarrel = ever.quarrel
<1>1. ever \in Histories
  BY RecordTypes
<1>2. UNCHANGED records /\ \E S : ever' = [ever EXCEPT !.torn = @ \cup S]
  BY DEF IntakeFails, IntakeRestart
<1> QED BY <1>1, <1>2 DEF Histories

\* A save that is refused.
LEMMA RefusedSave ==
  ASSUME IntakeBase, NEW k \in Callers, SavePackage(k),
         slab[caller[k].p].gen # caller[k].gen
  PROVE  /\ UNCHANGED <<parcel, slab, path, letter, ever>>
         /\ caller' = [caller EXCEPT ![k] = Throws(caller[k])]
         /\ caller[k].pc = "save"
BY DEF SavePackage, Sets

\* The row of a package changes only by a save, its creation or its cancellation.
LEMMA RowKinds ==
  ASSUME IntakeBase, [IntakeNext]_intakeVars
  PROVE  \/ /\ parcel' = parcel /\ ever'.shipped = ever.shipped
            /\ ever.overlapped \subseteq ever'.overlapped
         \/ \E k \in Callers :
              \/ SavePackage(k) /\ slab[caller[k].p].gen = caller[k].gen
              \/ \E p \in Packages : CreatePackage(k, p)
              \/ ClearPreShip(k)
<1>1. ASSUME NEW k \in Callers, Writes(k)
      PROVE  \/ ItemsOnly(k) \/ SavePackage(k) \/ \E p \in Packages : CreatePackage(k, p)
             \/ ClearPreShip(k)
  BY <1>1 DEF Writes, ItemsOnly
<1>2. ASSUME NEW k \in Callers, SavePackage(k), slab[caller[k].p].gen # caller[k].gen
      PROVE  UNCHANGED <<parcel, ever>>
  BY <1>2, RefusedSave
<1>3. CASE AsideStep
  BY <1>3 DEF AsideStep
<1>4. ASSUME NEW k \in Callers, Decides(k)
      PROVE  /\ parcel' = parcel /\ ever'.shipped = ever.shipped
             /\ ever.overlapped \subseteq ever'.overlapped
  BY <1>4, DecidingCall
<1>5. ASSUME NEW k \in Callers, ItemsOnly(k)
      PROVE  /\ parcel' = parcel /\ ever'.shipped = ever.shipped
             /\ ever.overlapped \subseteq ever'.overlapped
  BY <1>5, ItemsOnlyStep
<1>6. ASSUME (\E k \in Callers : IntakeFails(k)) \/ IntakeRestart
      PROVE  /\ parcel' = parcel /\ ever'.shipped = ever.shipped
             /\ ever.overlapped \subseteq ever'.overlapped
  BY <1>6, FaultStep DEF records
<1> QED BY <1>1, <1>2, <1>3, <1>4, <1>5, <1>6, StepKinds
-----------------------------------------------------------------------------
(* Shipped packages                                                        *)

KeptOK == TrackedShipped /\ ShippedPackagesKept

LEMMA KeptStep ==
  ASSUME IntakeBase, KeptOK, [IntakeNext]_intakeVars
  PROVE  KeptOK'
<1>0. parcel \in [Packages -> ParcelRows]
  BY DEF IntakeBase, RecordsOK
<1>1. ASSUME parcel' = parcel, ever'.shipped = ever.shipped,
             ever.overlapped \subseteq ever'.overlapped
      PROVE  KeptOK'
  BY <1>1 DEF KeptOK, TrackedShipped, ShippedPackagesKept
<1>2. ASSUME NEW k \in Callers, SavePackage(k), slab[caller[k].p].gen = caller[k].gen
      PROVE  KeptOK'
  <2> DEFINE r == caller[k]
             p == r.p
             y == Rewritten(r.op, r.row)
  <2>1. /\ HoldsOK(r) /\ p \in Packages
        /\ r.op \in {"slip", "cancel", "track", "arrive", "move", "complete"}
        /\ r.row \in ParcelRows /\ parcel' = [parcel EXCEPT ![p] = y]
        /\ ever'.overlapped = ever.overlapped \cup {q \in {p} : parcel[p] # r.row}
        /\ ever'.shipped = ever.shipped \cup {q \in {p} : r.op = "track"}
    BY <1>2, SavedPackage
  <2>2. \A q \in Packages : parcel'[q] = IF q = p THEN y ELSE parcel[q]
    BY <1>0, <2>1
  <2>3. ASSUME p \notin ever'.overlapped
        PROVE  /\ y.paper = "tracking" => p \in ever'.shipped
               /\ p \in ever'.shipped =>
                    y.paper = "tracking" /\ y.st \in {"in_transit", "psa_reviewing", "completed"}
    <3>1. parcel[p] = r.row /\ p \notin ever.overlapped
      BY <2>1, <2>3
    <3>2. /\ r.row.paper = "tracking" => p \in ever.shipped
          /\ p \in ever.shipped => r.row.paper = "tracking"
                /\ r.row.st \in {"in_transit", "psa_reviewing", "completed"}
      BY <2>1, <3>1 DEF KeptOK, TrackedShipped, ShippedPackagesKept
    <3>3. p \in ever'.shipped <=> p \in ever.shipped \/ r.op = "track"
      BY <2>1
    <3>4. /\ r.op = "slip" => y = [st |-> r.row.st, paper |-> "slip"]
          /\ r.op = "cancel" => y = [st |-> "cancelled", paper |-> r.row.paper]
          /\ r.op = "track" => y = [st |-> "in_transit", paper |-> "tracking"]
          /\ r.op \in {"arrive", "move"} => y = [st |-> "psa_reviewing", paper |-> r.row.paper]
          /\ r.op = "complete" => y = [st |-> "completed", paper |-> r.row.paper]
      BY <2>1, RewrittenRow
    <3>5. /\ r.op = "slip" => r.row.paper = "none"
          /\ r.op = "cancel" => r.row.st = "awaiting_shipment"
      BY <2>1 DEF HoldsOK
    <3> HIDE DEF y
    <3> QED BY <2>1, <3>2, <3>3, <3>4, <3>5
  <2>4. \A q \in Packages : q # p => (q \in ever'.shipped <=> q \in ever.shipped)
                                     /\ (q \in ever'.overlapped <=> q \in ever.overlapped)
    BY <2>1
  <2>5. ever'.shipped \subseteq Packages
    BY <2>1, RecordTypes DEF Histories
  <2> HIDE DEF y
  <2> QED BY <2>1, <2>2, <2>3, <2>4, <2>5 DEF KeptOK, TrackedShipped, ShippedPackagesKept
<1>3. ASSUME NEW k \in Callers, NEW p \in Packages, CreatePackage(k, p)
      PROVE  KeptOK'
  <2>1. /\ parcel' = [parcel EXCEPT ![p].st = "awaiting_shipment"] /\ ever' = ever
        /\ parcel[p].st = "none"
    BY <1>3 DEF CreatePackage, Exists
  <2>2. \A q \in Packages : /\ parcel'[q].paper = parcel[q].paper
                            /\ q # p => parcel'[q] = parcel[q]
    BY <1>0, <2>1 DEF ParcelRows
  <2>3. p \notin ever.shipped \ ever.overlapped
    BY <2>1 DEF KeptOK, ShippedPackagesKept
  <2>4. ever.shipped \subseteq Packages
    BY RecordTypes DEF Histories
  <2> QED BY <2>1, <2>2, <2>3, <2>4 DEF KeptOK, TrackedShipped, ShippedPackagesKept
<1>4. ASSUME NEW k \in Callers, ClearPreShip(k) PROVE KeptOK'
  <2>0. PICK F \in SUBSET Packages : \E read \in [F -> ParcelRows] :
           /\ \A p \in F : read[p].st = "awaiting_shipment"
           /\ parcel' = [p \in Packages |->
                IF p \in F THEN [st |-> "cancelled", paper |-> read[p].paper]
                ELSE parcel[p]]
           /\ ever' = [ever EXCEPT
                !.overlapped = @ \cup {p \in F : parcel[p] # read[p]}]
           /\ caller' = [caller EXCEPT ![k] = AtRest]
           /\ UNCHANGED <<slab, path, letter, calls, slips>>
    BY <1>4, ClearedPackages
  <2>1. PICK read \in [F -> ParcelRows] :
           /\ \A p \in F : read[p].st = "awaiting_shipment"
           /\ parcel' = [p \in Packages |->
                IF p \in F THEN [st |-> "cancelled", paper |-> read[p].paper]
                ELSE parcel[p]]
           /\ ever' = [ever EXCEPT
                !.overlapped = @ \cup {p \in F : parcel[p] # read[p]}]
    BY <2>0
  <2>2. /\ ever'.overlapped = ever.overlapped \cup {p \in F : parcel[p] # read[p]}
        /\ ever'.shipped = ever.shipped /\ ever.shipped \subseteq Packages
    BY <2>1, RecordTypes DEF Histories
  <2>3. ASSUME NEW p \in Packages, p \notin ever'.overlapped
        PROVE  /\ p \notin ever.overlapped /\ parcel'[p].paper = parcel[p].paper
               /\ p \in ever.shipped => parcel'[p] = parcel[p]
    <3>1. p \notin ever.overlapped
      BY <2>2, <2>3
    <3>2. CASE p \in F
      <4>1. parcel[p] = read[p] /\ parcel[p].st = "awaiting_shipment"
        BY <2>1, <2>2, <2>3, <3>2
      <4>2. p \notin ever.shipped
        BY <3>1, <4>1 DEF KeptOK, ShippedPackagesKept
      <4> QED BY <2>1, <3>1, <3>2, <4>1, <4>2
    <3>3. CASE p \notin F
      BY <2>1, <3>1, <3>3
    <3> QED BY <3>2, <3>3
  <2> QED BY <2>2, <2>3 DEF KeptOK, TrackedShipped, ShippedPackagesKept
<1> QED BY <1>1, <1>2, <1>3, <1>4, RowKinds

LEMMA KeptInvariance == IntakeSpec => []KeptOK
<1>1. IntakeInit => KeptOK
  <2> HAVE IntakeInit
  <2>1. CASE parcel = [p \in Packages |-> NoParcel] /\ ever = NothingYet
    BY <2>1 DEF KeptOK, TrackedShipped, ShippedPackagesKept, NoParcel, NothingYet
  <2>2. CASE /\ parcel = [p \in Packages |->
                       IF p = 1 THEN Rewritten("track", NoParcel) ELSE NoParcel]
             /\ ever = [NothingYet EXCEPT !.shipped = {1} \cap Packages]
    <3>1. Rewritten("track", NoParcel) = [st |-> "in_transit", paper |-> "tracking"]
      BY DEF Rewritten
    <3>2. ever.shipped = {1} \cap Packages
      BY <2>2 DEF NothingYet
    <3> QED BY <2>2, <3>1, <3>2 DEF KeptOK, TrackedShipped, ShippedPackagesKept, NoParcel
  <2> QED BY <2>1, <2>2 DEF IntakeInit
<1>2. IntakeBase /\ KeptOK /\ [IntakeNext]_intakeVars => KeptOK'
  BY KeptStep
<1> QED BY <1>1, <1>2, IntakeInvariance, PTL DEF IntakeSpec

\* "Once tracking is registered the physical path has started": a package ever
\* saved with tracking keeps it, and is on its way, at PSA or done: no call that
\* read it before cancels it or composes it anew, unless a save wrote over a row
\* it had not read.
THEOREM ShippedPackagesStayKept == IntakeSpec => []ShippedPackagesKept
<1>1. KeptOK => ShippedPackagesKept
  BY DEF KeptOK
<1> QED BY <1>1, KeptInvariance, PTL
-----------------------------------------------------------------------------
(* Cards of a package at PSA                                               *)

\* A step of a call that saves no items, and brings no package to PSA.
LEMMA HandKept ==
  ASSUME ArrivalsInHand, NEW k \in Callers, caller[k].pc # "items",
         \A j \in Callers : j # k => caller'[j] = caller[j],
         ever.overlapped \subseteq ever'.overlapped, ever.early \subseteq ever'.early,
         ever.torn \subseteq ever'.torn,
         \A p \in Packages \ ever'.overlapped :
           parcel'[p].st = "psa_reviewing" =>
             /\ parcel[p].st = "psa_reviewing"
             /\ \A c \in Certs : St(p, c)' \in Waiting => St(p, c) \in Waiting
  PROVE  ArrivalsInHand'
<1> SUFFICES ASSUME NEW p \in Packages,
                    p \notin ever'.overlapped \cup ever'.early \cup ever'.torn,
                    parcel'[p].st = "psa_reviewing",
                    NEW c \in Certs, St(p, c)' \in Waiting
             PROVE  \E j \in Callers :
                      /\ caller'[j].pc = "items" /\ caller'[j].op = "arrive"
                      /\ caller'[j].p = p /\ c \in caller'[j].todo
  BY DEF ArrivalsInHand, On
<1>1. parcel[p].st = "psa_reviewing" /\ c \in On(p, Waiting)
      /\ p \notin ever.overlapped \cup ever.early \cup ever.torn
  BY DEF On
<1>2. PICK j \in Callers : /\ caller[j].pc = "items" /\ caller[j].op = "arrive"
                           /\ caller[j].p = p /\ c \in caller[j].todo
  BY <1>1 DEF ArrivalsInHand
<1> QED BY <1>2

LEMMA HandAside ==
  ASSUME ArrivalsInHand, AsideStep PROVE ArrivalsInHand'
<1> SUFFICES ASSUME NEW p \in Packages,
                    p \notin ever.overlapped \cup ever.early \cup ever.torn,
                    parcel[p].st = "psa_reviewing", NEW c \in Certs, c \in On(p, Waiting)
             PROVE  \E j \in Callers :
                      /\ caller'[j].pc = "items" /\ caller'[j].op = "arrive"
                      /\ caller'[j].p = p /\ c \in caller'[j].todo
  BY DEF ArrivalsInHand, On, St, AsideStep
<1>1. PICK j \in Callers : /\ caller[j].pc = "items" /\ caller[j].op = "arrive"
                           /\ caller[j].p = p /\ c \in caller[j].todo
  BY DEF ArrivalsInHand
<1>2. caller'[j] = caller[j]
  BY <1>1 DEF AsideStep, Aside
<1> QED BY <1>1, <1>2

LEMMA HandDecides ==
  ASSUME IntakeBase, ArrivalsInHand, NEW k \in Callers, Decides(k)
  PROVE  ArrivalsInHand'
<1>1. /\ UNCHANGED <<parcel, slab>> /\ caller[k].pc # "items"
      /\ \A j \in Callers : j # k => caller'[j] = caller[j]
      /\ ever.overlapped \subseteq ever'.overlapped /\ ever.early \subseteq ever'.early
      /\ ever.torn \subseteq ever'.torn
  BY DecidingCall
<1>2. \A p \in Packages \ ever'.overlapped :
           parcel'[p].st = "psa_reviewing" =>
             /\ parcel[p].st = "psa_reviewing"
             /\ \A c \in Certs : St(p, c)' \in Waiting => St(p, c) \in Waiting
  BY <1>1 DEF St
<1> QED BY <1>1, <1>2, HandKept

LEMMA HandFails ==
  ASSUME IntakeBase, ArrivalsInHand, (\E k \in Callers : IntakeFails(k)) \/ IntakeRestart
  PROVE  ArrivalsInHand'
<1>1. /\ UNCHANGED <<parcel, slab>> /\ ever'.overlapped = ever.overlapped
      /\ ever'.early = ever.early /\ ever.torn \subseteq ever'.torn
  BY FaultStep DEF records
<1> SUFFICES ASSUME NEW p \in Packages,
                    p \notin ever.overlapped \cup ever.early \cup ever'.torn,
                    parcel[p].st = "psa_reviewing", NEW c \in Certs, c \in On(p, Waiting)
             PROVE  \E j \in Callers :
                      /\ caller'[j].pc = "items" /\ caller'[j].op = "arrive"
                      /\ caller'[j].p = p /\ c \in caller'[j].todo
  BY <1>1 DEF ArrivalsInHand, On, St
<1>2. PICK j \in Callers : /\ caller[j].pc = "items" /\ caller[j].op = "arrive"
                           /\ caller[j].p = p /\ c \in caller[j].todo
  BY <1>1 DEF ArrivalsInHand
<1>3. p \in HalfDone(caller[j])
  BY <1>2 DEF HalfDone
<1>4. ever \in Histories /\ caller \in [Callers -> CallerStates]
  BY RecordTypes DEF IntakeBase
<1>5. ~IntakeRestart
  <2> SUFFICES ASSUME IntakeRestart PROVE FALSE
    OBVIOUS
  <2> DEFINE H == UNION {HalfDone(caller[k]) : k \in Callers}
  <2>1. ever' = [ever EXCEPT !.torn = @ \cup H]
    BY DEF IntakeRestart
  <2>2. p \in H
    BY <1>3
  <2> HIDE DEF H
  <2>3. p \in ever'.torn
    BY <1>4, <2>1, <2>2 DEF Histories
  <2> QED BY <2>3
<1>6. PICK k \in Callers : IntakeFails(k)
  BY <1>5
<1>7. ever' = [ever EXCEPT !.torn = @ \cup HalfDone(caller[k])]
      /\ \A i \in Callers : i # k => caller'[i] = caller[i]
  BY <1>4, <1>6 DEF IntakeFails, Sets
<1>8. HalfDone(caller[k]) \subseteq ever'.torn
  <2> DEFINE H == HalfDone(caller[k])
  <2> HIDE DEF H
  <2>1. ever' = [ever EXCEPT !.torn = @ \cup H]
    BY <1>7 DEF H
  <2>2. H \subseteq ever'.torn
    BY <1>4, <2>1 DEF Histories
  <2> QED BY <2>2 DEF H
<1>9. j # k
  BY <1>3, <1>8
<1> QED BY <1>2, <1>7, <1>9

LEMMA HandRows ==
  ASSUME IntakeBase, ArrivalsInHand, NEW k \in Callers,
         \/ \E S \in SUBSET Certs : UpsertDraft(k, S)
         \/ \E p \in Packages : CreatePackage(k, p)
         \/ ClearPreShip(k)
         \/ SavePackage(k) /\ slab[caller[k].p].gen # caller[k].gen
  PROVE  ArrivalsInHand'
<1>1. /\ parcel \in [Packages -> ParcelRows] /\ ever \in Histories
      /\ slab \in [Packages -> [gen : Nat, item : [Certs -> SlabItems]]]
      /\ caller \in [Callers -> CallerStates]
  BY DEF IntakeBase, RecordsOK
<1>2. CASE \E S \in SUBSET Certs : UpsertDraft(k, S)
  <2>1. PICK S \in SUBSET Certs : UpsertDraft(k, S)
    BY <1>2
  <2>2. /\ parcel' = parcel /\ ever' = ever /\ caller[k].pc = "idle"
        /\ \A j \in Callers : j # k => caller'[j] = caller[j]
    BY <1>1, <2>1 DEF UpsertDraft, NextCall, Sets
  <2>3. ASSUME NEW p \in Packages, parcel[p].st = "psa_reviewing"
        PROVE  slab'[p] = slab[p]
    <3>1. UNCHANGED slab \/ \E q \in Packages :
            parcel[q].st = "awaiting_shipment" /\ Composed(q, S)
      BY <2>1 DEF UpsertDraft
    <3>2. ASSUME NEW q \in Packages, parcel[q].st = "awaiting_shipment", Composed(q, S)
          PROVE  slab'[p] = slab[p]
      <4>1. p # q
        BY <2>3, <3>2
      <4> QED BY <1>1, <3>2, <4>1 DEF Composed
    <3> QED BY <3>1, <3>2
  <2>4. \A p \in Packages \ ever'.overlapped :
           parcel'[p].st = "psa_reviewing" =>
             /\ parcel[p].st = "psa_reviewing"
             /\ \A c \in Certs : St(p, c)' \in Waiting => St(p, c) \in Waiting
    BY <2>2, <2>3 DEF St
  <2>5. caller[k].pc # "items" /\ ever.overlapped \subseteq ever'.overlapped
        /\ ever.early \subseteq ever'.early /\ ever.torn \subseteq ever'.torn
    BY <2>2
  <2> QED BY <2>2, <2>4, <2>5, HandKept
<1>3. CASE \E p \in Packages : CreatePackage(k, p)
  <2>1. PICK q \in Packages : CreatePackage(k, q)
    BY <1>3
  <2>2. /\ parcel' = [parcel EXCEPT ![q].st = "awaiting_shipment"] /\ ever' = ever
        /\ caller[k].pc = "create" /\ \A j \in Callers : j # k => caller'[j] = caller[j]
        /\ \A p \in Packages : p # q => slab'[p] = slab[p]
    BY <1>1, <2>1 DEF CreatePackage, Composed, Sets
  <2>3. parcel'[q].st = "awaiting_shipment" /\ \A p \in Packages : p # q => parcel'[p] = parcel[p]
    BY <1>1, <2>2 DEF ParcelRows
  <2>4. \A p \in Packages \ ever'.overlapped :
           parcel'[p].st = "psa_reviewing" =>
             /\ parcel[p].st = "psa_reviewing"
             /\ \A c \in Certs : St(p, c)' \in Waiting => St(p, c) \in Waiting
    BY <2>2, <2>3 DEF St
  <2>5. caller[k].pc # "items" /\ ever.overlapped \subseteq ever'.overlapped
        /\ ever.early \subseteq ever'.early /\ ever.torn \subseteq ever'.torn
    BY <2>2
  <2> QED BY <2>2, <2>4, <2>5, HandKept
<1>4. CASE ClearPreShip(k)
  <2>0. PICK F \in SUBSET Packages : \E read \in [F -> ParcelRows] :
           /\ \A p \in F : read[p].st = "awaiting_shipment"
           /\ parcel' = [p \in Packages |->
                IF p \in F THEN [st |-> "cancelled", paper |-> read[p].paper]
                ELSE parcel[p]]
           /\ ever' = [ever EXCEPT
                !.overlapped = @ \cup {p \in F : parcel[p] # read[p]}]
           /\ caller' = [caller EXCEPT ![k] = AtRest]
           /\ UNCHANGED <<slab, path, letter, calls, slips>>
    BY <1>4, ClearedPackages
  <2>1. PICK read \in [F -> ParcelRows] :
           /\ parcel' = [p \in Packages |->
                IF p \in F THEN [st |-> "cancelled", paper |-> read[p].paper]
                ELSE parcel[p]]
           /\ ever' = [ever EXCEPT
                !.overlapped = @ \cup {p \in F : parcel[p] # read[p]}]
           /\ caller' = [caller EXCEPT ![k] = AtRest]
           /\ UNCHANGED slab
    BY <2>0
  <2>2. /\ ever'.overlapped = ever.overlapped \cup {p \in F : parcel[p] # read[p]}
        /\ ever'.early = ever.early /\ ever'.torn = ever.torn
        /\ \A j \in Callers : j # k => caller'[j] = caller[j]
    BY <1>1, <2>1 DEF Histories
  <2>3. \A p \in Packages : parcel'[p].st = "psa_reviewing" => parcel[p].st = "psa_reviewing"
    BY <2>1
  <2>4. \A p \in Packages \ ever'.overlapped :
           parcel'[p].st = "psa_reviewing" =>
             /\ parcel[p].st = "psa_reviewing"
             /\ \A c \in Certs : St(p, c)' \in Waiting => St(p, c) \in Waiting
    BY <2>1, <2>3 DEF St
  <2>5. caller[k].pc # "items" /\ ever.overlapped \subseteq ever'.overlapped
        /\ ever.early \subseteq ever'.early /\ ever.torn \subseteq ever'.torn
    BY <1>4, <2>2 DEF ClearPreShip
  <2> QED BY <2>2, <2>4, <2>5, HandKept
<1>5. CASE SavePackage(k) /\ slab[caller[k].p].gen # caller[k].gen
  <2>1. /\ UNCHANGED <<parcel, slab, ever>> /\ caller[k].pc # "items"
        /\ \A j \in Callers : j # k => caller'[j] = caller[j]
    BY <1>1, <1>5, RefusedSave
  <2>2. \A p \in Packages \ ever'.overlapped :
           parcel'[p].st = "psa_reviewing" =>
             /\ parcel[p].st = "psa_reviewing"
             /\ \A c \in Certs : St(p, c)' \in Waiting => St(p, c) \in Waiting
    BY <2>1 DEF St
  <2>3. ever.overlapped \subseteq ever'.overlapped
        /\ ever.early \subseteq ever'.early /\ ever.torn \subseteq ever'.torn
    BY <2>1
  <2> QED BY <2>1, <2>2, <2>3, HandKept
<1> QED BY <1>2, <1>3, <1>4, <1>5

LEMMA HandVerdicts ==
  ASSUME IntakeBase, ArrivalsInHand, NEW k \in Callers,
         SaveVerdict(k) \/ LinkShipped(k) \/ CompleteItem(k)
  PROVE  ArrivalsInHand'
<1>1. ASSUME NEW pc \in {"judge", "link", "complete"},
             NEW next \in {"sync", "linked", "completed"}, SavesItem(k, pc, next)
      PROVE  ArrivalsInHand'
  <2>1. /\ parcel' = parcel /\ \A j \in Callers : j # k => caller'[j] = caller[j]
        /\ ever.overlapped \subseteq ever'.overlapped
        /\ ever'.early = ever.early /\ ever'.torn = ever.torn
    <3>1. ever \in Histories /\ caller \in [Callers -> CallerStates]
      BY RecordTypes DEF IntakeBase
    <3>2. /\ parcel' = parcel /\ \A j \in Callers : j # k => caller'[j] = caller[j]
          /\ UNCHANGED ever \/ \E S : ever' = [ever EXCEPT !.overlapped = @ \cup S]
      BY <1>1, <3>1 DEF SavesItem, Sets, Goto
    <3> QED BY <3>1, <3>2 DEF Histories
  <2>2. /\ caller[k].pc = pc /\ caller[k].p \in Packages
        /\ caller[k].item.st \in {"reviewing", "rejected", "minting", "completed"}
        /\ slab \in [Packages -> [gen : Nat, item : [Certs -> SlabItems]]]
    BY <1>1, CallerFacts DEF SavesItem, HoldsOK, RecordsOK
  <2>3. \A p \in Packages, c \in Certs : St(p, c)' \in Waiting => St(p, c) \in Waiting
    <3>1. CASE UNCHANGED slab
      BY <3>1 DEF St
    <3>2. CASE ~UNCHANGED slab
      <4>1. ~(caller' = [caller EXCEPT ![k] = AtRest] /\ UNCHANGED <<slab, ever>>)
        BY <3>2
      <4>2. PICK c \in Certs, u \in [gen : Nat, item : [Certs -> SlabItems]] :
           /\ c \in caller[k].certs /\ u.gen = slab[caller[k].p].gen
           /\ \A d \in Certs :
                u.item[d] = IF d = c THEN caller[k].item ELSE slab[caller[k].p].item[d]
           /\ slab' = [slab EXCEPT ![caller[k].p] = u]
        BY <1>1, <4>1, SavedOne
      <4>3. \A p \in Packages : slab'[p] = IF p = caller[k].p THEN u ELSE slab[p]
        BY <2>2, <4>2
      <4> QED BY <2>2, <4>2, <4>3 DEF St, Waiting
    <3> QED BY <3>1, <3>2
  <2>4. \A p \in Packages \ ever'.overlapped :
           parcel'[p].st = "psa_reviewing" =>
             /\ parcel[p].st = "psa_reviewing"
             /\ \A c \in Certs : St(p, c)' \in Waiting => St(p, c) \in Waiting
    BY <2>1, <2>3
  <2>5. caller[k].pc # "items" /\ ever.early \subseteq ever'.early
        /\ ever.torn \subseteq ever'.torn
    BY <2>1, <2>2
  <2> QED BY <2>1, <2>4, <2>5, HandKept
<1> QED BY <1>1 DEF SaveVerdict, LinkShipped, CompleteItem

LEMMA HandItem ==
  ASSUME IntakeBase, ArrivalsInHand, NEW k \in Callers, NEW c \in Certs, SaveItem(k, c)
  PROVE  ArrivalsInHand'
<1>1. /\ ever \in Histories /\ caller \in [Callers -> CallerStates]
      /\ slab \in [Packages -> [gen : Nat, item : [Certs -> SlabItems]]]
  BY RecordTypes DEF IntakeBase, RecordsOK
<1>2. /\ parcel' = parcel /\ \A j \in Callers : j # k => caller'[j] = caller[j]
      /\ ever.overlapped \subseteq ever'.overlapped
      /\ ever'.early = ever.early /\ ever'.torn = ever.torn
  BY ItemsOnlyStep DEF ItemsOnly
<1>3. /\ caller[k].pc = "items" /\ caller[k].p \in Packages
      /\ Recent(caller[k], parcel[caller[k].p], slab[caller[k].p], ever.overlapped)
  BY CallerFacts DEF SaveItem
<1> SUFFICES ASSUME NEW p \in Packages,
                    p \notin ever'.overlapped \cup ever.early \cup ever.torn,
                    parcel[p].st = "psa_reviewing",
                    NEW d \in Certs, St(p, d)' \in Waiting
             PROVE  \E j \in Callers :
                      /\ caller'[j].pc = "items" /\ caller'[j].op = "arrive"
                      /\ caller'[j].p = p /\ d \in caller'[j].todo
  BY <1>2 DEF ArrivalsInHand, On
<1>4. p \notin ever.overlapped
  BY <1>2
<1>5. ASSUME St(p, d) \in Waiting
      PROVE  \E j \in Callers : /\ caller[j].pc = "items" /\ caller[j].op = "arrive"
                                /\ caller[j].p = p /\ d \in caller[j].todo
  BY <1>2, <1>4, <1>5 DEF ArrivalsInHand, On
<1>6. CASE slab[caller[k].p].gen # caller[k].gen /\ c \in Inside(caller[k].p)
  <2>1. caller[k].p # p
    BY <1>3, <1>4, <1>6 DEF Recent
  <2>2. slab' = slab
    BY <1>6 DEF SaveItem
  <2>3. St(p, d) \in Waiting
    BY <2>2 DEF St
  <2> QED BY <1>2, <1>5, <2>1, <2>3
<1>7. CASE ~(slab[caller[k].p].gen # caller[k].gen /\ c \in Inside(caller[k].p))
  <2> DEFINE r == caller[k]
             it == [st |-> IF r.op = "track" THEN "in_transit" ELSE "reviewing",
                    cyc |-> 0]
             seen == IF r.op = "track" THEN {"confirmed"} ELSE Waiting
             t == [slab[r.p] EXCEPT !.item[c] = it]
             left == r.todo \ {c}
  <2>1. /\ r \in CallerStates /\ c \in r.todo /\ r.op \in {"track", "arrive"}
        /\ \A e \in Certs : t.item[e] = IF e = c THEN it ELSE slab[r.p].item[e]
        /\ slab' = [slab EXCEPT ![r.p] = t]
        /\ caller' = [caller EXCEPT ![k] =
                        IF left = {} THEN CallEnds(r) ELSE [r EXCEPT !.todo = left]]
        /\ ever' = [ever EXCEPT
               !.overlapped = @ \cup {q \in {r.p} : St(r.p, c) \notin seen}]
    BY <1>7, SavedItem
  <2>2. \A q \in Packages : slab'[q] = IF q = r.p THEN t ELSE slab[q]
    BY <1>1, <2>1
  <2>3. CASE p # r.p
    <3>1. St(p, d) \in Waiting
      BY <2>2, <2>3 DEF St
    <3>2. PICK j \in Callers : /\ caller[j].pc = "items" /\ caller[j].op = "arrive"
                               /\ caller[j].p = p /\ d \in caller[j].todo
      BY <1>5, <3>1
    <3>3. j # k
      BY <2>3, <3>2
    <3> QED BY <1>2, <3>2, <3>3
  <2>4. CASE p = r.p
    <3>1. St(p, d)' = IF d = c THEN it.st ELSE St(p, d)
      <4> HIDE DEF t, it
      <4>1. slab'[p] = t /\ t.item[d] = IF d = c THEN it ELSE slab[p].item[d]
        BY <2>1, <2>2, <2>4
      <4> QED BY <4>1 DEF St
    <3>2. St(p, c) \in seen
      <4>1. ever'.overlapped = ever.overlapped \cup {q \in {r.p} : St(r.p, c) \notin seen}
        BY <1>1, <2>1 DEF Histories
      <4> QED BY <2>4, <4>1
    <3>3. seen \subseteq Waiting
      BY DEF Waiting
    <3>4. St(p, d) \in Waiting
      BY <3>1, <3>2, <3>3
    <3>5. PICK j \in Callers : /\ caller[j].pc = "items" /\ caller[j].op = "arrive"
                               /\ caller[j].p = p /\ d \in caller[j].todo
      BY <1>5, <3>4
    <3>6. CASE j # k
      BY <1>2, <3>5, <3>6
    <3>7. CASE j = k
      <4>1. it.st = "reviewing" /\ r.op = "arrive"
        BY <3>5, <3>7
      <4>2. d # c /\ d \in left
        BY <3>1, <3>5, <3>7, <4>1 DEF Waiting
      <4>3. caller'[k] = [r EXCEPT !.todo = left]
        BY <1>1, <2>1, <4>2
      <4> HIDE DEF left
      <4>4. /\ caller'[k].pc = r.pc /\ caller'[k].op = r.op /\ caller'[k].p = r.p
            /\ caller'[k].todo = left
        BY <2>1, <4>3 DEF CallerStates
      <4> QED BY <3>5, <3>7, <4>2, <4>4
    <3> QED BY <3>6, <3>7
  <2> QED BY <2>3, <2>4
<1> QED BY <1>6, <1>7

LEMMA HandSave ==
  ASSUME IntakeBase, ArrivalsInHand, NEW k \in Callers, SavePackage(k),
         slab[caller[k].p].gen = caller[k].gen
  PROVE  ArrivalsInHand'
<1> DEFINE r == caller[k]
           q == r.p
           y == Rewritten(r.op, r.row)
<1>1. /\ parcel \in [Packages -> ParcelRows] /\ caller \in [Callers -> CallerStates]
      /\ Recent(r, parcel[q], slab[q], ever.overlapped)
  BY CallerFacts DEF IntakeBase, RecordsOK, SavePackage
<1>2. /\ r \in CallerStates /\ HoldsOK(r) /\ r.pc = "save" /\ q \in Packages
      /\ r.op \in {"slip", "cancel", "track", "arrive", "move", "complete"}
      /\ r.row \in ParcelRows
      /\ parcel' = [parcel EXCEPT ![q] = y]
      /\ caller' = [caller EXCEPT ![k] =
                      IF r.todo = {} THEN CallEnds(r) ELSE [r EXCEPT !.pc = "items"]]
      /\ UNCHANGED slab
      /\ ever'.overlapped = ever.overlapped \cup {z \in {q} : parcel[q] # r.row}
      /\ ever'.early = ever.early \cup {z \in {q} : r.op = "move" /\ On(q, Waiting) # {}}
      /\ ever'.torn = ever.torn
  BY SavedPackage
<1>3. \A p \in Packages : parcel'[p] = IF p = q THEN y ELSE parcel[p]
  BY <1>1, <1>2
<1>4. \A j \in Callers : j # k => caller'[j] = caller[j]
  BY <1>1, <1>2
<1>5. /\ r.op = "slip" => y = [st |-> r.row.st, paper |-> "slip"]
      /\ r.op = "cancel" => y = [st |-> "cancelled", paper |-> r.row.paper]
      /\ r.op = "track" => y = [st |-> "in_transit", paper |-> "tracking"]
      /\ r.op = "complete" => y = [st |-> "completed", paper |-> r.row.paper]
  BY <1>2, RewrittenRow
<1> HIDE DEF y
<1> SUFFICES ASSUME NEW p \in Packages,
                    p \notin ever'.overlapped \cup ever'.early \cup ever.torn,
                    parcel'[p].st = "psa_reviewing",
                    NEW c \in Certs, c \in On(p, Waiting)
             PROVE  \E j \in Callers :
                      /\ caller'[j].pc = "items" /\ caller'[j].op = "arrive"
                      /\ caller'[j].p = p /\ c \in caller'[j].todo
  BY <1>2 DEF ArrivalsInHand, On, St
<1>6. p \notin ever.overlapped \cup ever.early \cup ever.torn
  BY <1>2
<1>7. ASSUME parcel[p].st = "psa_reviewing"
      PROVE  \E j \in Callers :
                      /\ caller'[j].pc = "items" /\ caller'[j].op = "arrive"
                      /\ caller'[j].p = p /\ c \in caller'[j].todo
  <2>1. PICK j \in Callers : /\ caller[j].pc = "items" /\ caller[j].op = "arrive"
                             /\ caller[j].p = p /\ c \in caller[j].todo
    BY <1>6, <1>7 DEF ArrivalsInHand
  <2>2. j # k
    BY <1>2, <2>1
  <2> QED BY <1>4, <2>1, <2>2
<1>8. CASE p # q
  BY <1>3, <1>7, <1>8
<1>9. CASE p = q
  <2>1. parcel[q] = r.row
    BY <1>2, <1>9
  <2>2. CASE r.op \in {"slip", "cancel", "track", "complete"}
    <3>1. parcel[p].st = "psa_reviewing"
      BY <1>3, <1>5, <1>9, <2>1, <2>2
    <3> QED BY <1>7, <3>1
  <2>3. r.op # "move"
    BY <1>2, <1>9
  <2>4. CASE r.op = "arrive"
    <3>1. OnOf(slab[q], Waiting) = On(q, Waiting)
      BY DEF OnOf, On, St
    <3>2. c \in r.todo
      BY <1>1, <1>2, <1>6, <1>9, <2>4, <3>1 DEF Recent
    <3>3. caller'[k] = [r EXCEPT !.pc = "items"]
      BY <1>1, <1>2, <3>2
    <3>4. /\ caller'[k].pc = "items" /\ caller'[k].op = r.op /\ caller'[k].p = q
          /\ caller'[k].todo = r.todo
      BY <1>2, <3>3 DEF CallerStates
    <3> QED BY <1>9, <2>4, <3>2, <3>4
  <2> QED BY <1>2, <2>2, <2>3, <2>4
<1> QED BY <1>8, <1>9

LEMMA HandInvariance == IntakeSpec => []ArrivalsInHand
<1>1. IntakeInit => ArrivalsInHand
  <2> HAVE IntakeInit
  <2>1. Rewritten("track", NoParcel) = [st |-> "in_transit", paper |-> "tracking"]
    BY DEF Rewritten
  <2>2. \A p \in Packages : parcel[p].st # "psa_reviewing"
    BY <2>1 DEF IntakeInit, NoParcel
  <2> QED BY <2>2 DEF ArrivalsInHand
<1>2. ASSUME IntakeBase, ArrivalsInHand, [IntakeNext]_intakeVars PROVE ArrivalsInHand'
  <2>1. ASSUME NEW k \in Callers, Writes(k) PROVE ArrivalsInHand'
    <3>1. CASE \/ \E S \in SUBSET Certs : UpsertDraft(k, S)
               \/ \E p \in Packages : CreatePackage(k, p)
               \/ ClearPreShip(k)
      BY <1>2, <3>1, HandRows
    <3>2. CASE SavePackage(k)
      BY <1>2, <3>2, HandRows, HandSave
    <3>3. CASE \E c \in Certs : SaveItem(k, c)
      BY <1>2, <3>3, HandItem
    <3>4. CASE SaveVerdict(k) \/ LinkShipped(k) \/ CompleteItem(k)
      BY <1>2, <3>4, HandVerdicts
    <3> QED BY <2>1, <3>1, <3>2, <3>3, <3>4 DEF Writes
  <2> QED BY <1>2, <2>1, StepKinds, HandAside, HandDecides, HandFails
<1>3. IntakeBase /\ ArrivalsInHand /\ [IntakeNext]_intakeVars => ArrivalsInHand'
  BY <1>2
<1> QED BY <1>1, <1>3, IntakeInvariance, PTL DEF IntakeSpec

\* The cards of a package at PSA are in reach of the mint queue: once its arrival
\* is written, none is left "confirmed" or "in_transit".  While it is being
\* written, the call that writes it has every card left in hand, also one that
\* other calls read the package beside.
THEOREM TheQueueSeesArrivals == IntakeSpec => []QueueSeesArrived
<1>1. ArrivalsInHand => QueueSeesArrived
  BY DEF ArrivalsInHand, QueueSeesArrived
<1> QED BY <1>1, HandInvariance, PTL
-----------------------------------------------------------------------------
(* One vault path                                                          *)

\* A card of a shipped package has no open cycle.
ShippedClosed == \A c \in Certs \ ever.raced, p \in Packages \ ever.overlapped :
  Shipped(p, c) => ~path[c].open

VaultPaths == PathsOK /\ ShippedClosed

LEMMA PathsKept ==
  ASSUME VaultPaths, NEW k \in Callers,
         \A j \in Callers : j # k => caller'[j] = caller[j],
         ~Ships(caller'[k]), ~Reserves(caller'[k]), path' = path,
         ever.raced \subseteq ever'.raced, ever.overlapped \subseteq ever'.overlapped,
         \A p \in Packages \ ever'.overlapped, c \in Certs :
           Shipped(p, c)' => Shipped(p, c)
  PROVE  VaultPaths'
<1>1. ShippedClosed'
  BY DEF VaultPaths, ShippedClosed
<1>2. \A j \in Callers : Ships(caller'[j]) \/ Reserves(caller'[j]) =>
        j # k /\ caller'[j] = caller[j]
  OBVIOUS
<1>3. PathsOK'
  <2>1. \A j \in Callers : Ships(caller'[j]) =>
          \A c \in caller'[j].certs \ ever'.raced : ~path'[c].open
    BY <1>2 DEF VaultPaths, PathsOK
  <2>2. \A j, i \in Callers : Ships(caller'[j]) /\ Reserves(caller'[i]) =>
          caller'[j].certs \cap caller'[i].certs \subseteq ever'.raced
    BY <1>2 DEF VaultPaths, PathsOK
  <2>3. ASSUME NEW j \in Callers, Reserves(caller'[j]),
               NEW c \in caller'[j].certs \ ever'.raced, c \in Certs,
               NEW p \in Packages \ ever'.overlapped, Shipped(p, c)'
        PROVE  FALSE
    <3>1. Shipped(p, c)
      BY <2>3
    <3> QED BY <1>2, <2>3, <3>1 DEF VaultPaths, PathsOK
  <2>4. \A j \in Callers : Reserves(caller'[j]) =>
          \A c \in caller'[j].certs \ ever'.raced, p \in Packages \ ever'.overlapped :
            ~Shipped(p, c)'
    BY <2>3 DEF Shipped, Inside
  <2> QED BY <2>1, <2>2, <2>4 DEF PathsOK
<1> QED BY <1>1, <1>3 DEF VaultPaths

LEMMA PathsAside ==
  ASSUME VaultPaths, IntakeBase, AsideStep PROVE VaultPaths'
<1>1. \A j \in Callers : Ships(caller'[j]) \/ Reserves(caller'[j]) =>
        caller'[j] = caller[j]
  BY DEF AsideStep, Aside, Ships, Reserves
<1>2. \A p \in Packages, c \in Certs : Shipped(p, c)' <=> Shipped(p, c)
  BY DEF AsideStep, Shipped, Inside, St
<1>3. ShippedClosed'
  BY <1>2 DEF VaultPaths, ShippedClosed, AsideStep
<1>4. \A j \in Callers : caller[j].certs \subseteq Certs
  BY CallerFacts DEF CallerStates
<1>5. PathsOK'
  <2>1. \A j \in Callers : Ships(caller'[j]) =>
          \A c \in caller'[j].certs \ ever'.raced : ~path'[c].open
    BY <1>1, <1>4 DEF VaultPaths, PathsOK, AsideStep
  <2>2. \A j, i \in Callers : Ships(caller'[j]) /\ Reserves(caller'[i]) =>
          caller'[j].certs \cap caller'[i].certs \subseteq ever'.raced
    BY <1>1 DEF VaultPaths, PathsOK, AsideStep
  <2>3. \A j \in Callers : Reserves(caller'[j]) =>
          \A c \in caller'[j].certs \ ever'.raced, p \in Packages \ ever'.overlapped :
            ~Shipped(p, c)'
    BY <1>1, <1>2, <1>4 DEF VaultPaths, PathsOK, AsideStep
  <2> QED BY <2>1, <2>2, <2>3 DEF PathsOK
<1> QED BY <1>3, <1>5 DEF VaultPaths

\* Steps of the mail.
LEMMA PathsMail ==
  ASSUME IntakeBase, VaultPaths, NEW k \in Callers,
         \/ \E S \in SUBSET Certs : PollReceived(k, S)
         \/ ApplyConfirm(k) \/ NextPackage(k) \/ SaveConfirmed(k)
         \/ DismissArrival(k) \/ SaveDismissed(k)
  PROVE  VaultPaths'
<1>1. /\ ever \in Histories /\ caller \in [Callers -> CallerStates]
      /\ caller[k] \in CallerStates
  BY RecordTypes DEF IntakeBase
<1>2. /\ UNCHANGED <<parcel, slab, path>>
      /\ \A j \in Callers : j # k => caller'[j] = caller[j]
      /\ ever'.raced = ever.raced /\ ever'.overlapped = ever.overlapped
  <2>1. UNCHANGED ever \/ \E b : ever' = [ever EXCEPT !.quarrel = b]
    BY DEF PollReceived, ApplyConfirm, NextPackage, SaveConfirmed, DismissArrival,
         SaveDismissed, Begins
  <2>2. ever'.raced = ever.raced /\ ever'.overlapped = ever.overlapped
    BY <1>1, <2>1 DEF Histories
  <2>3. UNCHANGED <<parcel, slab, path>>
    BY DEF PollReceived, ApplyConfirm, NextPackage, SaveConfirmed, DismissArrival,
         SaveDismissed, Begins, records
  <2>4. \A j \in Callers : j # k => caller'[j] = caller[j]
    BY <1>1 DEF PollReceived, ApplyConfirm, NextPackage, SaveConfirmed, DismissArrival,
         SaveDismissed, Sets, Goto, Finished
  <2> QED BY <2>2, <2>3, <2>4
<1>3. caller'[k].pc # "reserve" /\ (caller'[k].pc = "save" => caller'[k].op = "arrive")
  <2>1. CASE \E S \in SUBSET Certs : PollReceived(k, S)
    BY <1>1, <2>1 DEF PollReceived, Sets, AtRest
  <2>2. CASE ApplyConfirm(k)
    <3>1. CASE Pending
      <4> DEFINE F == Matching
                 H == letter.marked
      <4>1. caller' = [caller EXCEPT ![k] =
              [caller[k] EXCEPT !.pc = "next", !.found = F, !.had = H]]
        BY <2>2, <3>1 DEF ApplyConfirm, Sets
      <4> HIDE DEF F, H
      <4> QED BY <1>1, <4>1 DEF CallerStates
    <3>2. CASE ~Pending
      BY <1>1, <2>2, <3>2 DEF ApplyConfirm, Sets, Finished, Goto, AtRest, CallerStates
    <3> QED BY <3>1, <3>2
  <2>3. CASE NextPackage(k)
    <3>1. CASE caller[k].found = {}
      BY <1>1, <2>3, <3>1 DEF NextPackage, Goto, Sets, CallerStates
    <3>2. CASE caller[k].found # {}
      <4> DEFINE s(p) == [caller[k] EXCEPT !.found = @ \ {p}]
      <4>1. PICK p \in caller[k].found :
              caller' = [caller EXCEPT ![k] = IF Arrivable(p)
               THEN With([s(p) EXCEPT !.pc = "save"], "arrive", p, ToReview(p), "next")
               ELSE s(p)]
        BY <2>3, <3>2 DEF NextPackage, Sets
      <4>2. caller[k].pc = "next"
        BY <2>3 DEF NextPackage
      <4>3. CASE Arrivable(p)
        BY <1>1, <4>1, <4>3 DEF With, CallerStates
      <4>4. CASE ~Arrivable(p)
        BY <1>1, <4>1, <4>2, <4>4 DEF CallerStates
      <4> QED BY <4>3, <4>4
    <3> QED BY <3>1, <3>2
  <2>4. CASE SaveConfirmed(k)
    BY <1>1, <2>4 DEF SaveConfirmed, Sets, Finished, Goto, AtRest, CallerStates
  <2>5. CASE DismissArrival(k)
    BY <1>1, <2>5 DEF DismissArrival, Sets, AtRest
  <2>6. CASE SaveDismissed(k)
    BY <1>1, <2>6 DEF SaveDismissed, Sets, AtRest
  <2> QED BY <2>1, <2>2, <2>3, <2>4, <2>5, <2>6
<1>4. ~Ships(caller'[k]) /\ ~Reserves(caller'[k])
  BY <1>3 DEF Ships, Reserves
<1>5. \A p \in Packages \ ever'.overlapped, c \in Certs : Shipped(p, c)' => Shipped(p, c)
  BY <1>2 DEF Shipped, Inside, St
<1>6. ever.raced \subseteq ever'.raced /\ ever.overlapped \subseteq ever'.overlapped
  BY <1>2
<1> QED BY <1>2, <1>4, <1>5, <1>6, PathsKept

\* registerTracking has checked the cycles of the package's cards.
LEMMA PathsCheck ==
  ASSUME IntakeBase, VaultPaths, NEW k \in Callers, CheckCycles(k)
  PROVE  VaultPaths'
<1>1. /\ ever \in Histories /\ caller \in [Callers -> CallerStates]
      /\ caller[k] \in CallerStates /\ caller[k].pc = "cycles"
      /\ UNCHANGED <<parcel, slab, path>>
  BY RecordTypes DEF IntakeBase, CheckCycles, records
<1>2. CASE caller' = [caller EXCEPT ![k] = AtRest] /\ ever' = ever
  <2>1. /\ \A j \in Callers : j # k => caller'[j] = caller[j]
        /\ caller'[k] = AtRest
        /\ ever.raced \subseteq ever'.raced /\ ever.overlapped \subseteq ever'.overlapped
    BY <1>1, <1>2
  <2>2. ~Ships(caller'[k]) /\ ~Reserves(caller'[k])
    BY <2>1 DEF AtRest, Ships, Reserves
  <2>3. \A p \in Packages \ ever'.overlapped, c \in Certs : Shipped(p, c)' => Shipped(p, c)
    BY <1>1 DEF Shipped, Inside, St
  <2> QED BY <1>1, <2>1, <2>2, <2>3, PathsKept
<1>3. CASE ~(caller' = [caller EXCEPT ![k] = AtRest] /\ ever' = ever)
  <2> DEFINE S == caller[k].certs
             R == UNION {S \cap caller[j].certs : j \in Reserving}
  <2>1. /\ \A c \in S : NoOpenCycle(c)
        /\ caller' = [caller EXCEPT ![k] = [caller[k] EXCEPT !.pc = "save"]]
        /\ ever' = [ever EXCEPT !.raced = @ \cup R]
    BY <1>3 DEF CheckCycles, Goto, Sets
  <2>2. /\ \A j \in Callers : j # k => caller'[j] = caller[j]
        /\ caller'[k].pc = "save" /\ caller'[k].certs = S
    BY <1>1, <2>1 DEF CallerStates
  <2>3. S \subseteq Certs /\ R \subseteq Certs
    BY <1>1 DEF CallerStates
  <2>4. \A j \in Callers : Reserves(caller[j]) => S \cap caller[j].certs \subseteq R
    BY DEF Reserves, Reserving
  <2> HIDE DEF R
  <2>5. /\ ever'.raced = ever.raced \cup R /\ ever'.overlapped = ever.overlapped
    BY <1>1, <2>1 DEF Histories
  <2>6. \A p \in Packages, c \in Certs : Shipped(p, c)' <=> Shipped(p, c)
    BY <1>1 DEF Shipped, Inside, St
  <2>7. ShippedClosed'
    BY <1>1, <2>5, <2>6 DEF VaultPaths, ShippedClosed
  <2>8. \A j \in Callers : Reserves(caller'[j]) => j # k /\ caller'[j] = caller[j]
    BY <2>2 DEF Reserves
  <2>9. \A j \in Callers : Ships(caller'[j]) =>
          \A c \in caller'[j].certs \ ever'.raced : ~path'[c].open
    <3> SUFFICES ASSUME NEW j \in Callers, Ships(caller'[j]),
                        NEW c \in caller'[j].certs \ ever'.raced
                 PROVE  ~path[c].open
      BY <1>1
    <3>1. CASE j = k
      BY <2>1, <2>2, <3>1 DEF NoOpenCycle
    <3>2. CASE j # k
      BY <2>2, <2>5, <3>2 DEF VaultPaths, PathsOK
    <3> QED BY <3>1, <3>2
  <2>10. ASSUME NEW j \in Callers, NEW i \in Callers, Ships(caller'[j]), Reserves(caller'[i])
         PROVE  caller'[j].certs \cap caller'[i].certs \subseteq ever'.raced
    <3>1. caller'[i] = caller[i]
      BY <2>8, <2>10
    <3>2. CASE j = k
      BY <2>2, <2>4, <2>5, <2>10, <3>1, <3>2
    <3>3. CASE j # k
      BY <2>2, <2>5, <2>10, <3>1, <3>3 DEF VaultPaths, PathsOK
    <3> QED BY <3>2, <3>3
  <2>11. ASSUME NEW j \in Callers, Reserves(caller'[j]),
                NEW c \in caller'[j].certs \ ever'.raced,
                NEW p \in Packages \ ever'.overlapped
         PROVE  ~Shipped(p, c)'
    <3>1. caller'[j] = caller[j] /\ Reserves(caller[j]) /\ c \in Certs
          /\ c \in caller[j].certs \ ever.raced
      <4>1. caller'[j] = caller[j]
        BY <2>8, <2>11
      <4>2. caller[j].certs \subseteq Certs
        BY <1>1 DEF CallerStates
      <4> QED BY <2>5, <2>11, <4>1, <4>2
    <3>2. ~Shipped(p, c)
      BY <2>5, <3>1 DEF VaultPaths, PathsOK
    <3> QED BY <2>6, <3>1, <3>2
  <2> QED BY <2>7, <2>9, <2>10, <2>11 DEF VaultPaths, PathsOK
<1> QED BY <1>2, <1>3

\* assertCertAvailableForSelfVault has found the card in no shipped package.
LEMMA PathsMint ==
  ASSUME IntakeBase, VaultPaths, NEW k \in Callers, NEW c \in Certs, StartDirectMint(k, c)
  PROVE  VaultPaths'
<1>1. /\ ever \in Histories /\ caller \in [Callers -> CallerStates]
      /\ caller[k].pc = "idle" /\ UNCHANGED <<parcel, slab, path>>
  BY RecordTypes DEF IntakeBase, StartDirectMint, Begins, NextCall, records
<1> DEFINE R == UNION {{c} \cap caller[j].certs : j \in Shipping}
<1>2. /\ caller' = [caller EXCEPT ![k] = [AtRest EXCEPT !.pc = "reserve", !.certs = {c}]]
      /\ ever' = [ever EXCEPT !.raced = @ \cup R]
      /\ \A p \in Packages : ~Blocked(p, c)
  BY DEF StartDirectMint, Sets
<1>3. /\ \A j \in Callers : j # k => caller'[j] = caller[j]
      /\ caller'[k].pc = "reserve" /\ caller'[k].certs = {c}
  BY <1>1, <1>2 DEF AtRest
<1>4. \A j \in Callers : Ships(caller[j]) => {c} \cap caller[j].certs \subseteq R
  BY DEF Ships, Shipping
<1>5. R \subseteq Certs
  OBVIOUS
<1> HIDE DEF R
<1>6. ever'.raced = ever.raced \cup R /\ ever'.overlapped = ever.overlapped
  BY <1>1, <1>2 DEF Histories
<1>7. \A p \in Packages, d \in Certs : Shipped(p, d)' <=> Shipped(p, d)
  BY <1>1 DEF Shipped, Inside, St
<1>8. ShippedClosed'
  BY <1>1, <1>6, <1>7 DEF VaultPaths, ShippedClosed
<1>9. \A j \in Callers : Ships(caller'[j]) => j # k /\ caller'[j] = caller[j]
  BY <1>3 DEF Ships
<1>10. \A j \in Callers : Ships(caller'[j]) =>
          \A d \in caller'[j].certs \ ever'.raced : ~path'[d].open
  BY <1>1, <1>6, <1>9 DEF VaultPaths, PathsOK
<1>11. ASSUME NEW j \in Callers, NEW i \in Callers, Ships(caller'[j]), Reserves(caller'[i])
       PROVE  caller'[j].certs \cap caller'[i].certs \subseteq ever'.raced
  <2>1. caller'[j] = caller[j]
    BY <1>9, <1>11
  <2>2. CASE i = k
    BY <1>3, <1>4, <1>6, <1>11, <2>1, <2>2
  <2>3. CASE i # k
    BY <1>3, <1>6, <1>11, <2>1, <2>3 DEF VaultPaths, PathsOK
  <2> QED BY <2>2, <2>3
<1>12. \A p \in Packages : ~Shipped(p, c)
  BY <1>2 DEF Blocked, Shipped
<1>13. ASSUME NEW j \in Callers, Reserves(caller'[j]),
              NEW d \in caller'[j].certs \ ever'.raced,
              NEW p \in Packages \ ever'.overlapped
       PROVE  ~Shipped(p, d)'
  <2>1. CASE j = k
    BY <1>3, <1>7, <1>12, <1>13, <2>1
  <2>2. CASE j # k
    <3>1. caller'[j] = caller[j] /\ caller[j].certs \subseteq Certs
      BY <1>1, <1>3, <2>2 DEF CallerStates
    <3>2. ~Shipped(p, d)
      BY <1>6, <1>13, <3>1 DEF VaultPaths, PathsOK
    <3> QED BY <1>7, <1>13, <3>1, <3>2
  <2> QED BY <2>1, <2>2
<1> QED BY <1>8, <1>10, <1>11, <1>13 DEF VaultPaths, PathsOK

\* reserveCycleForDeposit opens the cycle.
LEMMA PathsReserve ==
  ASSUME IntakeBase, VaultPaths, NEW k \in Callers, NEW c \in Certs, ReservePath(k, c)
  PROVE  VaultPaths'
<1>1. /\ caller \in [Callers -> CallerStates] /\ caller[k].pc = "reserve"
      /\ UNCHANGED <<parcel, slab, ever>> /\ c \in caller[k].certs
      /\ path \in [Certs -> [n : 0..MaxPaths, open : BOOLEAN]]
  BY RecordTypes DEF IntakeBase, ReservePath
<1>2. /\ \A j \in Callers : j # k => caller'[j] = caller[j]
      /\ caller'[k].pc \in {"idle", "attach"}
      /\ \A d \in Certs : d # c => path'[d] = path[d]
  BY <1>1 DEF ReservePath, Sets, Goto, AtRest, CallerStates
<1>3. \A j \in Callers : Ships(caller'[j]) \/ Reserves(caller'[j]) =>
        j # k /\ caller'[j] = caller[j]
  BY <1>2 DEF Ships, Reserves
<1>4. \A p \in Packages, d \in Certs : Shipped(p, d)' <=> Shipped(p, d)
  BY <1>1 DEF Shipped, Inside, St
<1>5. Reserves(caller[k])
  BY <1>1 DEF Reserves
<1>6. \A p \in Packages \ ever.overlapped : c \notin ever.raced => ~Shipped(p, c)
  BY <1>1, <1>5 DEF VaultPaths, PathsOK
<1>7. ShippedClosed'
  <2> SUFFICES ASSUME NEW d \in Certs \ ever.raced, NEW p \in Packages \ ever.overlapped,
                      Shipped(p, d)
               PROVE  ~path'[d].open
    BY <1>1, <1>4 DEF ShippedClosed
  <2>1. d # c
    BY <1>6
  <2> QED BY <1>2, <2>1 DEF VaultPaths, ShippedClosed
<1>8. ASSUME NEW j \in Callers, Ships(caller'[j]), NEW d \in caller'[j].certs \ ever'.raced
      PROVE  ~path'[d].open
  <2>1. caller'[j] = caller[j] /\ caller[j].certs \subseteq Certs
    BY <1>1, <1>3, <1>8 DEF CallerStates
  <2>2. caller[j].certs \cap caller[k].certs \subseteq ever.raced
    BY <1>5, <1>8, <2>1 DEF VaultPaths, PathsOK
  <2>3. d # c
    BY <1>1, <1>8, <2>1, <2>2
  <2> QED BY <1>1, <1>2, <1>8, <2>1, <2>3 DEF VaultPaths, PathsOK
<1>9. ASSUME NEW j \in Callers, NEW i \in Callers, Ships(caller'[j]), Reserves(caller'[i])
      PROVE  caller'[j].certs \cap caller'[i].certs \subseteq ever'.raced
  BY <1>1, <1>3, <1>9 DEF VaultPaths, PathsOK
<1>10. ASSUME NEW j \in Callers, Reserves(caller'[j]),
              NEW d \in caller'[j].certs \ ever'.raced,
              NEW p \in Packages \ ever'.overlapped
       PROVE  ~Shipped(p, d)'
  <2>1. caller'[j] = caller[j] /\ caller[j].certs \subseteq Certs
    BY <1>1, <1>3, <1>10 DEF CallerStates
  <2>2. ~Shipped(p, d)
    BY <1>1, <1>10, <2>1 DEF VaultPaths, PathsOK
  <2> QED BY <1>4, <1>10, <2>1, <2>2
<1> QED BY <1>7, <1>8, <1>9, <1>10 DEF VaultPaths, PathsOK

LEMMA PathsFault ==
  ASSUME IntakeBase, VaultPaths, (\E k \in Callers : IntakeFails(k)) \/ IntakeRestart
  PROVE  VaultPaths'
<1>1. /\ UNCHANGED <<parcel, slab, path>> /\ ever'.overlapped = ever.overlapped
      /\ ever'.raced = ever.raced
  BY FaultStep DEF records
<1>2. \A j \in Callers : caller'[j] = caller[j] \/ caller'[j].pc \in {"idle", "next", "label"}
  <2>1. caller \in [Callers -> CallerStates]
    BY DEF IntakeBase
  <2>2. CASE IntakeRestart
    BY <2>2 DEF IntakeRestart, AtRest
  <2>3. ASSUME NEW k \in Callers, IntakeFails(k)
        PROVE  \A j \in Callers :
                 caller'[j] = caller[j] \/ caller'[j].pc \in {"idle", "next", "label"}
    <3>1. Throws(caller[k]).pc \in {"idle", "next"}
      BY CallerFacts, CallEndsOK DEF HoldsOK
    <3>2. [AtRest EXCEPT !.pc = "label", !.by = "auto"].pc = "label"
      BY DEF AtRest
    <3>3. caller' = [caller EXCEPT ![k] = Throws(caller[k])]
          \/ caller' = [caller EXCEPT ![k] = [AtRest EXCEPT !.pc = "label", !.by = "auto"]]
      BY <2>3 DEF IntakeFails, Sets
    <3> QED BY <2>1, <3>1, <3>2, <3>3
  <2> QED BY <2>2, <2>3
<1>3. \A j \in Callers : Ships(caller'[j]) \/ Reserves(caller'[j]) => caller'[j] = caller[j]
  BY <1>2 DEF Ships, Reserves
<1>4. \A p \in Packages, d \in Certs : Shipped(p, d)' <=> Shipped(p, d)
  BY <1>1 DEF Shipped, Inside, St
<1>5. ShippedClosed'
  BY <1>1, <1>4 DEF VaultPaths, ShippedClosed
<1>6. \A j \in Callers : Ships(caller'[j]) =>
        \A c \in caller'[j].certs \ ever'.raced : ~path'[c].open
  BY <1>1, <1>3 DEF VaultPaths, PathsOK
<1>7. \A j, i \in Callers : Ships(caller'[j]) /\ Reserves(caller'[i]) =>
        caller'[j].certs \cap caller'[i].certs \subseteq ever'.raced
  BY <1>1, <1>3 DEF VaultPaths, PathsOK
<1>8. ASSUME NEW j \in Callers, Reserves(caller'[j]),
             NEW d \in caller'[j].certs \ ever'.raced,
             NEW p \in Packages \ ever'.overlapped
      PROVE  ~Shipped(p, d)'
  <2>1. caller'[j] = caller[j] /\ caller[j].certs \subseteq Certs
    BY <1>3, <1>8, CallerFacts DEF CallerStates
  <2>2. ~Shipped(p, d)
    BY <1>1, <1>8, <2>1 DEF VaultPaths, PathsOK
  <2> QED BY <1>4, <1>8, <2>1, <2>2
<1> QED BY <1>5, <1>6, <1>7, <1>8 DEF VaultPaths, PathsOK

LEMMA PathsRows ==
  ASSUME IntakeBase, VaultPaths, NEW k \in Callers,
         \/ \E S \in SUBSET Certs : UpsertDraft(k, S)
         \/ \E p \in Packages : CreatePackage(k, p)
         \/ ClearPreShip(k)
  PROVE  VaultPaths'
<1>1. /\ parcel \in [Packages -> ParcelRows] /\ ever \in Histories
      /\ slab \in [Packages -> [gen : Nat, item : [Certs -> SlabItems]]]
      /\ caller \in [Callers -> CallerStates]
  BY DEF IntakeBase, RecordsOK
<1>2. CASE \E S \in SUBSET Certs : UpsertDraft(k, S)
  <2>1. PICK S \in SUBSET Certs : UpsertDraft(k, S)
    BY <1>2
  <2>2. /\ parcel' = parcel /\ ever' = ever /\ path' = path
        /\ \A j \in Callers : j # k => caller'[j] = caller[j]
        /\ caller'[k].pc \in {"idle", "create"}
    BY <1>1, <2>1 DEF UpsertDraft, NextCall, Sets, AtRest
  <2>3. ASSUME NEW p \in Packages, parcel[p].st # "awaiting_shipment"
        PROVE  slab'[p] = slab[p]
    <3>1. UNCHANGED slab \/ \E q \in Packages :
            parcel[q].st = "awaiting_shipment" /\ Composed(q, S)
      BY <2>1 DEF UpsertDraft
    <3>2. ASSUME NEW q \in Packages, parcel[q].st = "awaiting_shipment", Composed(q, S)
          PROVE  slab'[p] = slab[p]
      <4>1. p # q
        BY <2>3, <3>2
      <4> QED BY <1>1, <3>2, <4>1 DEF Composed
    <3> QED BY <3>1, <3>2
  <2>4. \A p \in Packages \ ever'.overlapped, c \in Certs : Shipped(p, c)' => Shipped(p, c)
    BY <2>2, <2>3 DEF Shipped, Inside, St
  <2>5. /\ ~Ships(caller'[k]) /\ ~Reserves(caller'[k])
        /\ ever.raced \subseteq ever'.raced /\ ever.overlapped \subseteq ever'.overlapped
    BY <2>2 DEF Ships, Reserves
  <2> QED BY <2>2, <2>4, <2>5, PathsKept
<1>3. CASE \E p \in Packages : CreatePackage(k, p)
  <2>1. PICK q \in Packages : CreatePackage(k, q)
    BY <1>3
  <2>2. /\ parcel' = [parcel EXCEPT ![q].st = "awaiting_shipment"] /\ ever' = ever
        /\ path' = path
        /\ caller'[k].pc = "idle" /\ \A j \in Callers : j # k => caller'[j] = caller[j]
        /\ \A p \in Packages : p # q => slab'[p] = slab[p]
    BY <1>1, <2>1 DEF CreatePackage, Composed, Sets, AtRest
  <2>3. parcel'[q].st = "awaiting_shipment" /\ \A p \in Packages : p # q => parcel'[p] = parcel[p]
    BY <1>1, <2>2 DEF ParcelRows
  <2>4. \A p \in Packages \ ever'.overlapped, c \in Certs : Shipped(p, c)' => Shipped(p, c)
    BY <2>2, <2>3 DEF Shipped, Inside, St
  <2>5. /\ ~Ships(caller'[k]) /\ ~Reserves(caller'[k])
        /\ ever.raced \subseteq ever'.raced /\ ever.overlapped \subseteq ever'.overlapped
    BY <2>2 DEF Ships, Reserves
  <2> QED BY <2>2, <2>4, <2>5, PathsKept
<1>4. CASE ClearPreShip(k)
  <2>0. PICK F \in SUBSET Packages : \E read \in [F -> ParcelRows] :
           /\ \A p \in F : read[p].st = "awaiting_shipment"
           /\ parcel' = [p \in Packages |->
                IF p \in F THEN [st |-> "cancelled", paper |-> read[p].paper]
                ELSE parcel[p]]
           /\ ever' = [ever EXCEPT
                !.overlapped = @ \cup {p \in F : parcel[p] # read[p]}]
           /\ caller' = [caller EXCEPT ![k] = AtRest]
           /\ UNCHANGED <<slab, path, letter, calls, slips>>
    BY <1>4, ClearedPackages
  <2>1. PICK read \in [F -> ParcelRows] :
           /\ parcel' = [p \in Packages |->
                IF p \in F THEN [st |-> "cancelled", paper |-> read[p].paper]
                ELSE parcel[p]]
           /\ ever' = [ever EXCEPT
                !.overlapped = @ \cup {p \in F : parcel[p] # read[p]}]
           /\ caller' = [caller EXCEPT ![k] = AtRest]
           /\ UNCHANGED <<slab, path>>
    BY <2>0
  <2>2. /\ ever'.overlapped = ever.overlapped \cup {p \in F : parcel[p] # read[p]}
        /\ ever'.raced = ever.raced
        /\ \A j \in Callers : j # k => caller'[j] = caller[j]
        /\ caller'[k].pc = "idle"
    BY <1>1, <2>1 DEF Histories, AtRest
  <2>3. \A p \in Packages, c \in Certs : Shipped(p, c)' => Shipped(p, c)
    BY <2>1 DEF Shipped, Inside, St
  <2>5. /\ ~Ships(caller'[k]) /\ ~Reserves(caller'[k])
        /\ ever.raced \subseteq ever'.raced /\ ever.overlapped \subseteq ever'.overlapped
    BY <2>2 DEF Ships, Reserves
  <2> QED BY <2>1, <2>2, <2>3, <2>5, PathsKept
<1> QED BY <1>2, <1>3, <1>4

LEMMA PathsVerdict ==
  ASSUME IntakeBase, VaultPaths, NEW k \in Callers,
         SaveVerdict(k) \/ LinkShipped(k) \/ CompleteItem(k)
  PROVE  VaultPaths'
<1>1. ASSUME NEW pc \in {"judge", "link", "complete"},
             NEW next \in {"sync", "linked", "completed"}, SavesItem(k, pc, next)
      PROVE  VaultPaths'
  <2>1. ever \in Histories /\ caller \in [Callers -> CallerStates]
    BY RecordTypes DEF IntakeBase
  <2>2. /\ caller[k].pc = pc /\ caller[k].p \in Packages
        /\ caller[k].item.st \in {"reviewing", "rejected", "minting", "completed"}
        /\ (pc \in {"judge", "link"} => caller[k].was.st \notin Ended)
        /\ caller[k].was.st # "none" /\ (pc = "complete" => caller[k].item.st = "completed")
        /\ slab \in [Packages -> [gen : Nat, item : [Certs -> SlabItems]]]
    BY <1>1, CallerFacts DEF SavesItem, HoldsOK, RecordsOK
  <2>3. /\ UNCHANGED <<parcel, path>>
        /\ \A j \in Callers : j # k => caller'[j] = caller[j]
        /\ caller'[k].pc \in {"idle", "sync", "linked", "completed"}
    <3>1. caller[k] \in CallerStates
      BY <2>1
    <3> QED BY <1>1, <2>1, <3>1 DEF SavesItem, Sets, Goto, AtRest, CallerStates
  <2>4. CASE UNCHANGED <<slab, ever>>
    <3>1. \A p \in Packages \ ever'.overlapped, c \in Certs : Shipped(p, c)' => Shipped(p, c)
      BY <2>3, <2>4 DEF Shipped, Inside, St
    <3>2. /\ ~Ships(caller'[k]) /\ ~Reserves(caller'[k])
          /\ ever.raced \subseteq ever'.raced /\ ever.overlapped \subseteq ever'.overlapped
      BY <2>3, <2>4 DEF Ships, Reserves
    <3> QED BY <2>3, <3>1, <3>2, PathsKept
  <2>5. CASE ~UNCHANGED <<slab, ever>>
    <3>1. ~(caller' = [caller EXCEPT ![k] = AtRest] /\ UNCHANGED <<slab, ever>>)
      BY <2>5
    <3>2. PICK c \in Certs, u \in [gen : Nat, item : [Certs -> SlabItems]] :
           /\ c \in caller[k].certs /\ u.gen = slab[caller[k].p].gen
           /\ \A d \in Certs :
                u.item[d] = IF d = c THEN caller[k].item ELSE slab[caller[k].p].item[d]
           /\ slab' = [slab EXCEPT ![caller[k].p] = u]
           /\ caller' = [caller EXCEPT ![k] = [caller[k] EXCEPT !.pc = next]]
           /\ ever' = [ever EXCEPT !.overlapped =
                 @ \cup {q \in {caller[k].p} : slab[caller[k].p].item[c] # caller[k].was}]
      BY <1>1, <3>1, SavedOne
    <3>3. /\ ever'.overlapped = ever.overlapped
                \cup {q \in {caller[k].p} : slab[caller[k].p].item[c] # caller[k].was}
          /\ ever'.raced = ever.raced
      BY <2>1, <3>2 DEF Histories
    <3>4. ASSUME NEW p \in Packages, p \notin ever'.overlapped, NEW d \in Certs, Shipped(p, d)'
          PROVE  Shipped(p, d)
      <4>1. slab'[p] = IF p = caller[k].p THEN u ELSE slab[p]
        BY <2>2, <3>2
      <4>2. CASE p = caller[k].p /\ d = c
        <5>1. slab[p].item[c] = caller[k].was
          BY <3>3, <3>4, <4>2
        <5>2. St(p, c)' = caller[k].item.st
          BY <3>2, <4>1, <4>2 DEF St
        <5>3. pc \in {"judge", "link"}
          BY <2>2, <3>4, <4>2, <5>2 DEF Shipped, Ended
        <5>4. St(p, c) # "none" /\ St(p, c) \notin Ended
          BY <2>2, <5>1, <5>3 DEF St
        <5> QED BY <2>3, <3>4, <4>2, <5>4 DEF Shipped, Inside
      <4>3. CASE ~(p = caller[k].p /\ d = c)
        <5>1. St(p, d)' = St(p, d)
          BY <3>2, <4>1, <4>3 DEF St
        <5> QED BY <2>3, <3>4, <5>1 DEF Shipped, Inside
      <4> QED BY <4>2, <4>3
    <3>5. /\ ~Ships(caller'[k]) /\ ~Reserves(caller'[k])
          /\ ever.raced \subseteq ever'.raced /\ ever.overlapped \subseteq ever'.overlapped
      BY <2>3, <3>3 DEF Ships, Reserves
    <3> QED BY <2>3, <3>4, <3>5, PathsKept
  <2> QED BY <2>4, <2>5
<1> QED BY <1>1 DEF SaveVerdict, LinkShipped, CompleteItem

\* Where a call goes after its save.
LEMMA AfterSave ==
  ASSUME IntakeBase, NEW k \in Callers, caller[k].pc \in {"save", "items"},
         NEW pc \in {"save", "items"}, NEW left \in SUBSET Certs,
         \/ caller' = [caller EXCEPT ![k] = CallEnds(caller[k])]
         \/ caller' = [caller EXCEPT ![k] = Throws(caller[k])]
         \/ caller' = [caller EXCEPT ![k] = [caller[k] EXCEPT !.pc = "items"]]
         \/ caller' = [caller EXCEPT ![k] = [caller[k] EXCEPT !.todo = left]]
            /\ caller[k].pc = "items"
  PROVE  /\ \A j \in Callers : j # k => caller'[j] = caller[j]
         /\ caller'[k].pc \in {"idle", "next", "mint", "clear", "items"}
         /\ ~Ships(caller'[k]) /\ ~Reserves(caller'[k])
<1>1. caller \in [Callers -> CallerStates] /\ caller[k] \in CallerStates
  BY CallerFacts DEF IntakeBase
<1>2. CallEnds(caller[k]).pc \in {"idle", "next", "mint", "clear"}
      /\ Throws(caller[k]).pc \in {"idle", "next"}
  BY CallerFacts, CallEndsOK
<1>3. [caller[k] EXCEPT !.pc = "items"].pc = "items"
      /\ [caller[k] EXCEPT !.todo = left].pc = caller[k].pc
  BY <1>1 DEF CallerStates
<1>4. /\ \A j \in Callers : j # k => caller'[j] = caller[j]
      /\ caller'[k].pc \in {"idle", "next", "mint", "clear", "items"}
  BY <1>1, <1>2, <1>3
<1> QED BY <1>4 DEF Ships, Reserves

LEMMA PathsItem ==
  ASSUME IntakeBase, VaultPaths, NEW k \in Callers, NEW c \in Certs, SaveItem(k, c)
  PROVE  VaultPaths'
<1>1. /\ ever \in Histories /\ caller \in [Callers -> CallerStates]
      /\ slab \in [Packages -> [gen : Nat, item : [Certs -> SlabItems]]]
      /\ caller[k].pc = "items" /\ caller[k].p \in Packages
  BY RecordTypes, CallerFacts DEF IntakeBase, RecordsOK, SaveItem
<1>2. /\ UNCHANGED <<parcel, path>> /\ ever.overlapped \subseteq ever'.overlapped
      /\ ever.raced \subseteq ever'.raced
  BY ItemsOnlyStep DEF ItemsOnly
<1>3. CASE slab[caller[k].p].gen # caller[k].gen /\ c \in Inside(caller[k].p)
  <2>1. caller' = [caller EXCEPT ![k] = Throws(caller[k])] /\ slab' = slab
    BY <1>3 DEF SaveItem, Sets
  <2>2. /\ \A j \in Callers : j # k => caller'[j] = caller[j]
        /\ ~Ships(caller'[k]) /\ ~Reserves(caller'[k])
    BY <1>1, <2>1, AfterSave
  <2>3. \A p \in Packages \ ever'.overlapped, d \in Certs : Shipped(p, d)' => Shipped(p, d)
    BY <1>2, <2>1 DEF Shipped, Inside, St
  <2> QED BY <1>2, <2>2, <2>3, PathsKept
<1>4. CASE ~(slab[caller[k].p].gen # caller[k].gen /\ c \in Inside(caller[k].p))
  <2> DEFINE r == caller[k]
             it == [st |-> IF r.op = "track" THEN "in_transit" ELSE "reviewing",
                    cyc |-> 0]
             seen == IF r.op = "track" THEN {"confirmed"} ELSE Waiting
             t == [slab[r.p] EXCEPT !.item[c] = it]
             left == r.todo \ {c}
  <2>1. /\ r \in CallerStates
        /\ \A e \in Certs : t.item[e] = IF e = c THEN it ELSE slab[r.p].item[e]
        /\ slab' = [slab EXCEPT ![r.p] = t]
        /\ caller' = [caller EXCEPT ![k] =
                        IF left = {} THEN CallEnds(r) ELSE [r EXCEPT !.todo = left]]
        /\ ever' = [ever EXCEPT
               !.overlapped = @ \cup {q \in {r.p} : St(r.p, c) \notin seen}]
    BY <1>4, SavedItem
  <2>2. left \in SUBSET Certs
    BY <2>1 DEF CallerStates
  <2>3. /\ \A j \in Callers : j # k => caller'[j] = caller[j]
        /\ ~Ships(caller'[k]) /\ ~Reserves(caller'[k])
    <3>1. \/ caller' = [caller EXCEPT ![k] = CallEnds(caller[k])]
          \/ caller' = [caller EXCEPT ![k] = [caller[k] EXCEPT !.todo = left]]
      BY <2>1
    <3> HIDE DEF left
    <3> QED BY <1>1, <2>2, <3>1, AfterSave
  <2>4. ASSUME NEW p \in Packages, p \notin ever'.overlapped, NEW d \in Certs, Shipped(p, d)'
        PROVE  Shipped(p, d)
    <3>1. \A q \in Packages : slab'[q] = IF q = r.p THEN t ELSE slab[q]
      BY <1>1, <2>1
    <3>2. CASE p = r.p /\ d = c
      <4>1. ever'.overlapped = ever.overlapped \cup {q \in {r.p} : St(r.p, c) \notin seen}
        BY <1>1, <2>1 DEF Histories
      <4>2. St(p, c) \in Waiting
        BY <2>4, <3>2, <4>1 DEF Waiting
      <4> QED BY <1>2, <2>4, <3>2, <4>2 DEF Shipped, Inside, Waiting, Ended
    <3>3. CASE ~(p = r.p /\ d = c)
      <4>1. slab'[p].item[d] = slab[p].item[d]
        <5> HIDE DEF t, it
        <5> QED BY <2>1, <3>1, <3>3
      <4>2. St(p, d)' = St(p, d)
        BY <4>1 DEF St
      <4> QED BY <1>2, <2>4, <4>2 DEF Shipped, Inside
    <3> QED BY <3>2, <3>3
  <2> QED BY <1>2, <2>3, <2>4, PathsKept
<1> QED BY <1>3, <1>4

LEMMA PathsSave ==
  ASSUME IntakeBase, KeptOK, VaultPaths, NEW k \in Callers, SavePackage(k)
  PROVE  VaultPaths'
<1>1. CASE slab[caller[k].p].gen # caller[k].gen
  <2>1. /\ UNCHANGED <<parcel, slab, path, ever>> /\ caller[k].pc = "save"
        /\ caller' = [caller EXCEPT ![k] = Throws(caller[k])]
    BY <1>1, RefusedSave
  <2>2. /\ \A j \in Callers : j # k => caller'[j] = caller[j]
        /\ ~Ships(caller'[k]) /\ ~Reserves(caller'[k])
    BY <2>1, AfterSave
  <2>3. \A p \in Packages \ ever'.overlapped, d \in Certs : Shipped(p, d)' => Shipped(p, d)
    BY <2>1 DEF Shipped, Inside, St
  <2>4. ever.raced \subseteq ever'.raced /\ ever.overlapped \subseteq ever'.overlapped
    BY <2>1
  <2> QED BY <2>1, <2>2, <2>3, <2>4, PathsKept
<1>2. CASE slab[caller[k].p].gen = caller[k].gen
  <2> DEFINE r == caller[k]
             q == r.p
             y == Rewritten(r.op, r.row)
  <2>1. /\ parcel \in [Packages -> ParcelRows] /\ caller \in [Callers -> CallerStates]
        /\ Recent(r, parcel[q], slab[q], ever.overlapped)
    BY CallerFacts DEF IntakeBase, RecordsOK, SavePackage
  <2>2. /\ r \in CallerStates /\ HoldsOK(r) /\ r.pc = "save" /\ q \in Packages
        /\ r.op \in {"slip", "cancel", "track", "arrive", "move", "complete"}
        /\ r.row \in ParcelRows
        /\ parcel' = [parcel EXCEPT ![q] = y]
        /\ caller' = [caller EXCEPT ![k] =
                        IF r.todo = {} THEN CallEnds(r) ELSE [r EXCEPT !.pc = "items"]]
        /\ UNCHANGED <<slab, path>>
        /\ ever'.overlapped = ever.overlapped \cup {z \in {q} : parcel[q] # r.row}
        /\ ever'.raced = ever.raced
    BY <1>2, SavedPackage
  <2>3. \A p \in Packages : parcel'[p] = IF p = q THEN y ELSE parcel[p]
    BY <2>1, <2>2
  <2>4. /\ \A j \in Callers : j # k => caller'[j] = caller[j]
        /\ ~Ships(caller'[k]) /\ ~Reserves(caller'[k])
    <3>1. \/ caller' = [caller EXCEPT ![k] = CallEnds(caller[k])]
          \/ caller' = [caller EXCEPT ![k] = [caller[k] EXCEPT !.pc = "items"]]
      BY <2>2
    <3>2. caller[k].pc \in {"save", "items"} /\ {} \in SUBSET Certs
      BY <2>2
    <3> QED BY <3>1, <3>2, AfterSave
  <2>5. /\ r.op = "slip" => y = [st |-> r.row.st, paper |-> "slip"]
        /\ r.op = "cancel" => y = [st |-> "cancelled", paper |-> r.row.paper]
        /\ r.op = "track" => y = [st |-> "in_transit", paper |-> "tracking"]
        /\ r.op \in {"arrive", "move"} => y = [st |-> "psa_reviewing", paper |-> r.row.paper]
        /\ r.op = "complete" => y = [st |-> "completed", paper |-> r.row.paper]
    BY <2>2, RewrittenRow
  <2> HIDE DEF y
  <2>6. \A p \in Packages, d \in Certs : p # q => (Shipped(p, d)' <=> Shipped(p, d))
    BY <2>2, <2>3 DEF Shipped, Inside, St
  <2>7. CASE r.op # "track"
    <3>1. ASSUME NEW p \in Packages, p \notin ever'.overlapped, NEW d \in Certs,
                 Shipped(p, d)'
          PROVE  Shipped(p, d)
      <4>1. CASE p # q
        BY <2>6, <3>1, <4>1
      <4>2. CASE p = q
        <5>1. parcel[q] = r.row /\ q \notin ever.overlapped
          BY <2>2, <3>1, <4>2
        <5>2. y.paper = "tracking" /\ y.st \in {"in_transit", "psa_reviewing"}
              /\ d \in Inside(q) /\ St(q, d) \notin Ended
          BY <2>2, <2>3, <3>1, <4>2 DEF Shipped, Inside, St
        <5>3. r.op \in {"arrive", "move"} /\ r.row.paper = "tracking"
          BY <2>2, <2>5, <2>7, <5>2
        <5>4. r.row.st \in Underway
          BY <2>2, <5>3 DEF HoldsOK
        <5>5. q \in ever.shipped
          BY <2>2, <5>1, <5>3 DEF KeptOK, TrackedShipped
        <5>6. parcel[q].st = "in_transit"
          BY <5>1, <5>4, <5>5 DEF KeptOK, ShippedPackagesKept, Underway
        <5> QED BY <4>2, <5>1, <5>2, <5>3, <5>6 DEF Shipped
      <4> QED BY <4>1, <4>2
    <3>2. ever.raced \subseteq ever'.raced /\ ever.overlapped \subseteq ever'.overlapped
      BY <2>2
    <3> QED BY <2>2, <2>4, <3>1, <3>2, PathsKept
  <2>8. CASE r.op = "track"
    <3>1. Ships(r)
      BY <2>2, <2>8 DEF Ships
    <3>2. \A p \in Packages \ ever'.overlapped, d \in Certs :
            p = q /\ Shipped(p, d)' => d \in r.certs
      <4>1. InsideOf(slab[q]) = Inside(q)
        BY DEF InsideOf, Inside, St
      <4>2. q \notin ever'.overlapped => Inside(q) \subseteq r.certs
        BY <1>2, <2>1, <2>2, <2>8, <4>1 DEF Recent
      <4> QED BY <2>2, <4>2 DEF Shipped, Inside, St
    <3>3. ShippedClosed'
      <4> SUFFICES ASSUME NEW d \in Certs \ ever.raced,
                          NEW p \in Packages \ ever'.overlapped, Shipped(p, d)'
                   PROVE  ~path[d].open
        BY <2>2 DEF ShippedClosed
      <4>1. CASE p = q
        BY <3>1, <3>2, <4>1 DEF VaultPaths, PathsOK
      <4>2. CASE p # q
        BY <2>2, <2>6, <4>2 DEF VaultPaths, ShippedClosed
      <4> QED BY <4>1, <4>2
    <3>4. \A j \in Callers : Ships(caller'[j]) \/ Reserves(caller'[j]) =>
            j # k /\ caller'[j] = caller[j]
      BY <2>4
    <3>5. \A j \in Callers : Ships(caller'[j]) =>
            \A d \in caller'[j].certs \ ever'.raced : ~path'[d].open
      BY <2>2, <3>4 DEF VaultPaths, PathsOK
    <3>6. \A j, i \in Callers : Ships(caller'[j]) /\ Reserves(caller'[i]) =>
            caller'[j].certs \cap caller'[i].certs \subseteq ever'.raced
      BY <2>2, <3>4 DEF VaultPaths, PathsOK
    <3>7. ASSUME NEW j \in Callers, Reserves(caller'[j]),
                 NEW d \in caller'[j].certs \ ever'.raced,
                 NEW p \in Packages \ ever'.overlapped
          PROVE  ~Shipped(p, d)'
      <4>1. caller'[j] = caller[j] /\ Reserves(caller[j]) /\ d \in Certs
            /\ d \in caller[j].certs \ ever.raced
        <5>1. caller'[j] = caller[j]
          BY <3>4, <3>7
        <5>2. caller[j].certs \subseteq Certs
          BY <2>1 DEF CallerStates
        <5> QED BY <2>2, <3>7, <5>1, <5>2
      <4>2. CASE p = q
        <5>1. r.certs \cap caller[j].certs \subseteq ever.raced
          BY <3>1, <4>1 DEF VaultPaths, PathsOK
        <5> QED BY <3>2, <3>7, <4>1, <4>2, <5>1
      <4>3. CASE p # q
        BY <2>2, <2>6, <3>7, <4>1, <4>3 DEF VaultPaths, PathsOK
      <4> QED BY <4>2, <4>3
    <3> QED BY <3>3, <3>5, <3>6, <3>7 DEF VaultPaths, PathsOK
  <2> QED BY <2>7, <2>8
<1> QED BY <1>1, <1>2

LEMMA PathsInvariance == IntakeSpec => []VaultPaths
<1>1. IntakeInit => VaultPaths
  <2> HAVE IntakeInit
  <2>1. \A k \in Callers : caller[k].pc = "idle"
    BY DEF IntakeInit, AtRest
  <2>2. \A c \in Certs : ~path[c].open
    BY DEF IntakeInit
  <2> QED BY <2>1, <2>2 DEF VaultPaths, PathsOK, ShippedClosed, Ships, Reserves
<1>2. ASSUME IntakeBase, KeptOK, VaultPaths, [IntakeNext]_intakeVars PROVE VaultPaths'
  <2>1. ASSUME NEW k \in Callers, Decides(k) PROVE VaultPaths'
    BY <1>2, <2>1, PathsMail, PathsCheck, PathsMint, PathsReserve DEF Decides
  <2>2. ASSUME NEW k \in Callers, Writes(k) PROVE VaultPaths'
    BY <1>2, <2>2, PathsRows, PathsSave, PathsItem, PathsVerdict DEF Writes
  <2> QED BY <1>2, <2>1, <2>2, StepKinds, PathsAside, PathsFault
<1>3. IntakeBase /\ KeptOK /\ VaultPaths /\ [IntakeNext]_intakeVars => VaultPaths'
  BY <1>2
<1> QED BY <1>1, <1>3, IntakeInvariance, KeptInvariance, PTL DEF IntakeSpec

\* "Self vault lock after ship": a card in a shipped package has no cycle of a
\* direct mint, whatever the order of its seller's and its minter's calls, unless
\* a mint was reserving while a save of its tracking was underway.
THEOREM NobodyVaultsTwice == IntakeSpec => []OneVaultPath
<1>1. VaultPaths => OneVaultPath
  BY DEF VaultPaths, ShippedClosed, OneVaultPath, Shipped
<1> QED BY <1>1, PathsInvariance, PTL
-----------------------------------------------------------------------------
(* What the review of a mail says                                          *)

\* One call moves on and decides nothing about the mail: what it has moved, it
\* still has in hand, or it was cut off, or its package was written over.
LEMMA MailKept ==
  ASSUME MailOK, NEW k \in Callers,
         \A j \in Callers : j # k => caller'[j] = caller[j],
         letter'.st = letter.st, letter'.marked = letter.marked,
         ever'.quarrel = ever.quarrel, ever.torn \subseteq ever'.torn,
         ever.overlapped \subseteq ever'.overlapped,
         Confirms(caller'[k]) => Confirms(caller[k]),
         Dismisses(caller'[k]) => Dismisses(caller[k]),
         \A p \in Marks(caller[k]) :
           p \in Marks(caller'[k]) \cup ever'.torn \cup ever'.overlapped,
         \A p \in ever'.moved : p \in ever.moved \/ p \in Marks(caller'[k])
  PROVE  MailOK'
<1> SUFFICES ASSUME ~ever.quarrel
             PROVE  /\ \A j \in Callers : Confirms(caller'[j]) => letter'.st = "pending"
                    /\ \A j, i \in Callers :
                         Confirms(caller'[j]) /\ Confirms(caller'[i]) => j = i
                    /\ \A j \in Callers :
                         Dismisses(caller'[j]) => letter'.st \in {"pending", "dismissed"}
                    /\ \A j, i \in Callers :
                         ~(Confirms(caller'[j]) /\ Dismisses(caller'[i]))
                    /\ \A p \in ever'.moved \ (ever'.torn \cup ever'.overlapped) :
                         \/ letter'.st = "confirmed" /\ p \in letter'.marked
                         \/ \E j \in Callers : p \in Marks(caller'[j])
  BY DEF MailOK
<1>1. \A j \in Callers : /\ Confirms(caller'[j]) => Confirms(caller[j])
                         /\ Dismisses(caller'[j]) => Dismisses(caller[j])
  OBVIOUS
<1>2. ASSUME NEW p \in ever'.moved, p \notin ever'.torn \cup ever'.overlapped
      PROVE  \/ letter'.st = "confirmed" /\ p \in letter'.marked
             \/ \E j \in Callers : p \in Marks(caller'[j])
  <2>1. CASE p \in Marks(caller'[k])
    BY <2>1
  <2>2. CASE p \notin Marks(caller'[k])
    <3>1. p \in ever.moved \ (ever.torn \cup ever.overlapped)
      BY <1>2, <2>2
    <3>2. CASE letter.st = "confirmed" /\ p \in letter.marked
      BY <3>2
    <3>3. CASE \E j \in Callers : p \in Marks(caller[j])
      <4>1. PICK j \in Callers : p \in Marks(caller[j])
        BY <3>3
      <4>2. j # k
        BY <1>2, <2>2, <4>1
      <4> QED BY <4>1, <4>2
    <3> QED BY <3>1, <3>2, <3>3 DEF MailOK
  <2> QED BY <2>1, <2>2
<1>3. \A j \in Callers : Confirms(caller'[j]) => letter'.st = "pending"
  BY <1>1 DEF MailOK
<1>4. \A j, i \in Callers : Confirms(caller'[j]) /\ Confirms(caller'[i]) => j = i
  BY <1>1 DEF MailOK
<1>5. \A j \in Callers : Dismisses(caller'[j]) => letter'.st \in {"pending", "dismissed"}
  BY <1>1 DEF MailOK
<1>6. \A j, i \in Callers : ~(Confirms(caller'[j]) /\ Dismisses(caller'[i]))
  BY <1>1 DEF MailOK
<1> QED BY <1>2, <1>3, <1>4, <1>5, <1>6

\* A call that has nothing to do with the mail.
LEMMA MailApart ==
  ASSUME MailOK, NEW k \in Callers,
         \A j \in Callers : j # k => caller'[j] = caller[j],
         letter'.st = letter.st, letter'.marked = letter.marked,
         ever'.quarrel = ever.quarrel, ever.torn \subseteq ever'.torn,
         ever.overlapped \subseteq ever'.overlapped, ever'.moved = ever.moved,
         ~Confirms(caller[k]), ~Confirms(caller'[k]), ~Dismisses(caller'[k])
  PROVE  MailOK'
<1>1. Marks(caller[k]) = {}
  BY DEF Marks
<1>2. \A p \in Marks(caller[k]) :
           p \in Marks(caller'[k]) \cup ever'.torn \cup ever'.overlapped
  BY <1>1
<1>3. \A p \in ever'.moved : p \in ever.moved \/ p \in Marks(caller'[k])
  OBVIOUS
<1> QED BY <1>2, <1>3, MailKept

LEMMA MailAside ==
  ASSUME MailOK, AsideStep PROVE MailOK'
<1>1. \A j \in Callers : /\ Confirms(caller'[j]) <=> Confirms(caller[j])
                         /\ Dismisses(caller'[j]) <=> Dismisses(caller[j])
                         /\ Marks(caller'[j]) = Marks(caller[j])
  <2> TAKE j \in Callers
  <2>1. CASE caller'[j] = caller[j]
    BY <2>1
  <2>2. CASE caller'[j] # caller[j]
    <3>1. ~Confirms(caller'[j]) /\ ~Confirms(caller[j])
      BY <2>2 DEF AsideStep, Aside, Confirms
    <3>2. ~Dismisses(caller'[j]) /\ ~Dismisses(caller[j])
      BY <2>2 DEF AsideStep, Aside, Dismisses
    <3> QED BY <3>1, <3>2 DEF Marks
  <2> QED BY <2>1, <2>2
<1> QED BY <1>1 DEF MailOK, AsideStep

\* Steps of the seller and of the direct mint.
LEMMA MailOthers ==
  ASSUME IntakeBase, MailOK, NEW k \in Callers,
         \/ CheckCycles(k) \/ \E c \in Certs : StartDirectMint(k, c) \/ ReservePath(k, c)
         \/ \E S \in SUBSET Certs : UpsertDraft(k, S)
         \/ \E p \in Packages : CreatePackage(k, p)
         \/ SaveVerdict(k) \/ LinkShipped(k) \/ CompleteItem(k) \/ ClearPreShip(k)
  PROVE  MailOK'
<1>1. /\ ever \in Histories /\ caller \in [Callers -> CallerStates]
      /\ caller[k] \in CallerStates /\ HoldsOK(caller[k])
  BY RecordTypes, CallerFacts DEF IntakeBase
<1>2. /\ letter' = letter
      /\ caller[k].pc \in {"cycles", "idle", "reserve", "create", "judge", "link",
                           "complete", "cancel"}
  BY DEF CheckCycles, StartDirectMint, ReservePath, UpsertDraft, CreatePackage,
         SaveVerdict, LinkShipped, CompleteItem, ClearPreShip, SavesItem, Begins, NextCall,
         records
<1>3. /\ \A j \in Callers : j # k => caller'[j] = caller[j]
      /\ caller'[k].pc \in {"idle", "save", "reserve", "attach", "create", "sync",
                            "linked", "completed"}
      /\ caller'[k].pc = "save" => caller'[k].then # "next"
  <2>1. CASE CheckCycles(k)
    <3>1. caller[k].then = "idle"
      BY <1>1, <2>1 DEF CheckCycles, HoldsOK
    <3> QED BY <1>1, <2>1, <3>1 DEF CheckCycles, Sets, Goto, AtRest, CallerStates
  <2>2. CASE \E c \in Certs : StartDirectMint(k, c) \/ ReservePath(k, c)
    <3>1. PICK c \in Certs : StartDirectMint(k, c) \/ ReservePath(k, c)
      BY <2>2
    <3>2. CASE StartDirectMint(k, c)
      BY <1>1, <3>2 DEF StartDirectMint, Sets, AtRest
    <3>3. CASE ReservePath(k, c)
      BY <1>1, <3>3 DEF ReservePath, Sets, Goto, AtRest, CallerStates
    <3> QED BY <3>1, <3>2, <3>3
  <2>3. CASE \E S \in SUBSET Certs : UpsertDraft(k, S)
    BY <1>1, <2>3 DEF UpsertDraft, NextCall, Sets, AtRest
  <2>4. CASE \E p \in Packages : CreatePackage(k, p)
    BY <1>1, <2>4 DEF CreatePackage, Sets, AtRest
  <2>5. CASE SaveVerdict(k)
    BY <1>1, <2>5 DEF SaveVerdict, SavesItem, Sets, Goto, AtRest, CallerStates
  <2>6. CASE LinkShipped(k)
    BY <1>1, <2>6 DEF LinkShipped, SavesItem, Sets, Goto, AtRest, CallerStates
  <2>7. CASE CompleteItem(k)
    BY <1>1, <2>7 DEF CompleteItem, SavesItem, Sets, Goto, AtRest, CallerStates
  <2>8. CASE ClearPreShip(k)
    BY <1>1, <2>8 DEF ClearPreShip, Sets, AtRest
  <2> QED BY <2>1, <2>2, <2>3, <2>4, <2>5, <2>6, <2>7, <2>8
<1>4. /\ ever'.quarrel = ever.quarrel /\ ever'.torn = ever.torn
      /\ ever.overlapped \subseteq ever'.overlapped /\ ever'.moved = ever.moved
  <2>1. \/ UNCHANGED ever
        \/ \E S : ever' = [ever EXCEPT !.overlapped = @ \cup S]
        \/ \E S : ever' = [ever EXCEPT !.raced = @ \cup S]
    BY DEF CheckCycles, StartDirectMint, ReservePath, UpsertDraft, CreatePackage,
         SaveVerdict, LinkShipped, CompleteItem, ClearPreShip, SavesItem
  <2> QED BY <1>1, <2>1 DEF Histories
<1>5. ~Confirms(caller[k]) /\ ~Confirms(caller'[k]) /\ ~Dismisses(caller'[k])
  BY <1>2, <1>3 DEF Confirms, Dismisses
<1>6. letter'.st = letter.st /\ letter'.marked = letter.marked
      /\ ever.torn \subseteq ever'.torn
  BY <1>2, <1>4
<1> QED BY <1>3, <1>4, <1>5, <1>6, MailApart

\* The poll reads the mail.
LEMMA MailPoll ==
  ASSUME IntakeBase, MailOK, NEW k \in Callers, NEW S \in SUBSET Certs, PollReceived(k, S)
  PROVE  MailOK'
<1>1. /\ caller \in [Callers -> CallerStates] /\ caller[k].pc = "idle" /\ ever' = ever
      /\ letter \in [certs : SUBSET Certs, marked : SUBSET Packages, done : BOOLEAN,
                     st : {"none", "pending", "confirmed", "dismissed"}]
  BY RecordTypes DEF IntakeBase, PollReceived, NextCall
<1>2. /\ \A j \in Callers : j # k => caller'[j] = caller[j]
      /\ caller'[k].pc \in {"auto", "label"}
  BY <1>1 DEF PollReceived, Sets, AtRest
<1>3. ~Confirms(caller[k]) /\ ~Confirms(caller'[k]) /\ ~Dismisses(caller'[k])
  BY <1>1, <1>2 DEF Confirms, Dismisses
<1>4. CASE letter.st # "none"
  <2>1. letter' = letter
    BY <1>4 DEF PollReceived
  <2>2. /\ letter'.st = letter.st /\ letter'.marked = letter.marked
        /\ ever'.quarrel = ever.quarrel /\ ever.torn \subseteq ever'.torn
        /\ ever.overlapped \subseteq ever'.overlapped /\ ever'.moved = ever.moved
    BY <1>1, <2>1
  <2> QED BY <1>2, <1>3, <2>2, MailApart
<1>5. CASE letter.st = "none"
  <2>1. letter'.st = "pending"
    BY <1>1, <1>5 DEF PollReceived
  <2> SUFFICES ASSUME ~ever.quarrel
               PROVE  /\ \A j \in Callers : ~Confirms(caller'[j]) /\ ~Dismisses(caller'[j])
                      /\ ever.moved \subseteq ever.torn \cup ever.overlapped
    BY <1>1, <2>1 DEF MailOK
  <2>2. \A j \in Callers : ~Confirms(caller[j]) /\ ~Dismisses(caller[j])
    BY <1>5 DEF MailOK
  <2>3. \A j \in Callers : Marks(caller[j]) = {}
    BY <2>2 DEF Marks
  <2>4. ever.moved \subseteq ever.torn \cup ever.overlapped
    BY <1>5, <2>3 DEF MailOK
  <2> QED BY <1>2, <1>3, <2>2, <2>4
<1> QED BY <1>4, <1>5

\* Only the call that moves on decides about the mail, and what was moved is
\* marked, cut off or written over.
LEMMA MailAlone ==
  ASSUME NEW k \in Callers, \A j \in Callers : j # k => caller'[j] = caller[j],
         ~ever'.quarrel => \A j \in Callers : j # k =>
           /\ ~Confirms(caller[j])
           /\ Dismisses(caller[j]) =>
                letter'.st \in {"pending", "dismissed"} /\ ~Confirms(caller'[k]),
         ~ever'.quarrel => (Confirms(caller'[k]) => letter'.st = "pending"),
         ~ever'.quarrel =>
           (Dismisses(caller'[k]) => letter'.st \in {"pending", "dismissed"}),
         ~ever'.quarrel => \A p \in ever'.moved \ (ever'.torn \cup ever'.overlapped) :
           letter'.st = "confirmed" /\ p \in letter'.marked
  PROVE  MailOK'
<1> SUFFICES ASSUME ~ever'.quarrel
             PROVE  /\ \A j \in Callers : Confirms(caller'[j]) => letter'.st = "pending"
                    /\ \A j, i \in Callers :
                         Confirms(caller'[j]) /\ Confirms(caller'[i]) => j = i
                    /\ \A j \in Callers :
                         Dismisses(caller'[j]) => letter'.st \in {"pending", "dismissed"}
                    /\ \A j, i \in Callers :
                         ~(Confirms(caller'[j]) /\ Dismisses(caller'[i]))
                    /\ \A p \in ever'.moved \ (ever'.torn \cup ever'.overlapped) :
                         \/ letter'.st = "confirmed" /\ p \in letter'.marked
                         \/ \E j \in Callers : p \in Marks(caller'[j])
  BY DEF MailOK
<1>1. \A j \in Callers : Confirms(caller'[j]) => j = k
  OBVIOUS
<1>2. \A r : ~(Confirms(r) /\ Dismisses(r))
  BY DEF Confirms, Dismisses
<1>3. \A j, i \in Callers : ~(Confirms(caller'[j]) /\ Dismisses(caller'[i]))
  BY <1>1, <1>2
<1>4. \A j \in Callers : Dismisses(caller'[j]) => letter'.st \in {"pending", "dismissed"}
  OBVIOUS
<1> QED BY <1>1, <1>3, <1>4

\* While nobody confirms, the packages moved are marked, cut off or written over.
LEMMA MailSettled ==
  ASSUME MailOK, ~ever.quarrel, \A j \in Callers : ~Confirms(caller[j])
  PROVE  \A p \in ever.moved \ (ever.torn \cup ever.overlapped) :
           letter.st = "confirmed" /\ p \in letter.marked
<1>1. \A j \in Callers : Marks(caller[j]) = {}
  BY DEF Marks
<1> QED BY <1>1 DEF MailOK

\* A confirmation or a dismissal begins.
LEMMA MailBegins ==
  ASSUME IntakeBase, MailOK, NEW k \in Callers, ApplyConfirm(k) \/ DismissArrival(k)
  PROVE  MailOK'
<1>1. /\ ever \in Histories /\ caller \in [Callers -> CallerStates]
      /\ caller[k] \in CallerStates /\ letter' = letter
      /\ caller[k].pc \in {"apply", "idle"}
  BY RecordTypes, CallerFacts
     DEF IntakeBase, ApplyConfirm, DismissArrival, Begins, NextCall, records
<1>2. CASE Pending /\ ApplyConfirm(k)
  <2> DEFINE f == Matching
             h == letter.marked
             e == [caller[k] EXCEPT !.pc = "next", !.found = f, !.had = h]
  <2>1. caller' = [caller EXCEPT ![k] = e]
    BY <1>2 DEF ApplyConfirm, Sets
  <2>2. e.pc = "next"
    BY <1>1 DEF CallerStates
  <2>3. (\A j \in Callers : j # k => caller'[j] = caller[j]) /\ caller'[k].pc = "next"
    <3> HIDE DEF e
    <3> QED BY <1>1, <2>1, <2>2
  <2>4. /\ ever'.quarrel <=> ever.quarrel \/ Dismissing \/ Confirming
        /\ ever'.moved = ever.moved /\ ever'.torn = ever.torn
        /\ ever'.overlapped = ever.overlapped
    BY <1>1, <1>2 DEF ApplyConfirm, Histories
  <2>5. ~ever'.quarrel => \A j \in Callers : ~Confirms(caller[j]) /\ ~Dismisses(caller[j])
    BY <2>4 DEF Dismissing, Confirming, Confirms, Dismisses
  <2>6. ~ever'.quarrel => \A p \in ever'.moved \ (ever'.torn \cup ever'.overlapped) :
           letter'.st = "confirmed" /\ p \in letter'.marked
    BY <1>1, <2>4, <2>5, MailSettled
  <2>7. letter'.st = "pending" /\ ~Dismisses(caller'[k])
    BY <1>1, <1>2, <2>3 DEF Pending, Dismisses
  <2> QED BY <2>3, <2>5, <2>6, <2>7, MailAlone
<1>3. CASE ~Pending /\ ApplyConfirm(k)
  <2>1. /\ \A j \in Callers : j # k => caller'[j] = caller[j]
        /\ caller'[k].pc \in {"label", "idle"} /\ ever' = ever
    BY <1>1, <1>3 DEF ApplyConfirm, Finished, Goto, Sets, AtRest, CallerStates
  <2>2. ~Confirms(caller[k]) /\ ~Confirms(caller'[k]) /\ ~Dismisses(caller'[k])
    BY <1>1, <2>1 DEF Confirms, Dismisses
  <2>3. /\ letter'.st = letter.st /\ letter'.marked = letter.marked
        /\ ever'.quarrel = ever.quarrel /\ ever.torn \subseteq ever'.torn
        /\ ever.overlapped \subseteq ever'.overlapped /\ ever'.moved = ever.moved
    BY <1>1, <2>1
  <2> QED BY <2>1, <2>2, <2>3, MailApart
<1>4. CASE DismissArrival(k)
  <2> DEFINE h == letter.marked
             e == [AtRest EXCEPT !.pc = "dismiss", !.had = h]
  <2>1. caller' = [caller EXCEPT ![k] = e]
    BY <1>4 DEF DismissArrival, Sets
  <2>2. e.pc = "dismiss"
    BY DEF AtRest
  <2>3. (\A j \in Callers : j # k => caller'[j] = caller[j]) /\ caller'[k].pc = "dismiss"
    <3> HIDE DEF e
    <3> QED BY <1>1, <2>1, <2>2
  <2>4. /\ ever'.quarrel <=> ever.quarrel \/ Confirming
        /\ ever'.moved = ever.moved /\ ever'.torn = ever.torn
        /\ ever'.overlapped = ever.overlapped
    BY <1>1, <1>4 DEF DismissArrival, Histories
  <2>5. ~ever'.quarrel => \A j \in Callers : ~Confirms(caller[j])
    BY <2>4 DEF Confirming, Confirms
  <2>6. ~ever'.quarrel => \A p \in ever'.moved \ (ever'.torn \cup ever'.overlapped) :
           letter'.st = "confirmed" /\ p \in letter'.marked
    BY <1>1, <2>4, <2>5, MailSettled
  <2>7. letter'.st = "pending" /\ ~Confirms(caller'[k])
    BY <1>1, <1>4, <2>3 DEF DismissArrival, Pending, Confirms
  <2> QED BY <2>3, <2>5, <2>6, <2>7, MailAlone
<1> QED BY <1>2, <1>3, <1>4

\* Its review is saved as confirmed, with all it moved, or as dismissed.
LEMMA MailEnds ==
  ASSUME IntakeBase, MailOK, NEW k \in Callers, SaveConfirmed(k) \/ SaveDismissed(k)
  PROVE  MailOK'
<1>1. /\ ever' = ever /\ caller \in [Callers -> CallerStates]
      /\ caller[k] \in CallerStates /\ HoldsOK(caller[k])
      /\ letter \in [certs : SUBSET Certs, marked : SUBSET Packages, done : BOOLEAN,
                     st : {"none", "pending", "confirmed", "dismissed"}]
  BY RecordTypes, CallerFacts DEF IntakeBase, SaveConfirmed, SaveDismissed
<1>2. CASE SaveConfirmed(k)
  <2> DEFINE m == caller[k].had \cup caller[k].marked
  <2>1. /\ caller[k].pc = "confirm"
        /\ letter' = [letter EXCEPT !.st = "confirmed", !.marked = m]
    BY <1>2 DEF SaveConfirmed
  <2>2. letter'.st = "confirmed" /\ letter'.marked = m
    <3> HIDE DEF m
    <3> QED BY <1>1, <2>1
  <2>3. /\ \A j \in Callers : j # k => caller'[j] = caller[j]
        /\ caller'[k].pc \in {"label", "idle"}
    BY <1>1, <1>2 DEF SaveConfirmed, Finished, Goto, Sets, AtRest, CallerStates
  <2>4. ~Confirms(caller'[k]) /\ ~Dismisses(caller'[k])
    BY <2>3 DEF Confirms, Dismisses
  <2>5. Confirms(caller[k]) /\ Marks(caller[k]) = caller[k].marked
    BY <1>1, <2>1 DEF Confirms, Marks, HoldsOK
  <2>6. ~ever'.quarrel =>
          /\ letter.st = "pending"
          /\ \A j \in Callers : (j # k => ~Confirms(caller[j])) /\ ~Dismisses(caller[j])
    BY <1>1, <2>5 DEF MailOK
  <2>7. ~ever'.quarrel => \A p \in ever'.moved \ (ever'.torn \cup ever'.overlapped) :
           letter'.st = "confirmed" /\ p \in letter'.marked
    <3> SUFFICES ASSUME ~ever.quarrel,
                        NEW p \in ever.moved \ (ever.torn \cup ever.overlapped)
                 PROVE  p \in letter'.marked
      BY <1>1, <2>2
    <3>1. PICK j \in Callers : p \in Marks(caller[j])
      BY <1>1, <2>6 DEF MailOK
    <3>2. j = k
      BY <1>1, <2>6, <3>1 DEF Marks
    <3> QED BY <2>2, <2>5, <3>1, <3>2
  <2>8. ~ever'.quarrel => \A j \in Callers : j # k =>
          /\ ~Confirms(caller[j])
          /\ Dismisses(caller[j]) =>
               letter'.st \in {"pending", "dismissed"} /\ ~Confirms(caller'[k])
    BY <2>6
  <2> QED BY <2>3, <2>4, <2>7, <2>8, MailAlone
<1>3. CASE SaveDismissed(k)
  <2> DEFINE m == caller[k].had
  <2>1. /\ caller[k].pc = "dismiss"
        /\ letter' = [letter EXCEPT !.st = "dismissed", !.marked = m]
    BY <1>3 DEF SaveDismissed
  <2>2. letter'.st = "dismissed"
    <3> HIDE DEF m
    <3> QED BY <1>1, <2>1
  <2>3. /\ \A j \in Callers : j # k => caller'[j] = caller[j]
        /\ caller'[k].pc = "idle"
    BY <1>1, <1>3 DEF SaveDismissed, Sets, AtRest
  <2>4. ~Confirms(caller'[k]) /\ ~Dismisses(caller'[k]) /\ Dismisses(caller[k])
    BY <2>1, <2>3 DEF Confirms, Dismisses
  <2>6. ~ever.quarrel =>
          /\ letter.st \in {"pending", "dismissed"}
          /\ \A j \in Callers : ~Confirms(caller[j])
    BY <2>4 DEF MailOK
  <2>7. ~ever'.quarrel => \A p \in ever'.moved \ (ever'.torn \cup ever'.overlapped) :
           letter'.st = "confirmed" /\ p \in letter'.marked
    BY <1>1, <2>6, MailSettled
  <2>8. ~ever'.quarrel => \A j \in Callers : j # k =>
          /\ ~Confirms(caller[j])
          /\ Dismisses(caller[j]) =>
               letter'.st \in {"pending", "dismissed"} /\ ~Confirms(caller'[k])
    BY <1>1, <2>2, <2>4, <2>6
  <2> QED BY <2>3, <2>4, <2>7, <2>8, MailAlone
<1> QED BY <1>2, <1>3

\* A confirmation takes its next package, or has none left.
LEMMA MailNext ==
  ASSUME IntakeBase, MailOK, NEW k \in Callers, NextPackage(k)
  PROVE  MailOK'
<1>1. /\ ever' = ever /\ letter' = letter /\ caller \in [Callers -> CallerStates]
      /\ caller[k] \in CallerStates /\ HoldsOK(caller[k]) /\ caller[k].pc = "next"
      /\ RecordsOK
  BY CallerFacts DEF IntakeBase, NextPackage, records
<1>2. \A j \in Callers : j # k => caller'[j] = caller[j]
  BY <1>1 DEF NextPackage, Goto, Sets
<1>3. \/ caller'[k].pc = "label" /\ caller[k].marked = {}
      \/ /\ caller'[k].pc \in {"next", "save", "confirm"} /\ caller'[k].by = caller[k].by
         /\ caller'[k].marked = caller[k].marked
         /\ caller'[k].pc = "save" => caller'[k].then = "next"
  <2> DEFINE r == caller[k]
  <2>1. CASE r.found = {}
    BY <1>1, <2>1 DEF NextPackage, Goto, Sets, CallerStates
  <2>2. CASE r.found # {}
    <3>1. PICK p \in r.found : LET s == [r EXCEPT !.found = @ \ {p}] IN
            caller' = [caller EXCEPT ![k] =
              IF Arrivable(p)
              THEN With([s EXCEPT !.pc = "save"], "arrive", p, ToReview(p), "next")
              ELSE s]
      BY <2>2 DEF NextPackage, Sets
    <3> DEFINE s == [r EXCEPT !.found = @ \ {p}]
               t == [s EXCEPT !.pc = "save"]
               todo == ToReview(p)
               w == With(t, "arrive", p, todo, "next")
    <3>2. /\ s \in CallerStates /\ s.pc = "next" /\ s.by = r.by /\ s.marked = r.marked
          /\ p \in Packages
      BY <1>1 DEF CallerStates
    <3>3. caller' = [caller EXCEPT ![k] = IF Arrivable(p) THEN w ELSE s]
      BY <3>1
    <3> HIDE DEF s
    <3>4. t \in CallerStates /\ t.pc = "save" /\ t.by = s.by /\ t.marked = s.marked
      BY <3>2 DEF CallerStates
    <3>5. todo \in SUBSET Certs
      BY DEF ToReview, On
    <3> HIDE DEF t, todo
    <3>6. w.pc = "save" /\ w.by = s.by /\ w.marked = s.marked /\ w.then = "next"
      BY <1>1, <3>2, <3>4, <3>5, ReadsPackage
    <3> HIDE DEF w
    <3>7. caller'[k] = IF Arrivable(p) THEN w ELSE s
      BY <1>1, <3>3
    <3> QED BY <3>2, <3>6, <3>7
  <2> QED BY <2>1, <2>2
<1>4. Confirms(caller[k]) /\ Marks(caller[k]) = caller[k].marked
  BY <1>1 DEF Confirms, Marks, HoldsOK
<1>5. /\ Confirms(caller'[k]) => Confirms(caller[k])
      /\ Dismisses(caller'[k]) => Dismisses(caller[k])
  BY <1>3, <1>4 DEF Dismisses
<1>6. Marks(caller[k]) \subseteq Marks(caller'[k])
  BY <1>3, <1>4 DEF Confirms, Marks
<1>7. /\ \A p \in Marks(caller[k]) :
           p \in Marks(caller'[k]) \cup ever'.torn \cup ever'.overlapped
      /\ \A p \in ever'.moved : p \in ever.moved \/ p \in Marks(caller'[k])
  BY <1>1, <1>6
<1>8. /\ letter'.st = letter.st /\ letter'.marked = letter.marked
      /\ ever'.quarrel = ever.quarrel /\ ever.torn \subseteq ever'.torn
      /\ ever.overlapped \subseteq ever'.overlapped
  BY <1>1
<1> QED BY <1>2, <1>5, <1>7, <1>8, MailKept

\* What a confirmation marks once it is through with its package, or skips it.
LEMMA MarksAfter ==
  ASSUME NEW r \in CallerStates, HoldsOK(r), r.pc \in {"save", "items"}
  PROVE  /\ r.p \in Packages
         /\ ~Dismisses(r) /\ ~Dismisses(CallEnds(r)) /\ ~Dismisses(Throws(r))
         /\ Confirms(r) <=> r.then = "next"
         /\ Confirms(CallEnds(r)) <=> r.then = "next"
         /\ Confirms(Throws(r)) <=> r.then = "next"
         /\ r.then = "next" =>
              /\ Marks(r) = r.marked \cup (IF r.pc = "items" THEN {r.p} ELSE {})
              /\ Marks(CallEnds(r)) = r.marked \cup {r.p}
              /\ Marks(Throws(r)) = r.marked
<1>1. r.p \in Packages /\ r.marked \in SUBSET Packages
      /\ r.then \in {"idle", "next", "mint", "clear"}
      /\ (r.then = "next" => r.by # "none")
  BY DEF HoldsOK, CallerStates
<1>2. r.marked \cup {r.p} \in SUBSET Packages
  BY <1>1
<1>3. ~Dismisses(r) /\ (Confirms(r) <=> r.then = "next")
  BY <1>1 DEF Confirms, Dismisses
<1>4. CASE r.then = "next"
  <2> DEFINE e == CallEnds(r)
             t == Throws(r)
  <2>1. e.pc = "next" /\ e.by # "none" /\ e.marked = r.marked \cup {r.p}
    BY <1>1, <1>2, <1>4, ContinuesCall DEF CallEnds
  <2>2. t.pc = "next" /\ t.by # "none" /\ t.marked = r.marked
    BY <1>1, <1>4, ContinuesCall DEF Throws
  <2> HIDE DEF e, t
  <2>3. /\ Confirms(e) /\ Confirms(t) /\ ~Dismisses(e) /\ ~Dismisses(t)
        /\ Marks(e) = r.marked \cup {r.p} /\ Marks(t) = r.marked
    BY <2>1, <2>2 DEF Confirms, Dismisses, Marks
  <2> QED BY <1>1, <1>3, <1>4, <2>3 DEF e, t, Marks
<1>5. CASE r.then # "next"
  <2> DEFINE e == CallEnds(r)
             t == Throws(r)
  <2>1. e.pc # "dismiss" /\ e.by = "none"
    BY <1>1, <1>5, RestCall, ResumesCall DEF CallEnds
  <2>2. t.pc # "dismiss" /\ t.by = "none"
    BY <1>5, RestCall DEF Throws
  <2> HIDE DEF e, t
  <2>3. ~Confirms(e) /\ ~Confirms(t) /\ ~Dismisses(e) /\ ~Dismisses(t)
    BY <2>1, <2>2 DEF Confirms, Dismisses
  <2> QED BY <1>1, <1>3, <1>5, <2>3 DEF e, t
<1> QED BY <1>4, <1>5

\* A package is saved, by a confirmation or another call, or is not.
LEMMA MailSave ==
  ASSUME IntakeBase, MailOK, NEW k \in Callers, SavePackage(k)
  PROVE  MailOK'
<1> DEFINE r == caller[k]
<1>1. /\ caller \in [Callers -> CallerStates] /\ r \in CallerStates /\ HoldsOK(r)
      /\ r.pc = "save"
  BY CallerFacts DEF IntakeBase, SavePackage
<1>2. CASE slab[r.p].gen # r.gen
  <2>1. /\ letter' = letter /\ ever' = ever
        /\ \A j \in Callers : j # k => caller'[j] = caller[j]
        /\ caller'[k] = Throws(r)
    BY <1>1, <1>2, RefusedSave
  <2>2. /\ Confirms(caller'[k]) => Confirms(r)
        /\ Dismisses(caller'[k]) => Dismisses(r)
        /\ Marks(r) \subseteq Marks(caller'[k])
    <3> HIDE DEF r
    <3>1. (Confirms(r) <=> r.then = "next") /\ (Confirms(Throws(r)) <=> r.then = "next")
          /\ ~Dismisses(Throws(r))
      BY <1>1, MarksAfter
    <3>2. r.then = "next" => Marks(r) = r.marked /\ Marks(Throws(r)) = r.marked
      BY <1>1, MarksAfter
    <3>3. ~Confirms(r) => Marks(r) = {}
      BY DEF Marks
    <3> QED BY <2>1, <3>1, <3>2, <3>3
  <2>3. /\ \A p \in Marks(caller[k]) :
             p \in Marks(caller'[k]) \cup ever'.torn \cup ever'.overlapped
        /\ \A p \in ever'.moved : p \in ever.moved \/ p \in Marks(caller'[k])
        /\ letter'.st = letter.st /\ letter'.marked = letter.marked
        /\ ever'.quarrel = ever.quarrel /\ ever.torn \subseteq ever'.torn
        /\ ever.overlapped \subseteq ever'.overlapped
    BY <2>1, <2>2
  <2> QED BY <2>1, <2>2, <2>3, MailKept
<1>3. CASE slab[r.p].gen = r.gen
  <2> DEFINE e == [r EXCEPT !.pc = "items"]
  <2>1. /\ letter' = letter
        /\ caller' = [caller EXCEPT ![k] = IF r.todo = {} THEN CallEnds(r) ELSE e]
        /\ ever.overlapped \subseteq ever'.overlapped
        /\ ever'.moved = ever.moved \cup {q \in {r.p} : r.then = "next"}
        /\ ever'.torn = ever.torn /\ ever'.quarrel = ever.quarrel
    BY <1>3, SavedPackage
  <2>2. e.pc = "items" /\ e.by = r.by /\ e.then = r.then /\ e.p = r.p
        /\ e.marked = r.marked
    BY <1>1 DEF CallerStates
  <2>3. (\A j \in Callers : j # k => caller'[j] = caller[j])
        /\ caller'[k] \in {CallEnds(r), e}
    <3> HIDE DEF e
    <3> QED BY <1>1, <2>1
  <2> HIDE DEF e
  <2>4. CASE r.then = "next"
    <3>1. Confirms(r) /\ Marks(r) = r.marked
      BY <1>1, <2>4, MarksAfter
    <3>2. ~Dismisses(CallEnds(r)) /\ Marks(CallEnds(r)) = r.marked \cup {r.p}
      BY <1>1, <2>4, MarksAfter
    <3>3. ~Dismisses(e) /\ Marks(e) = r.marked \cup {r.p}
      BY <1>1, <2>2, <2>4 DEF HoldsOK, Confirms, Dismisses, Marks
    <3>4. ~Dismisses(caller'[k]) /\ Marks(caller'[k]) = r.marked \cup {r.p}
      BY <2>3, <3>2, <3>3
    <3>5. /\ \A p \in Marks(caller[k]) :
               p \in Marks(caller'[k]) \cup ever'.torn \cup ever'.overlapped
          /\ \A p \in ever'.moved : p \in ever.moved \/ p \in Marks(caller'[k])
          /\ Confirms(caller'[k]) => Confirms(caller[k])
          /\ Dismisses(caller'[k]) => Dismisses(caller[k])
          /\ letter'.st = letter.st /\ letter'.marked = letter.marked
          /\ ever.torn \subseteq ever'.torn
      BY <2>1, <3>1, <3>4
    <3> QED BY <2>1, <2>3, <3>5, MailKept
  <2>5. CASE r.then # "next"
    <3>1. ~Confirms(r) /\ ~Confirms(CallEnds(r)) /\ ~Dismisses(CallEnds(r))
      BY <1>1, <2>5, MarksAfter
    <3>2. ~Confirms(e) /\ ~Dismisses(e)
      BY <2>2, <2>5 DEF Confirms, Dismisses
    <3>3. ~Confirms(caller'[k]) /\ ~Dismisses(caller'[k])
      BY <2>3, <3>1, <3>2
    <3>4. /\ letter'.st = letter.st /\ letter'.marked = letter.marked
          /\ ever'.moved = ever.moved /\ ever.torn \subseteq ever'.torn
      BY <2>1, <2>5
    <3> QED BY <2>1, <2>3, <3>1, <3>3, <3>4, MailApart
  <2> QED BY <2>4, <2>5
<1> QED BY <1>2, <1>3

\* One of its cards is saved, or was replaced.
LEMMA MailItem ==
  ASSUME IntakeBase, MailOK, NEW k \in Callers, NEW c \in Certs, SaveItem(k, c)
  PROVE  MailOK'
<1> DEFINE r == caller[k]
<1>1. /\ caller \in [Callers -> CallerStates] /\ r \in CallerStates /\ HoldsOK(r)
      /\ r.pc = "items" /\ r.p \in Packages
      /\ Recent(r, parcel[r.p], slab[r.p], ever.overlapped)
  BY CallerFacts DEF IntakeBase, SaveItem
<1>2. /\ letter' = letter /\ ever.overlapped \subseteq ever'.overlapped
      /\ ever'.torn = ever.torn /\ ever'.moved = ever.moved
      /\ ever'.quarrel = ever.quarrel
      /\ \A j \in Callers : j # k => caller'[j] = caller[j]
  BY ItemsOnlyStep DEF ItemsOnly
<1>3. /\ letter'.st = letter.st /\ letter'.marked = letter.marked
      /\ ever.torn \subseteq ever'.torn
  BY <1>2
<1>4. /\ ~Dismisses(caller'[k])
      /\ Confirms(caller'[k]) => r.then = "next"
      /\ r.then = "next" =>
           Marks(r) \subseteq Marks(caller'[k]) \cup ever'.torn \cup ever'.overlapped
  <2>1. CASE slab[r.p].gen # r.gen /\ c \in Inside(r.p)
    <3>1. caller'[k] = Throws(r)
      BY <1>1, <2>1 DEF SaveItem, Sets
    <3>2. r.p \in ever'.overlapped
      BY <1>1, <1>2, <2>1 DEF Recent
    <3>3. ~Dismisses(Throws(r)) /\ (Confirms(Throws(r)) <=> r.then = "next")
      BY <1>1, MarksAfter
    <3>4. r.then = "next" =>
            Marks(r) = r.marked \cup {r.p} /\ Marks(Throws(r)) = r.marked
      BY <1>1, MarksAfter
    <3> QED BY <3>1, <3>2, <3>3, <3>4
  <2>2. CASE ~(slab[r.p].gen # r.gen /\ c \in Inside(r.p))
    <3> DEFINE left == r.todo \ {c}
               e == [r EXCEPT !.todo = left]
    <3>1. caller' = [caller EXCEPT ![k] = IF left = {} THEN CallEnds(r) ELSE e]
      BY <2>2, SavedItem
    <3>2. e.pc = "items" /\ e.by = r.by /\ e.then = r.then /\ e.p = r.p
          /\ e.marked = r.marked
      BY <1>1 DEF CallerStates
    <3>3. caller'[k] \in {CallEnds(r), e}
      <4> HIDE DEF e, left
      <4> QED BY <1>1, <3>1
    <3> HIDE DEF e
    <3>4. ~Dismisses(CallEnds(r)) /\ (Confirms(CallEnds(r)) <=> r.then = "next")
      BY <1>1, MarksAfter
    <3>5. r.then = "next" =>
            Marks(r) = r.marked \cup {r.p} /\ Marks(CallEnds(r)) = r.marked \cup {r.p}
      BY <1>1, MarksAfter
    <3>6. ~Dismisses(e) /\ (Confirms(e) => r.then = "next")
      BY <3>2 DEF Confirms, Dismisses
    <3>7. r.then = "next" => Marks(e) = r.marked \cup {r.p}
      BY <1>1, <3>2 DEF HoldsOK, Confirms, Marks
    <3> QED BY <3>3, <3>4, <3>5, <3>6, <3>7
  <2> QED BY <2>1, <2>2
<1>5. CASE r.then = "next"
  <2>1. Confirms(r)
    BY <1>1, <1>5, MarksAfter
  <2>2. /\ Confirms(caller'[k]) => Confirms(caller[k])
        /\ Dismisses(caller'[k]) => Dismisses(caller[k])
        /\ \A p \in Marks(caller[k]) :
             p \in Marks(caller'[k]) \cup ever'.torn \cup ever'.overlapped
        /\ \A p \in ever'.moved : p \in ever.moved \/ p \in Marks(caller'[k])
    BY <1>2, <1>4, <1>5, <2>1
  <2> QED BY <1>2, <1>3, <2>2, MailKept
<1>6. CASE r.then # "next"
  <2>1. ~Confirms(r)
    BY <1>1, <1>6, MarksAfter
  <2> QED BY <1>2, <1>3, <1>4, <1>6, <2>1, MailApart
<1> QED BY <1>5, <1>6

\* What a confirmation still has to mark is torn when it is cut off.
LEMMA MarksTorn ==
  ASSUME NEW r
  PROVE  Marks(r) \subseteq HalfDone(r)
BY DEF Marks, Confirms, HalfDone

LEMMA MailFault ==
  ASSUME IntakeBase, MailOK, (\E k \in Callers : IntakeFails(k)) \/ IntakeRestart
  PROVE  MailOK'
<1>1. /\ letter' = letter /\ ever'.overlapped = ever.overlapped
      /\ ever.torn \subseteq ever'.torn /\ ever'.moved = ever.moved
      /\ ever'.quarrel = ever.quarrel
      /\ ever \in Histories /\ caller \in [Callers -> CallerStates]
  BY FaultStep, RecordTypes DEF records, IntakeBase
<1>2. ASSUME NEW k \in Callers, IntakeFails(k) PROVE MailOK'
  <2> DEFINE r == caller[k]
             h == HalfDone(r)
             e == IF r.by = "auto" /\ r.pc \in {"apply", "next", "confirm"}
                  THEN [AtRest EXCEPT !.pc = "label", !.by = "auto"] ELSE Throws(r)
  <2>1. /\ caller' = [caller EXCEPT ![k] = e] /\ ever' = [ever EXCEPT !.torn = @ \cup h]
        /\ r \in CallerStates /\ HoldsOK(r)
    BY <1>2, CallerFacts DEF IntakeFails, Sets
  <2>2. h \subseteq ever'.torn
    <3> HIDE DEF h
    <3> QED BY <1>1, <2>1 DEF Histories
  <2>3. Marks(r) \subseteq h
    BY MarksTorn
  <2>4. ~Dismisses(e) /\ (Confirms(e) => Confirms(r))
    <3>1. CASE r.by = "auto" /\ r.pc \in {"apply", "next", "confirm"}
      BY <3>1 DEF AtRest, Confirms, Dismisses
    <3>2. CASE ~(r.by = "auto" /\ r.pc \in {"apply", "next", "confirm"})
      <4>1. CASE r.then = "next"
        <5>1. r.pc \in {"save", "items"}
          BY <2>1, <4>1 DEF HoldsOK
        <5> QED BY <2>1, <3>2, <4>1, <5>1, MarksAfter
      <4>2. CASE r.then # "next"
        BY <3>2, <4>2 DEF Throws, AtRest, Confirms, Dismisses
      <4> QED BY <4>1, <4>2
    <3> QED BY <3>1, <3>2
  <2> HIDE DEF e, h
  <2>5. (\A j \in Callers : j # k => caller'[j] = caller[j]) /\ caller'[k] = e
    BY <1>1, <2>1
  <2>6. /\ Confirms(caller'[k]) => Confirms(caller[k])
        /\ Dismisses(caller'[k]) => Dismisses(caller[k])
        /\ \A p \in Marks(caller[k]) :
             p \in Marks(caller'[k]) \cup ever'.torn \cup ever'.overlapped
        /\ \A p \in ever'.moved : p \in ever.moved \/ p \in Marks(caller'[k])
        /\ letter'.st = letter.st /\ letter'.marked = letter.marked
        /\ ever.overlapped \subseteq ever'.overlapped
    BY <1>1, <2>2, <2>3, <2>4, <2>5
  <2> QED BY <1>1, <2>5, <2>6, MailKept
<1>3. CASE IntakeRestart
  <2> DEFINE h == UNION {HalfDone(caller[k]) : k \in Callers}
  <2>1. /\ \A k \in Callers : caller'[k] = AtRest
        /\ ever' = [ever EXCEPT !.torn = @ \cup h]
    BY <1>3 DEF IntakeRestart
  <2>2. h \subseteq ever'.torn
    <3> HIDE DEF h
    <3> QED BY <1>1, <2>1 DEF Histories
  <2>3. \A k \in Callers : Marks(caller[k]) \subseteq ever'.torn
    BY <2>2, MarksTorn
  <2>4. \A k \in Callers : ~Confirms(caller'[k]) /\ ~Dismisses(caller'[k])
    BY <2>1, RestCall DEF Confirms, Dismisses
  <2>5. ~ever'.quarrel => \A p \in ever'.moved \ (ever'.torn \cup ever'.overlapped) :
           letter'.st = "confirmed" /\ p \in letter'.marked
    BY <1>1, <2>3 DEF MailOK
  <2> QED BY <2>4, <2>5 DEF MailOK
<1> QED BY <1>2, <1>3

LEMMA MailInvariance == IntakeSpec => []MailOK
<1>1. IntakeInit => MailOK
  <2> HAVE IntakeInit
  <2>1. \A k \in Callers : ~Confirms(caller[k]) /\ ~Dismisses(caller[k])
    BY RestCall DEF IntakeInit, Confirms, Dismisses
  <2>2. ever.moved = {}
    BY DEF IntakeInit, NothingYet
  <2> QED BY <2>1, <2>2 DEF MailOK
<1>2. ASSUME IntakeBase, MailOK, [IntakeNext]_intakeVars PROVE MailOK'
  <2>1. ASSUME NEW k \in Callers, Decides(k) PROVE MailOK'
    BY <1>2, <2>1, MailOthers, MailPoll, MailBegins, MailEnds, MailNext DEF Decides
  <2>2. ASSUME NEW k \in Callers, Writes(k) PROVE MailOK'
    BY <1>2, <2>2, MailOthers, MailSave, MailItem DEF Writes
  <2> QED BY <1>2, <2>1, <2>2, StepKinds, MailAside, MailFault
<1>3. IntakeBase /\ MailOK /\ [IntakeNext]_intakeVars => MailOK'
  BY <1>2
<1> QED BY <1>1, <1>3, IntakeInvariance, PTL DEF IntakeSpec

\* What the review of a mail says, it did (applyPsaArrivalConfirm,
\* dismissPsaArrivalReview): dismissed, it moved no package; confirmed, it names
\* those it moved; unless two decided it at a time, the confirmation was cut off,
\* or a package was written over.
THEOREM ReviewsTellTheirMoves == IntakeSpec => []ReviewsTellMoves
<1>1. MailOK => ReviewsTellMoves
  <2> SUFFICES ASSUME MailOK, ~ever.quarrel, letter.st \in {"dismissed", "confirmed"}
               PROVE  \A p \in ever.moved \ (ever.torn \cup ever.overlapped) :
                        letter.st = "confirmed" /\ p \in letter.marked
    BY DEF ReviewsTellMoves
  <2>1. \A j \in Callers : ~Confirms(caller[j])
    BY DEF MailOK
  <2> QED BY <2>1, MailSettled
<1> QED BY <1>1, MailInvariance, PTL

-----------------------------------------------------------------------------
(* The two services in one run                                              *)

LEMMA DesksRunApart == Spec => QueueSpec /\ IntakeSpec
<1>1. Init => QueueInit /\ IntakeInit
  BY DEF Init
<1>2. [Next]_<<desk, queueVars, intakeVars>> =>
        [QueueNext]_queueVars /\ [IntakeNext]_intakeVars
  BY DEF Next
<1> QED BY <1>1, <1>2, PTL DEF Spec, QueueSpec, IntakeSpec

\* Whichever of the two services runs, beside any behaviour of the other's start,
\* rows and calls keep the values their columns and types allow.
THEOREM DesksTypeCorrect == Spec => []TypeOK
<1>1. QueueTypeOK /\ IntakeTypeOK => TypeOK
  BY DEF TypeOK
<1> QED BY <1>1, DesksRunApart, QueueTypeCorrect, IntakeTypeCorrect, PTL
=============================================================================
