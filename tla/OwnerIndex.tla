---------------------------- MODULE OwnerIndex -----------------------------
(***************************************************************************)
(* The owner index of one RWA contract: rwa_tokens.owner_wallet, kept by   *)
(* replaying Transfer logs (RwaTokenOwnerIndexService, driven by           *)
(* RwaTransferIndexListenerService) and written directly by handlers that  *)
(* just read or changed an owner: settle, redeem custody, stale asks, the  *)
(* chain writer, the portfolio check and the full ownerOf scan.            *)
(*                                                                         *)
(* The listener is one chain of timers: pc is the timer armed or the call  *)
(* it stands at.  A writer keeps the owner it learned at some block until  *)
(* its recordOwner runs; the replay may have gone past that block.         *)
(***************************************************************************)
EXTENDS TransferLog

CONSTANTS
  Writers,    \* handlers that learned an owner and will record it
  Chunk,      \* blocks per eth_getLogs
  PassBlocks, \* blocks per backfill pass,
  PollBlocks, \* and per idle poll
  MaxLog,     \* bound on the chain's length
  MaxFaults   \* bound on failing calls and restarts

ASSUME BoundAssumption ==
  /\ MaxLog \in Nat /\ MaxFaults \in Nat
  /\ Chunk \in Nat \ {0} /\ PassBlocks \in Nat \ {0} /\ PollBlocks \in Nat \ {0}

VARIABLES
  log,     \* the chain
  row,     \* rwa_tokens: is there a row, owner_wallet, is burned_at set
  cursor,  \* rwa_owner_index_cursors: last_scanned_block, backfill_complete
  pc,      \* the listener: where it stands,
  mode,    \*   "backfill" or "poll",
  snap,    \*   backfill_complete as the pass read it,
  head,    \*   the chain's length as the pass read it,
  next,    \*   first block not processed,
  end,     \*   last block of the chunk in hand,
  todo,    \*   its Transfers not applied yet,
  done,    \*   blocks processed by the pass,
  moved,   \*   did the pass see a Transfer,
  failed,  \*   did the pass fail
  note,    \* writers: what is to record, and the block it was learned at
  raced,   \* history: tokens overwritten with an owner the replay had passed
  faults   \* history: failures so far

db    == <<row, cursor>>
calc  == <<snap, head, next, end, todo, done, moved>>
pass  == <<mode, failed, calc>>
vars  == <<log, db, pc, pass, note, raced, faults>>

Absent == [kept |-> FALSE, owner |-> Nobody, burned |-> FALSE]
Rows   == [kept : BOOLEAN, owner : Wallets \cup {Nobody}, burned : BOOLEAN]

NoNote == [kind |-> "none", token |-> NoToken, at |-> 0]
Notes  == {"none", "one", "heal", "portfolio", "mark"}

\* The calls inside backfillFromTransferLogs, whose errors its caller catches.
InPass == {"begin", "fetch", "apply", "save", "count", "mark"}
\* The timers and isIndexReady queries no try covers.
Bare   == {"boot", "idle", "wait", "recheck"}

\* getTokenIdsByOwner: rows with an owner and no burned_at.
View(r) == IF r.burned THEN Nobody ELSE r.owner
view == [t \in Tokens |-> View(row[t])]

\* recordBurn leaves a missing row missing; recordOwner upserts owner_wallet
\* and never clears burned_at.
RecordBurn(r) == IF r.kept THEN [r EXCEPT !.owner = Nobody, !.burned = TRUE]
                           ELSE r
RecordOwner(r, o) == [r EXCEPT !.kept = TRUE, !.owner = o]
RecordTransfer(r, o) == IF o = Nobody THEN RecordBurn(r) ELSE RecordOwner(r, o)

\* totalSupply
Supply == Cardinality(LiveTokens(log))

\* Blocks whose Transfers the replay has applied.
Passed == (1..(IF pc \in {"apply", "save"} THEN end ELSE cursor.at)) \ todo

\* The replay applied a Transfer of t after block k.
Overtaken(t, k) == \E i \in Passed : i > k /\ log[i].token = t

\* S was written with what its writer learned at block k.
Learned(S, k) ==
  raced' = (raced \ S) \cup
           {t \in S : Overtaken(t, k) /\ ~row'[t].burned}

Init ==
  /\ log = << >>
  /\ row = [t \in Tokens |-> Absent]
  /\ cursor = [at |-> 0, complete |-> FALSE]
  /\ pc = "boot" /\ mode = "backfill" /\ failed = FALSE
  /\ snap = FALSE /\ head = 0 /\ next = 1 /\ end = 0 /\ todo = {}
  /\ done = 0 /\ moved = FALSE
  /\ note = [w \in Writers |-> NoNote]
  /\ raced = {} /\ faults = 0
-----------------------------------------------------------------------------
(* The chain.                                                              *)
Mine(e) ==
  /\ Len(log) < MaxLog
  /\ Legal(log, e)
  /\ log' = Append(log, e)
  /\ UNCHANGED <<db, pc, pass, note, raced, faults>>

(* The listener: bootstrap, the backfill timer, the idle-poll timer.       *)
Bootstrap ==
  /\ pc = "boot"
  /\ pc' = IF cursor.complete THEN "idle" ELSE "wait"
  /\ UNCHANGED <<log, db, pass, note, raced, faults>>

RunBackfillPass ==
  /\ pc = "wait"
  /\ pc' = IF cursor.complete THEN "idle" ELSE "begin"
  /\ mode' = "backfill" /\ failed' = FALSE
  /\ UNCHANGED <<log, db, calc, note, raced, faults>>

PollAllChains ==
  /\ pc = "idle"
  /\ pc' = IF cursor.complete THEN "begin" ELSE "wait"
  /\ mode' = "poll" /\ failed' = FALSE
  /\ UNCHANGED <<log, db, calc, note, raced, faults>>

\* backfillFromTransferLogs ends, its locals gone: the poll arms its timer,
\* the backfill pass asks again whether the index is ready.
After == IF mode = "poll" THEN "idle" ELSE "recheck"
Leave ==
  /\ pc' = After
  /\ snap' = FALSE /\ head' = 0 /\ next' = 1 /\ end' = 0 /\ todo' = {}
  /\ done' = 0 /\ moved' = FALSE

ResumeAfter == cursor.at + 1

Begin ==
  /\ pc = "begin"
  /\ IF ResumeAfter > Len(log)
     THEN Leave
     ELSE /\ snap' = cursor.complete
          /\ head' = Len(log)
          /\ next' = ResumeAfter
          /\ pc' = "fetch"
          /\ UNCHANGED <<end, todo, done, moved>>
  /\ UNCHANGED <<log, db, mode, failed, note, raced, faults>>

\* Bug: the pass stops before the chunk that would reach its limit.
PausedEarly == done + Chunk >= (IF mode = "poll" THEN PollBlocks ELSE PassBlocks)

Paused == done >= (IF mode = "poll" THEN PollBlocks ELSE PassBlocks)

\* Math.min(start + chunk - 1, latest)
ChunkEnd == IF next + Chunk - 1 < head THEN next + Chunk - 1 ELSE head

Fetch ==
  /\ pc = "fetch"
  /\ IF next > head \/ Paused
     THEN /\ pc' = "count"
          /\ UNCHANGED <<end, todo, moved>>
     ELSE /\ end' = ChunkEnd
          /\ todo' = {i \in next..end' : log[i] # Quiet}
          /\ moved' = (moved \/ todo' # {})
          /\ pc' = IF todo' = {} THEN "save" ELSE "apply"
  /\ UNCHANGED <<log, db, mode, snap, head, next, done, failed, note,
                 raced, faults>>

\* Bug: the batch is not sorted.
AnyOrder(S) == S

\* The batch is sorted by block and log index.
Soonest(S) == {i \in S : \A j \in S : i <= j}

Apply(i) ==
  /\ pc = "apply"
  /\ i \in Soonest(todo)
  /\ row' = [row EXCEPT ![log[i].token] = RecordTransfer(@, log[i].to)]
  /\ raced' = raced \ {log[i].token}
  /\ todo' = todo \ {i}
  /\ pc' = IF todo' = {} THEN "save" ELSE "apply"
  /\ UNCHANGED <<log, cursor, mode, snap, head, next, end, done, moved,
                 failed, note, faults>>

\* Bug: a block is skipped between two chunks.
ResumeLate == end + 2

ResumeAt == end + 1

\* backfill_complete is saved as the pass read it.
Save ==
  /\ pc = "save"
  /\ cursor' = [at |-> end, complete |-> snap]
  /\ done' = done + (end - next + 1)
  /\ next' = ResumeAt
  /\ pc' = "fetch"
  /\ UNCHANGED <<log, row, mode, snap, head, end, todo, moved, failed,
                 note, raced, faults>>

LiveOwners == Cardinality({t \in Tokens : View(row[t]) # Nobody})

CountLive ==
  /\ pc = "count"
  /\ IF \/ Supply > 0 /\ LiveOwners >= Supply
        \/ next > head /\ ~moved /\ LiveOwners = 0 /\ Supply = 0
     THEN pc' = "mark" /\ UNCHANGED calc
     ELSE Leave
  /\ UNCHANGED <<log, db, mode, failed, note, raced, faults>>

\* Bug: the save also writes last_scanned_block, with its default.
MarkedFromStart(c) == [at |-> 0, complete |-> TRUE]

\* markBackfillComplete saves that column only.
MarkedComplete(c) == [c EXCEPT !.complete = TRUE]

MarkBackfillComplete ==
  /\ pc = "mark"
  /\ cursor' = MarkedComplete(cursor)
  /\ Leave
  /\ UNCHANGED <<log, row, mode, failed, note, raced, faults>>

\* A failed pass backs off; a finished one polls.
Recheck ==
  /\ pc = "recheck"
  /\ pc' = IF failed \/ ~cursor.complete THEN "wait" ELSE "idle"
  /\ failed' = FALSE
  /\ UNCHANGED <<log, db, mode, calc, note, raced, faults>>
-----------------------------------------------------------------------------
(* Other writers: they learn an owner or a burn, and record it later.      *)
Observe(w, t) ==
  /\ note[w] = NoNote
  /\ Minted(log, t)
  /\ note' = [note EXCEPT ![w] = [kind |-> "one", token |-> t, at |-> Len(log)]]
  /\ UNCHANGED <<log, db, pc, pass, raced, faults>>

Record(w) ==
  /\ note[w].kind = "one"
  /\ \E o \in Wallets \cup {Nobody} :
       /\ Held(log, note[w].token, note[w].at, o)
       /\ row' = [row EXCEPT ![note[w].token] = RecordTransfer(@, o)]
  /\ Learned({note[w].token}, note[w].at)
  /\ note' = [note EXCEPT ![w] = NoNote]
  /\ UNCHANGED <<log, cursor, pc, pass, faults>>

\* RwaTokenRegistryService: metadata sync makes a row without an owner.
Register(t) ==
  /\ Minted(log, t)
  /\ ~row[t].kept
  /\ row' = [row EXCEPT ![t].kept = TRUE]
  /\ UNCHANGED <<log, cursor, pc, pass, note, raced, faults>>

\* The scan of every ownerOf: healOwnerRegistryIfIncomplete, or a portfolio
\* request while the index is not ready.
StartScan(w, kind) ==
  /\ note[w] = NoNote
  /\ \/ /\ kind = "heal"
        /\ Cardinality({t \in Tokens : row[t].kept}) < Supply
        /\ \A v \in Writers : note[v].kind # "heal"
     \/ kind = "portfolio" /\ ~cursor.complete
  /\ Supply > 0
  /\ note' = [note EXCEPT ![w] = [kind |-> kind, token |-> NoToken, at |-> Len(log)]]
  /\ UNCHANGED <<log, db, pc, pass, raced, faults>>

BackfillInProgress == cursor.at > 0 /\ ~cursor.complete

Found(w) == LiveTokens(SubSeq(log, 1, note[w].at))

SkipPersist(w) ==
  /\ note[w].kind = "portfolio" /\ BackfillInProgress
  /\ note' = [note EXCEPT ![w] = NoNote]
  /\ UNCHANGED <<log, db, pc, pass, raced, faults>>

PersistOwnerMap(w) ==
  /\ \/ note[w].kind = "heal"
     \/ note[w].kind = "portfolio" /\ ~BackfillInProgress
  /\ \E own \in [Found(w) -> Wallets] :
       /\ \A t \in Found(w) : Held(log, t, note[w].at, own[t])
       /\ row' = [t \in Tokens |->
                    IF t \in Found(w) THEN RecordOwner(row[t], own[t]) ELSE row[t]]
  /\ Learned(Found(w), note[w].at)
  /\ note' = [note EXCEPT ![w].kind = "mark"]
  /\ UNCHANGED <<log, cursor, pc, pass, faults>>

PersistMark(w) ==
  /\ note[w].kind = "mark"
  /\ cursor' = IF Supply > 0 /\ Cardinality(Found(w)) >= Supply
               THEN MarkedComplete(cursor) ELSE cursor
  /\ note' = [note EXCEPT ![w] = NoNote]
  /\ UNCHANGED <<log, row, pc, pass, raced, faults>>
-----------------------------------------------------------------------------
(* Failures.                                                               *)
\* A call inside a pass throws: logged, and the pass or the poll ends.
PassFails ==
  /\ pc \in InPass
  /\ faults < MaxFaults
  /\ faults' = faults + 1
  /\ failed' = (mode = "backfill")
  /\ Leave
  /\ UNCHANGED <<log, db, mode, note, raced>>

\* An isIndexReady query outside every catch throws: no timer is armed again
\* and the process is kept alive.
ReadyQueryFails ==
  /\ pc \in Bare
  /\ faults < MaxFaults
  /\ faults' = faults + 1
  /\ pc' = "stopped"
  /\ UNCHANGED <<log, db, pass, note, raced>>

Crash ==
  /\ faults < MaxFaults
  /\ faults' = faults + 1
  /\ pc' = "boot" /\ mode' = "backfill" /\ failed' = FALSE
  /\ snap' = FALSE /\ head' = 0 /\ next' = 1 /\ end' = 0 /\ todo' = {}
  /\ done' = 0 /\ moved' = FALSE
  /\ note' = [w \in Writers |-> NoNote]
  /\ UNCHANGED <<log, db, raced>>

Listener ==
  \/ Bootstrap \/ RunBackfillPass \/ PollAllChains
  \/ Begin \/ Fetch \/ (\E i \in todo : Apply(i)) \/ Save
  \/ CountLive \/ MarkBackfillComplete \/ Recheck

Foreign ==
  \/ \E w \in Writers : Record(w)
  \/ \E w \in Writers, t \in Tokens : Observe(w, t)
  \/ \E t \in Tokens : Register(t)
  \/ \E w \in Writers, kind \in {"heal", "portfolio"} : StartScan(w, kind)
  \/ \E w \in Writers : SkipPersist(w) \/ PersistOwnerMap(w) \/ PersistMark(w)

Next ==
  \/ \E e \in Entries : Mine(e)
  \/ Listener \/ Foreign
  \/ PassFails \/ ReadyQueryFails \/ Crash

Spec == Init /\ [][Next]_vars

(* Timers fire and every call the listener awaits returns or throws.       *)
FairSpec == Spec /\ WF_vars(Listener)
-----------------------------------------------------------------------------
TypeOK ==
  /\ log \in Seq(Entries) /\ Len(log) <= MaxLog
  /\ row \in [Tokens -> Rows]
  /\ cursor \in [at : 0..Len(log), complete : BOOLEAN]
  /\ pc \in InPass \cup Bare \cup {"stopped"}
  /\ mode \in {"backfill", "poll"}
  /\ snap \in BOOLEAN /\ moved \in BOOLEAN /\ failed \in BOOLEAN
  /\ head \in 0..Len(log) /\ next \in 1..(Len(log) + 1) /\ end \in 0..Len(log)
  /\ todo \in SUBSET (1..Len(log)) /\ done \in 0..MaxLog
  /\ note \in [Writers -> [kind : Notes, token : Tokens \cup {NoToken},
                           at : 0..Len(log)]]
  /\ raced \in SUBSET Tokens
  /\ faults \in 0..MaxFaults

(* The row of a token no late writer overtook shows its owner at a block   *)
(* not older than the cursor, whatever passes, restarts and other writers  *)
(* did: backfillFromTransferLogs saves the cursor after the rows.          *)
IndexIsRecent ==
  \A t \in Tokens \ raced :
    \E k \in cursor.at..Len(log) : Held(log, t, k, view[t])

(* The index behaves as the promised view: its scanned block never goes    *)
(* back or past rows not written, and a token leaves its window only by a  *)
(* late write.                                                             *)
Promise == INSTANCE OwnerView WITH seen <- cursor.at, loose <- raced
RefinesOwnerView == Promise!Spec

(* Once the chain rests, every token ends up with its owner, unless a late *)
(* write overtook it or the listener lost its timers.                      *)
FollowsChain ==
  \A t \in Tokens :
    <>[](\/ pc = "stopped" \/ t \in raced
         \/ Held(log, t, Len(log), view[t]))
=============================================================================
