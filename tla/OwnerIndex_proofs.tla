------------------------- MODULE OwnerIndex_proofs -------------------------
(***************************************************************************)
(* Proofs about OwnerIndex, for any tokens, wallets, writers, chunk sizes  *)
(* and failures: its types, that every token no late write overtook is     *)
(* shown with its owner at a block not older than the cursor, and that the *)
(* index implements OwnerView.                                             *)
(***************************************************************************)
EXTENDS OwnerIndex, TLAPS

\* Nothing happens to a token after its burn.
BurnsLast(l) ==
  \A i, j \in 1..Len(l) :
    (i < j /\ l[i].token \in Tokens /\ l[i].to = Nobody)
      => l[j].token # l[i].token

\* t is shown with its owner at a block from the cursor on that no applied
\* Transfer of t follows.
Fresh(t) ==
  \E k \in cursor.at..Len(log) :
    /\ Held(log, t, k, View(row[t]))
    /\ \A i \in Passed : log[i].token = t => i <= k

AbsentRows == \A t \in Tokens : ~row[t].kept => row[t] = Absent
BurnedRows == \A t \in Tokens : row[t].burned => Burned(log, t)

NotesMinted ==
  \A w \in Writers :
    note[w].kind = "one" =>
      /\ note[w].token \in Tokens
      /\ \E i \in 1..note[w].at : log[i].token = note[w].token

\* Where the pass stands in the chain.
Places ==
  /\ done <= cursor.at
  /\ pc \in {"fetch", "apply", "save"} => next = cursor.at + 1
  /\ pc \in {"apply", "save"} => next <= end /\ todo \subseteq next..end
  /\ pc # "apply" => todo = {}
  /\ \A i \in todo : \A j \in i..end : j \in todo \/ log[j] = Quiet

\* The inductive invariant.
IInv ==
  /\ TypeOK /\ BurnsLast(log) /\ AbsentRows /\ BurnedRows /\ NotesMinted /\ Places
  /\ \A t \in Tokens \ raced : Fresh(t)

-----------------------------------------------------------------------------
(* Lemmas about the chain.                                                 *)

LEMMA EntryType ==
  ASSUME NEW l \in Seq(Entries), NEW i \in 1..Len(l)
  PROVE  /\ l[i] \in Entries
         /\ l[i].token \in Tokens \cup {NoToken}
         /\ l[i].to \in Wallets \cup {Nobody}
         /\ l[i].token \in Tokens => l[i] # Quiet
         /\ l[i].token \notin Tokens => l[i] = Quiet
         /\ l[i] = [token |-> l[i].token, to |-> l[i].to]
<1>1. l[i] \in Entries
  OBVIOUS
<1>2. QED
  BY <1>1, AddressAssumption DEF Entries, Quiet

LEMMA AppendIs ==
  ASSUME NEW l \in Seq(Entries), NEW e \in Entries
  PROVE  /\ Append(l, e) \in Seq(Entries)
         /\ Len(Append(l, e)) = Len(l) + 1 /\ Len(l) \in Nat
         /\ Append(l, e)[Len(l) + 1] = e
         /\ \A i \in 1..Len(l) : Append(l, e)[i] = l[i]
OBVIOUS

LEMMA HeldExtends ==
  ASSUME NEW l \in Seq(Entries), NEW e \in Entries, NEW t,
         NEW k \in 0..Len(l), NEW o, Held(l, t, k, o)
  PROVE  Held(Append(l, e), t, k, o)
<1> DEFINE m == Append(l, e)
<1>1. \A i \in 1..k : m[i] = l[i]
  BY AppendIs
<1> HIDE DEF m
<1>2. Held(m, t, k, o)
  <2>1. CASE o = Nobody /\ \A i \in 1..k : l[i].token # t
    BY <2>1, <1>1 DEF Held
  <2>2. ASSUME NEW i \in 1..k, l[i] = [token |-> t, to |-> o],
               \A j \in (i + 1)..k : l[j].token # t
        PROVE  Held(m, t, k, o)
    <3>1. m[i] = [token |-> t, to |-> o]
      BY <1>1, <2>2
    <3>2. \A j \in (i + 1)..k : m[j].token # t
      BY <1>1, <2>2
    <3>3. QED
      BY <3>1, <3>2 DEF Held
  <2>3. QED
    BY <2>1, <2>2 DEF Held
<1>3. QED
  BY <1>2 DEF m

LEMMA HeldLater ==
  ASSUME NEW l, NEW t, NEW o, NEW k \in Nat, NEW m \in Nat, k <= m,
         Held(l, t, k, o), \A i \in (k + 1)..m : l[i].token # t
  PROVE  Held(l, t, m, o)
<1>1. CASE o = Nobody /\ \A i \in 1..k : l[i].token # t
  <2>1. \A i \in 1..m : l[i].token # t
    BY <1>1
  <2>2. QED
    BY <2>1, <1>1 DEF Held
<1>2. ASSUME NEW i \in 1..k, l[i] = [token |-> t, to |-> o],
             \A j \in (i + 1)..k : l[j].token # t
      PROVE  Held(l, t, m, o)
  <2>1. \A j \in (i + 1)..m : l[j].token # t
    BY <1>2
  <2>2. i \in 1..m
    OBVIOUS
  <2>3. QED
    BY <2>1, <2>2, <1>2 DEF Held
<1>3. QED
  BY <1>1, <1>2 DEF Held

LEMMA HeldHere ==
  ASSUME NEW l, NEW t, NEW o, NEW i \in Nat \ {0},
         l[i] = [token |-> t, to |-> o]
  PROVE  Held(l, t, i, o)
BY DEF Held

LEMMA HeldBurned ==
  ASSUME NEW l \in Seq(Entries), BurnsLast(l), NEW t \in Tokens, Burned(l, t)
  PROVE  Held(l, t, Len(l), Nobody)
<1>1. PICK i \in 1..Len(l) : l[i] = [token |-> t, to |-> Nobody]
  BY DEF Burned
<1>2. \A j \in (i + 1)..Len(l) : l[j].token # t
  BY <1>1 DEF BurnsLast
<1>3. QED
  BY <1>1, <1>2 DEF Held

\* Who held a minted token after its mint: a wallet, or nobody after a burn.
LEMMA HeldBy ==
  ASSUME NEW l \in Seq(Entries), NEW t \in Tokens, NEW k \in 0..Len(l),
         NEW o, Held(l, t, k, o), \E i \in 1..k : l[i].token = t, o = Nobody
  PROVE  Burned(l, t)
BY DEF Held, Burned
-----------------------------------------------------------------------------
(* Lemmas about the index.                                                 *)

LEMMA RowType ==
  ASSUME NEW r \in Rows, NEW o \in Wallets \cup {Nobody}, ~r.kept => r = Absent
  PROVE  /\ RecordTransfer(r, o) \in Rows
         /\ ~RecordTransfer(r, o).kept => RecordTransfer(r, o) = Absent
         /\ RecordTransfer(r, o).burned => (r.burned \/ o = Nobody)
         /\ View(r) \in Wallets \cup {Nobody}
         /\ ~RecordTransfer(r, o).burned => View(RecordTransfer(r, o)) = o
         /\ RecordTransfer(r, o).burned => View(RecordTransfer(r, o)) = Nobody
<1>1. CASE o = Nobody /\ r.kept
  BY <1>1 DEF RecordTransfer, RecordBurn, Rows, View
<1>2. CASE o = Nobody /\ ~r.kept
  BY <1>2 DEF RecordTransfer, RecordBurn, Rows, View, Absent
<1>3. CASE o # Nobody
  BY <1>3 DEF RecordTransfer, RecordOwner, Rows, View
<1>4. QED
  BY <1>1, <1>2, <1>3

\* A step that leaves the chain, the token's row and the cursor's block alone
\* and applies no further Transfer of it keeps the token fresh.
LEMMA FreshKept ==
  ASSUME TypeOK, log' = log, cursor'.at = cursor.at,
         NEW t \in Tokens, row'[t] = row[t], Fresh(t),
         \A i \in Passed' : i \in Passed \/ log[i].token # t
  PROVE  Fresh(t)'
<1>1. PICK k \in cursor.at..Len(log) :
        Held(log, t, k, View(row[t])) /\ \A i \in Passed : log[i].token = t => i <= k
  BY DEF Fresh
<1>2. \A i \in Passed' : log'[i].token = t => i <= k
  BY <1>1
<1>3. Held(log', t, k, View(row'[t]))
  BY <1>1
<1>4. k \in cursor'.at..Len(log')
  BY <1>1
<1>5. QED
  BY <1>2, <1>3, <1>4 DEF Fresh

\* Blocks applied are blocks of the chain.
LEMMA PassedBlocks ==
  ASSUME TypeOK
  PROVE  Passed \subseteq 1..Len(log)
BY DEF TypeOK, Passed

\* A token whose row was written with its owner at block b is fresh, unless
\* the replay had applied a later Transfer of it and the row is not burned.
LEMMA WrittenFresh ==
  ASSUME IInv, log' = log, cursor' = cursor, Passed' = Passed,
         NEW t \in Tokens, NEW b \in 0..Len(log),
         NEW o \in Wallets \cup {Nobody}, Held(log, t, b, o),
         row'[t] = RecordTransfer(row[t], o),
         o = Nobody => Burned(log, t),
         row'[t].burned \/ ~Overtaken(t, b)
  PROVE  Fresh(t)'
<1>0. /\ row[t] \in Rows /\ log \in Seq(Entries) /\ BurnsLast(log)
      /\ cursor.at \in 0..Len(log) /\ Len(log) \in Nat
      /\ Passed \subseteq 1..Len(log)
  BY PassedBlocks DEF IInv, TypeOK
<1>1. /\ row'[t].burned => Burned(log, t) /\ View(row'[t]) = Nobody
      /\ ~row'[t].burned => View(row'[t]) = o
  BY RowType, <1>0 DEF IInv, AbsentRows, BurnedRows
<1>2. CASE row'[t].burned
  <2>1. Held(log', t, Len(log), View(row'[t]))
    BY <1>0, <1>1, <1>2, HeldBurned
  <2>2. \A i \in Passed' : log'[i].token = t => i <= Len(log)
    BY <1>0
  <2>3. QED
    BY <2>1, <2>2, <1>0 DEF Fresh
<1>3. CASE ~row'[t].burned
  <2> DEFINE k == IF b < cursor.at THEN cursor.at ELSE b
  <2>1. \A i \in Passed : log[i].token = t => i <= b
    <3>1. ~Overtaken(t, b)
      BY <1>3
    <3>2. QED
      BY <3>1, <1>0 DEF Overtaken
  <2>2. Held(log, t, k, o)
    <3>1. CASE b < cursor.at
      <4>1. \A i \in (b + 1)..cursor.at : i \in Passed
        BY <1>0 DEF Passed, IInv, Places, TypeOK
      <4>2. \A i \in (b + 1)..cursor.at : log[i].token # t
        BY <4>1, <2>1
      <4>3. QED
        BY <4>2, <3>1, <1>0, HeldLater
    <3>2. CASE ~(b < cursor.at)
      BY <3>2
    <3>3. QED
      BY <3>1, <3>2
  <2>3. k \in cursor'.at..Len(log') /\ \A i \in Passed' : log'[i].token = t => i <= k
    BY <2>1, <1>0
  <2>4. Held(log', t, k, View(row'[t]))
    BY <2>2, <1>1, <1>3
  <2>5. QED
    BY <2>3, <2>4 DEF Fresh
<1>4. QED
  BY <1>2, <1>3
-----------------------------------------------------------------------------
(* Types, places and the small parts.                                      *)

LEMMA InitInv == Init => IInv
<1> SUFFICES ASSUME Init PROVE IInv
  OBVIOUS
<1>1. TypeOK
  <2>1. log \in Seq(Entries) /\ Len(log) = 0
    BY DEF Init
  <2>2. Absent \in Rows /\ NoNote \in [kind : Notes, token : Tokens \cup {NoToken},
                                      at : 0..0]
    BY DEF Absent, Rows, NoNote, Notes
  <2>3. row \in [Tokens -> Rows]
    BY <2>2 DEF Init
  <2>4. note \in [Writers -> [kind : Notes, token : Tokens \cup {NoToken}, at : 0..0]]
    BY <2>2 DEF Init
  <2>8. cursor \in [at : 0..0, complete : BOOLEAN]
    BY DEF Init
  <2>5. /\ raced \in SUBSET Tokens
        /\ pc \in Bare /\ mode \in {"backfill", "poll"}
        /\ snap \in BOOLEAN /\ moved \in BOOLEAN /\ failed \in BOOLEAN
        /\ head = 0 /\ next = 1 /\ end = 0 /\ todo = {} /\ done = 0 /\ faults = 0
    BY DEF Init, Bare
  <2>6. /\ head \in 0..0 /\ next \in 1..(0 + 1) /\ end \in 0..0
        /\ todo \in SUBSET (1..0) /\ done \in 0..MaxLog /\ faults \in 0..MaxFaults
    BY <2>5, BoundAssumption
  <2>7. QED
    BY <2>1, <2>3, <2>4, <2>5, <2>6, <2>8, BoundAssumption DEF TypeOK
<1>2. BurnsLast(log) /\ AbsentRows /\ BurnedRows /\ NotesMinted /\ Places
  BY DEF Init, BurnsLast, AbsentRows, BurnedRows, NotesMinted, Places, Absent,
         NoNote
<1>3. ASSUME NEW t \in Tokens PROVE Fresh(t)
  <2>1. Held(log, t, 0, View(row[t]))
    BY DEF Init, Held, View, Absent
  <2>2. 0 \in cursor.at..Len(log) /\ Passed = {}
    BY DEF Init, Passed
  <2>3. QED
    BY <2>1, <2>2 DEF Fresh
<1>4. QED
  BY <1>1, <1>2, <1>3 DEF IInv

LEMMA AfterType == After \in {"idle", "recheck"}
BY DEF After

\* The steps that touch neither the chain, the rows nor the scanned block.
Calm ==
  \/ Bootstrap \/ RunBackfillPass \/ PollAllChains \/ Begin \/ Fetch
  \/ CountLive \/ MarkBackfillComplete \/ Recheck
  \/ PassFails \/ ReadyQueryFails \/ Crash

CalmVars ==
  /\ log' = log /\ row' = row /\ raced' = raced
  /\ cursor'.at = cursor.at /\ cursor'.complete \in BOOLEAN

\* The types of the listener's own variables.
PassTypes ==
  /\ pc \in InPass \cup Bare \cup {"stopped"}
  /\ mode \in {"backfill", "poll"}
  /\ snap \in BOOLEAN /\ moved \in BOOLEAN /\ failed \in BOOLEAN
  /\ head \in 0..Len(log) /\ next \in 1..(Len(log) + 1) /\ end \in 0..Len(log)
  /\ todo \in SUBSET (1..Len(log)) /\ done \in 0..MaxLog
  /\ faults \in 0..MaxFaults

RestTypes ==
  /\ log \in Seq(Entries) /\ Len(log) <= MaxLog
  /\ row \in [Tokens -> Rows]
  /\ cursor \in [at : 0..Len(log), complete : BOOLEAN]
  /\ note \in [Writers -> [kind : Notes, token : Tokens \cup {NoToken},
                           at : 0..Len(log)]]
  /\ raced \in SUBSET Tokens

LEMMA TypesSplit == TypeOK <=> PassTypes /\ RestTypes
BY DEF TypeOK, PassTypes, RestTypes

LEMMA CalmPass ==
  ASSUME IInv, Calm
  PROVE  PassTypes' /\ Places' /\ CalmVars
<1>0. /\ PassTypes /\ Places /\ After \in {"idle", "recheck"}
      /\ cursor \in [at : 0..Len(log), complete : BOOLEAN] /\ Len(log) <= MaxLog
      /\ Chunk \in Nat /\ Chunk > 0 /\ MaxFaults \in Nat /\ MaxLog \in Nat
      /\ Len(log) \in Nat
  <2>1. Len(log) \in Nat
    BY DEF IInv, TypeOK
  <2>2. QED
    BY <2>1, AfterType, BoundAssumption, TypesSplit DEF IInv, RestTypes
<1>1. CASE Bootstrap
  BY <1>0, <1>1 DEF Bootstrap, PassTypes, Places, CalmVars, InPass, Bare, db, pass, calc
<1>2. CASE RunBackfillPass
  BY <1>0, <1>2 DEF RunBackfillPass, PassTypes, Places, CalmVars, InPass, Bare, db, pass, calc
<1>3. CASE PollAllChains
  BY <1>0, <1>3 DEF PollAllChains, PassTypes, Places, CalmVars, InPass, Bare, db, pass, calc
<1>L. ASSUME Leave, log' = log, cursor'.at = cursor.at, row' = row, raced' = raced,
             cursor'.complete \in BOOLEAN, faults' \in 0..MaxFaults,
             mode' = mode, failed' \in BOOLEAN
      PROVE  PassTypes' /\ Places' /\ CalmVars
  <2>1. PassTypes'
    <3>1. pc' \in Bare /\ mode' \in {"backfill", "poll"}
      BY <1>0, <1>L DEF Leave, Bare, PassTypes
    <3>2. /\ head' \in 0..Len(log') /\ next' \in 1..(Len(log') + 1)
          /\ end' \in 0..Len(log')
      BY <1>0, <1>L DEF Leave
    <3>3. todo' \in SUBSET (1..Len(log')) /\ done' \in 0..MaxLog
      BY <1>0, <1>L DEF Leave
    <3>4. snap' \in BOOLEAN /\ moved' \in BOOLEAN
      BY <1>L DEF Leave
    <3>5. QED
      BY <3>1, <3>2, <3>3, <3>4, <1>L DEF PassTypes
  <2>2. Places' /\ CalmVars
    BY <1>0, <1>L DEF Leave, Places, CalmVars
  <2>3. QED
    BY <2>1, <2>2
<1>4. CASE Begin
  <2>1. CASE Leave
    BY <1>0, <1>4, <1>L, <2>1 DEF Begin, PassTypes, db
  <2>2. CASE ~Leave
    <3>1. /\ pc = "begin" /\ ~(cursor.at + 1 > Len(log)) /\ snap' = cursor.complete
          /\ head' = Len(log) /\ next' = cursor.at + 1 /\ pc' = "fetch"
          /\ UNCHANGED <<end, todo, done, moved, log, row, cursor, mode, failed,
                         note, raced, faults>>
      BY <1>4, <2>2 DEF Begin, ResumeAfter, db
    <3>2. PassTypes'
      BY <3>1, <1>0 DEF PassTypes, InPass
    <3>3. Places' /\ CalmVars
      BY <3>1, <1>0 DEF Places, CalmVars
    <3>4. QED
      BY <3>2, <3>3
  <2>3. QED
    BY <2>1, <2>2
<1>5. CASE Fetch
  <2>1. CASE pc' = "count"
    BY <1>0, <1>5, <2>1 DEF Fetch, PassTypes, Places, CalmVars, InPass, Bare, db
  <2>2. CASE pc' # "count"
    <3>1. /\ pc = "fetch" /\ ~(next > head) /\ end' = ChunkEnd
          /\ todo' = {i \in next..end' : log[i] # Quiet}
          /\ pc' = IF todo' = {} THEN "save" ELSE "apply"
          /\ moved' \in BOOLEAN
          /\ UNCHANGED <<log, db, mode, snap, head, next, done, failed, note,
                         raced, faults>>
      BY <1>5, <2>2 DEF Fetch
    <3>2. end' \in next..head
      BY <3>1, <1>0 DEF ChunkEnd, PassTypes
    <3>3. todo' \subseteq next..end'
      BY <3>1
    <3>4. PassTypes'
      BY <3>1, <3>2, <3>3, <1>0 DEF PassTypes, InPass, Bare
    <3>5. Places' /\ CalmVars
      BY <3>1, <3>2, <3>3, <1>0 DEF Places, CalmVars, PassTypes, db
    <3>6. QED
      BY <3>4, <3>5
  <2>3. QED
    BY <2>1, <2>2
<1>6. CASE CountLive
  <2>1. CASE Leave
    BY <1>0, <1>6, <1>L, <2>1 DEF CountLive, PassTypes, db
  <2>2. CASE ~Leave
    BY <1>0, <1>6, <2>2 DEF CountLive, PassTypes, Places, CalmVars, InPass, Bare, db, calc
  <2>3. QED
    BY <2>1, <2>2
<1>7. CASE MarkBackfillComplete
  BY <1>0, <1>7, <1>L DEF MarkBackfillComplete, MarkedComplete, PassTypes
<1>8. CASE Recheck
  BY <1>0, <1>8 DEF Recheck, PassTypes, Places, CalmVars, InPass, Bare, db, calc
<1>9. CASE PassFails
  BY <1>0, <1>9, <1>L DEF PassFails, PassTypes, db
<1>10. CASE ReadyQueryFails
  BY <1>0, <1>10 DEF ReadyQueryFails, PassTypes, Places, CalmVars, InPass, Bare, db, pass, calc
<1>11. CASE Crash
  <2>1. /\ pc' = "boot" /\ mode' = "backfill" /\ failed' = FALSE /\ faults' = faults + 1
        /\ snap' = FALSE /\ head' = 0 /\ next' = 1 /\ end' = 0 /\ todo' = {}
        /\ done' = 0 /\ moved' = FALSE /\ faults < MaxFaults
        /\ UNCHANGED <<log, row, cursor, raced>>
    BY <1>11 DEF Crash, db
  <2>2. /\ head' \in 0..Len(log') /\ next' \in 1..(Len(log') + 1)
        /\ end' \in 0..Len(log') /\ todo' \in SUBSET (1..Len(log'))
        /\ done' \in 0..MaxLog /\ faults' \in 0..MaxFaults
    BY <2>1, <1>0 DEF PassTypes
  <2>3. PassTypes'
    BY <2>1, <2>2 DEF PassTypes, Bare
  <2>4. Places' /\ CalmVars
    BY <2>1, <1>0 DEF Places, CalmVars
  <2>5. QED
    BY <2>3, <2>4
<1>12. QED
  BY <1>1, <1>2, <1>3, <1>4, <1>5, <1>6, <1>7, <1>8, <1>9, <1>10, <1>11 DEF Calm

LEMMA CalmNotes ==
  ASSUME Calm
  PROVE  note' = note \/ note' = [w \in Writers |-> NoNote]
BY DEF Calm, Bootstrap, RunBackfillPass, PollAllChains, Begin, Fetch,
   CountLive, MarkBackfillComplete, Recheck, PassFails, ReadyQueryFails, Crash

LEMMA CalmTypes ==
  ASSUME IInv, Calm
  PROVE  TypeOK' /\ Places' /\ CalmVars
<1>0. /\ PassTypes' /\ Places' /\ CalmVars /\ RestTypes /\ TypeOK
  BY CalmPass, TypesSplit DEF IInv
<1>1. cursor' \in [at : 0..Len(log'), complete : BOOLEAN]
  <2>1. cursor' = cursor \/ cursor' = MarkedComplete(cursor)
    BY DEF Calm, Bootstrap, RunBackfillPass, PollAllChains, Begin, Fetch,
       CountLive, MarkBackfillComplete, Recheck, PassFails, ReadyQueryFails,
       Crash, db
  <2>2. QED
    BY <2>1, <1>0 DEF RestTypes, CalmVars, MarkedComplete
<1>2. note' \in [Writers -> [kind : Notes, token : Tokens \cup {NoToken},
                            at : 0..Len(log')]]
  <2>0. Len(log) \in Nat
    BY <1>0 DEF RestTypes
  <2>1. NoNote \in [kind : Notes, token : Tokens \cup {NoToken}, at : 0..Len(log)]
    BY <2>0 DEF NoNote, Notes
  <2>2. QED
    BY <2>1, <1>0, CalmNotes DEF RestTypes, CalmVars
<1>3. RestTypes'
  BY <1>0, <1>1, <1>2 DEF RestTypes, CalmVars
<1>4. QED
  BY <1>0, <1>3, TypesSplit DEF TypeOK, PassTypes, RestTypes

LEMMA CalmPassed ==
  ASSUME IInv, Calm
  PROVE  \A i \in Passed' : i \in Passed \/ log[i] = Quiet
<1>0. /\ TypeOK /\ Places /\ TypeOK' /\ Places' /\ CalmVars
      /\ After \in {"idle", "recheck"}
  BY CalmTypes, AfterType DEF IInv
<1>1. CASE Fetch
  <2>1. CASE pc' = "count"
    BY <1>0, <1>1, <2>1 DEF Fetch, CalmVars, Passed
  <2>2. CASE pc' # "count"
    <3>1. /\ pc = "fetch" /\ pc' \in {"apply", "save"} /\ todo = {}
          /\ todo' = {i \in next..end' : log[i] # Quiet} /\ next = cursor.at + 1
          /\ cursor.at \in Nat /\ end' \in Nat
      BY <1>0, <1>1, <2>2 DEF Fetch, Places, TypeOK
    <3>2. Passed = 1..cursor.at /\ Passed' = (1..end') \ todo'
      BY <3>1 DEF Passed
    <3>3. QED
      BY <3>1, <3>2
  <2>3. QED
    BY <2>1, <2>2
<1>2. CASE ~Fetch
  <2>1. pc' \notin {"apply", "save"}
    BY <1>0, <1>2 DEF Calm, Bootstrap, RunBackfillPass, PollAllChains, Begin,
       CountLive, MarkBackfillComplete, Recheck, PassFails, ReadyQueryFails,
       Crash, Leave
  <2>2. 1..cursor.at \subseteq Passed
    BY <1>0 DEF Passed, Places, TypeOK
  <2>3. QED
    BY <2>1, <2>2, <1>0 DEF CalmVars, Passed
<1>3. QED
  BY <1>1, <1>2

LEMMA CalmStep == ASSUME IInv, Calm PROVE IInv'
<1>0. TypeOK /\ TypeOK' /\ Places' /\ CalmVars
  BY CalmTypes DEF IInv
<1>1. ASSUME NEW t \in Tokens \ raced' PROVE Fresh(t)'
  <2>1. \A i \in Passed' : i \in Passed \/ log[i].token # t
    BY CalmPassed, AddressAssumption DEF Quiet
  <2>2. Fresh(t) /\ row'[t] = row[t]
    BY <1>0 DEF IInv, CalmVars
  <2>3. QED
    BY <1>0, <2>1, <2>2, FreshKept DEF CalmVars
<1>2. note' = note \/ note' = [w \in Writers |-> NoNote]
  BY CalmNotes
<1>3. NotesMinted'
  BY <1>0, <1>2 DEF IInv, NotesMinted, CalmVars, NoNote
<1>4. BurnsLast(log)' /\ BurnedRows' /\ AbsentRows'
  BY <1>0 DEF IInv, CalmVars, BurnedRows, AbsentRows
<1>5. QED
  BY <1>0, <1>1, <1>3, <1>4 DEF IInv
-----------------------------------------------------------------------------
(* The steps that move the chain, the rows or the scanned block.           *)

LEMMA MineStep ==
  ASSUME IInv, NEW e \in Entries, Mine(e)
  PROVE  IInv'
<1>0. /\ TypeOK /\ log \in Seq(Entries) /\ log' = Append(log, e) /\ Legal(log, e)
      /\ log' \in Seq(Entries) /\ Len(log') = Len(log) + 1 /\ Len(log) \in Nat
      /\ log'[Len(log) + 1] = e /\ (\A i \in 1..Len(log) : log'[i] = log[i])
      /\ Len(log) < MaxLog /\ MaxLog \in Nat
      /\ UNCHANGED <<db, pc, pass, note, raced, faults>>
  BY AppendIs, BoundAssumption DEF IInv, TypeOK, Mine
<1>1. TypeOK'
  <2>1. PassTypes'
    BY <1>0, TypesSplit DEF PassTypes, pass, calc
  <2>2. RestTypes'
    BY <1>0, TypesSplit DEF RestTypes, db
  <2>3. QED
    BY <2>1, <2>2 DEF TypeOK, PassTypes, RestTypes
<1>2. BurnsLast(log)'
  <2> SUFFICES ASSUME NEW i \in 1..Len(log'), NEW j \in 1..Len(log'),
                      i < j, log'[i].token \in Tokens, log'[i].to = Nobody
               PROVE  log'[j].token # log'[i].token
    BY DEF BurnsLast
  <2>1. CASE j = Len(log) + 1
    <3>1. i \in 1..Len(log) /\ log'[i] = log[i]
      BY <2>1, <1>0
    <3>2. log[i] = [token |-> log[i].token, to |-> Nobody]
      BY <3>1, <1>0, EntryType
    <3>3. Burned(log, log[i].token)
      BY <3>1, <3>2 DEF Burned
    <3>4. e = Quiet \/ ~Burned(log, e.token)
      BY <1>0 DEF Legal
    <3>5. QED
      BY <2>1, <3>1, <3>3, <3>4, <1>0, AddressAssumption DEF Quiet
  <2>2. CASE j # Len(log) + 1
    BY <2>2, <1>0 DEF IInv, BurnsLast
  <2>3. QED
    BY <2>1, <2>2
<1>3. BurnedRows' /\ AbsentRows'
  <2>1. \A t \in Tokens : Burned(log, t) => Burned(log', t)
    BY <1>0 DEF Burned
  <2>2. QED
    BY <2>1, <1>0 DEF IInv, BurnedRows, AbsentRows, db
<1>4. NotesMinted' /\ Places'
  <2>1. \A w \in Writers : note[w].at <= Len(log)
    BY <1>0 DEF TypeOK
  <2>2. NotesMinted'
    BY <2>1, <1>0 DEF IInv, NotesMinted, TypeOK
  <2>3. QED
    <3>1. \A i \in todo' : \A j \in i..end' : j \in todo' \/ log'[j] = Quiet
      <4>1. todo' = todo /\ end' = end /\ todo \subseteq 1..Len(log) /\ end \in 0..Len(log)
        BY <1>0 DEF pass, calc, TypeOK
      <4>2. \A i \in todo : \A j \in i..end : j \in 1..Len(log)
        BY <4>1
      <4>3. QED
        BY <4>1, <4>2, <1>0 DEF IInv, Places
    <3>2. QED
      BY <2>2, <3>1, <1>0 DEF IInv, Places, db, pass, calc
<1>5. ASSUME NEW t \in Tokens \ raced' PROVE Fresh(t)'
  <2>1. PICK k \in cursor.at..Len(log) :
          Held(log, t, k, View(row[t])) /\ \A i \in Passed : log[i].token = t => i <= k
    BY <1>0 DEF IInv, Fresh
  <2>2. k \in 0..Len(log)
    BY <2>1, <1>0 DEF TypeOK
  <2>3. Held(log', t, k, View(row'[t]))
    BY <2>1, <2>2, <1>0, HeldExtends DEF db
  <2>4. Passed' = Passed /\ Passed \subseteq 1..Len(log)
    BY <1>0, PassedBlocks DEF Passed, db, pass, calc
  <2>5. \A i \in Passed' : log'[i].token = t => i <= k
    BY <2>1, <2>4, <1>0
  <2>6. k \in cursor'.at..Len(log')
    BY <1>0, <2>1 DEF db, TypeOK
  <2>7. QED
    BY <2>3, <2>5, <2>6 DEF Fresh
<1>6. QED
  BY <1>1, <1>2, <1>3, <1>4, <1>5 DEF IInv

LEMMA SaveStep == ASSUME IInv, Save PROVE IInv'
<1>0. /\ TypeOK /\ Places /\ pc = "save" /\ todo = {} /\ next = cursor.at + 1
      /\ next <= end /\ end \in 0..Len(log) /\ cursor.at \in 0..Len(log)
      /\ done \in 0..MaxLog /\ done <= cursor.at /\ Len(log) \in Nat /\ MaxLog \in Nat
      /\ Len(log) <= MaxLog
      /\ cursor' = [at |-> end, complete |-> snap] /\ pc' = "fetch"
      /\ done' = done + (end - next + 1) /\ next' = end + 1
      /\ UNCHANGED <<log, row, mode, snap, head, end, todo, moved, failed,
                     note, raced, faults>>
  BY BoundAssumption DEF IInv, Places, TypeOK, Save, ResumeAt
<1>1. done' \in 0..end /\ end > cursor.at
  BY <1>0
<1>2. TypeOK'
  <2>1. PassTypes'
    BY <1>0, <1>1, TypesSplit DEF PassTypes, InPass
  <2>2. RestTypes'
    BY <1>0, TypesSplit DEF RestTypes, PassTypes
  <2>3. QED
    BY <2>1, <2>2 DEF TypeOK, PassTypes, RestTypes
<1>3. Places'
  BY <1>0, <1>1 DEF Places
<1>4. BurnsLast(log)' /\ AbsentRows' /\ BurnedRows' /\ NotesMinted'
  BY <1>0 DEF IInv, AbsentRows, BurnedRows, NotesMinted
<1>5. Passed' = 1..end /\ Passed = 1..end
  BY <1>0 DEF Passed
<1>6. ASSUME NEW t \in Tokens \ raced' PROVE Fresh(t)'
  <2>1. PICK k \in cursor.at..Len(log) :
          Held(log, t, k, View(row[t])) /\ \A i \in Passed : log[i].token = t => i <= k
    BY <1>0 DEF IInv, Fresh
  <2> DEFINE m == IF k < end THEN end ELSE k
  <2>2. Held(log, t, m, View(row[t]))
    <3>1. CASE k < end
      <4>1. \A i \in (k + 1)..end : log[i].token # t
        BY <2>1, <1>0, <1>5
      <4>2. QED
        BY <4>1, <3>1, <2>1, <1>0, HeldLater
    <3>2. CASE ~(k < end)
      BY <3>2, <2>1
    <3>3. QED
      BY <3>1, <3>2
  <2>3. m \in cursor'.at..Len(log')
    BY <1>0, <2>1
  <2>4. \A i \in Passed' : log'[i].token = t => i <= m
    BY <1>0, <1>5
  <2>5. Held(log', t, m, View(row'[t]))
    BY <2>2, <1>0
  <2> HIDE DEF m
  <2>6. QED
    BY <2>3, <2>4, <2>5 DEF Fresh
<1>7. QED
  BY <1>2, <1>3, <1>4, <1>6 DEF IInv

LEMMA ApplyStep ==
  ASSUME IInv, NEW i \in todo, Apply(i)
  PROVE  IInv'
<1> PICK u : u = log[i].token
  OBVIOUS
<1>0. /\ TypeOK /\ Places /\ pc = "apply" /\ i \in todo /\ (\A j \in todo : i <= j)
      /\ next = cursor.at + 1 /\ todo \subseteq next..end
      /\ next <= end /\ end \in 0..Len(log) /\ cursor.at \in 0..Len(log)
      /\ Len(log) \in Nat /\ log \in Seq(Entries) /\ i \in 1..Len(log)
      /\ todo' = todo \ {i} /\ pc' = (IF todo' = {} THEN "save" ELSE "apply")
      /\ UNCHANGED <<log, cursor, mode, snap, head, next, end, done, moved,
                     failed, note, faults>>
      /\ (\A k \in todo : \A j \in k..end : j \in todo \/ log[j] = Quiet)
  BY DEF IInv, Places, TypeOK, Apply, Soonest
<1>1. /\ u \in Tokens \cup {NoToken} /\ log[i].to \in Wallets \cup {Nobody}
      /\ (u \in Tokens => log[i] = [token |-> u, to |-> log[i].to])
      /\ row' = [row EXCEPT ![u] = RecordTransfer(row[u], log[i].to)]
      /\ raced' = raced \ {u}
  BY <1>0, EntryType DEF Apply
<1>2. ASSUME NEW t \in Tokens
      PROVE  /\ t # u => row'[t] = row[t]
             /\ t = u => row'[t] = RecordTransfer(row[t], log[i].to)
             /\ row[t] \in Rows /\ (~row[t].kept => row[t] = Absent)
  BY <1>1, <1>0 DEF TypeOK, IInv, AbsentRows
<1>3. row' \in [Tokens -> Rows]
  <2>1. u \in Tokens => RecordTransfer(row[u], log[i].to) \in Rows
    BY <1>1, <1>2, RowType
  <2>2. QED
    BY <2>1, <1>1, <1>0 DEF TypeOK
<1>4. TypeOK'
  <2>1. PassTypes'
    BY <1>0, TypesSplit DEF PassTypes, InPass
  <2>2. RestTypes'
    BY <1>0, <1>1, <1>3, TypesSplit DEF RestTypes
  <2>3. QED
    BY <2>1, <2>2 DEF TypeOK, PassTypes, RestTypes
<1>5. Places'
  BY <1>0 DEF Places
<1>6. AbsentRows'
  BY <1>1, <1>2, RowType DEF AbsentRows
<1>7. BurnedRows'
  <2> SUFFICES ASSUME NEW t \in Tokens, row'[t].burned PROVE Burned(log, t)
    BY <1>0 DEF BurnedRows
  <2>1. CASE row[t].burned
    BY <2>1 DEF IInv, BurnedRows
  <2>2. CASE ~row[t].burned
    <3>1. t = u /\ log[i].to = Nobody
      BY <2>2, <1>1, <1>2, RowType
    <3>2. QED
      BY <3>1, <1>0, <1>1 DEF Burned
  <2>3. QED
    BY <2>1, <2>2
<1>8. BurnsLast(log)' /\ NotesMinted'
  BY <1>0 DEF IInv, NotesMinted
<1>9. Passed' = Passed \cup {i} /\ Passed' \subseteq 1..Len(log)
  BY <1>0 DEF Passed
<1>10. ASSUME NEW t \in Tokens \ raced', t # u PROVE Fresh(t)'
  <2>1. Fresh(t) /\ row'[t] = row[t]
    BY <1>10, <1>1, <1>2 DEF IInv
  <2>2. \A j \in Passed' : j \in Passed \/ log[j].token # t
    BY <1>9, <1>10
  <2>3. QED
    BY <2>1, <2>2, <1>0, FreshKept
<1>11. ASSUME u \in Tokens PROVE Fresh(u)'
  <2>1. CASE row'[u].burned
    <3>1. View(row'[u]) = Nobody
      BY <1>11, <2>1, <1>1, <1>2, RowType
    <3>2. Held(log, u, Len(log), Nobody)
      BY <1>11, <2>1, <1>7, <1>0, HeldBurned DEF BurnedRows, IInv
    <3>3. QED
      BY <3>1, <3>2, <1>9, <1>0 DEF Fresh
  <2>2. CASE ~row'[u].burned
    <3>1. View(row'[u]) = log[i].to
      BY <1>11, <2>2, <1>1, <1>2, RowType
    <3>2. Held(log, u, i, log[i].to)
      BY <1>11, <1>0, <1>1, HeldHere
    <3>3. \A j \in Passed' : log[j].token = u => j <= i
      <4> SUFFICES ASSUME NEW j \in Passed', log[j].token = u, j > i PROVE FALSE
        BY <1>9, <1>0
      <4>1. j \in 1..end /\ j \notin todo
        BY <1>9, <1>0 DEF Passed
      <4>2. log[j] = Quiet
        BY <4>1, <1>0
      <4>3. QED
        BY <4>2, <1>11, AddressAssumption DEF Quiet
    <3>4. i \in cursor'.at..Len(log')
      BY <1>0
    <3>5. QED
      BY <3>1, <3>2, <3>3, <3>4, <1>0 DEF Fresh
  <2>3. QED
    BY <2>1, <2>2
<1>12. QED
  BY <1>4, <1>5, <1>6, <1>7, <1>8, <1>10, <1>11 DEF IInv

\* Tokens S are written with their owners at block b.
Writes(S, b, own) ==
  /\ S \subseteq Tokens /\ b \in 0..Len(log)
  /\ own \in [S -> Wallets \cup {Nobody}]
  /\ \A t \in S : /\ Held(log, t, b, own[t])
                  /\ own[t] = Nobody => Burned(log, t)
  /\ row' = [t \in Tokens |-> IF t \in S THEN RecordTransfer(row[t], own[t])
                                         ELSE row[t]]
  /\ Learned(S, b)

NoteTypes == [Writers -> [kind : Notes, token : Tokens \cup {NoToken},
                          at : 0..Len(log)]]

LEMMA WriteStep ==
  ASSUME IInv, NEW S, NEW b, NEW own, Writes(S, b, own),
         UNCHANGED <<log, cursor, pc, pass, faults>>,
         note' \in NoteTypes, NotesMinted'
  PROVE  IInv'
<1>0. /\ TypeOK /\ Places /\ log \in Seq(Entries) /\ Len(log) \in Nat
      /\ UNCHANGED <<log, cursor, pc, mode, failed, snap, head, next, end, todo,
                     done, moved, faults>>
  BY DEF IInv, TypeOK, pass, calc
<1>1. ASSUME NEW t \in Tokens
      PROVE  /\ t \notin S => row'[t] = row[t]
             /\ t \in S => row'[t] = RecordTransfer(row[t], own[t])
             /\ row[t] \in Rows /\ (~row[t].kept => row[t] = Absent)
             /\ t \in S => own[t] \in Wallets \cup {Nobody}
  BY <1>0 DEF TypeOK, IInv, AbsentRows, Writes
<1>2. row' \in [Tokens -> Rows]
  <2>1. \A t \in Tokens : row'[t] \in Rows
    BY <1>1, RowType
  <2>2. QED
    BY <2>1 DEF Writes
<1>3. TypeOK'
  <2>1. raced' \subseteq Tokens
    BY <1>0 DEF TypeOK, Writes, Learned
  <2>2. PassTypes'
    BY <1>0, TypesSplit DEF PassTypes
  <2>3. RestTypes'
    BY <1>0, <1>2, <2>1, TypesSplit DEF RestTypes, NoteTypes
  <2>4. QED
    BY <2>2, <2>3 DEF TypeOK, PassTypes, RestTypes
<1>4. Places' /\ BurnsLast(log)'
  BY <1>0 DEF Places, IInv
<1>5. AbsentRows'
  BY <1>1, RowType DEF AbsentRows
<1>6. BurnedRows'
  <2> SUFFICES ASSUME NEW t \in Tokens, row'[t].burned PROVE Burned(log, t)
    BY <1>0 DEF BurnedRows
  <2>1. CASE t \in S
    BY <2>1, <1>1, RowType DEF IInv, BurnedRows, Writes
  <2>2. CASE t \notin S
    BY <2>2, <1>1 DEF IInv, BurnedRows
  <2>3. QED
    BY <2>1, <2>2
<1>7. Passed' = Passed
  BY <1>0 DEF Passed
<1>8. ASSUME NEW t \in Tokens \ raced' PROVE Fresh(t)'
  <2>1. CASE t \in S
    <3>1. row'[t].burned \/ ~Overtaken(t, b)
      BY <2>1, <1>8 DEF Writes, Learned
    <3>2. /\ Held(log, t, b, own[t]) /\ b \in 0..Len(log)
          /\ own[t] = Nobody => Burned(log, t)
      BY <2>1 DEF Writes
    <3>3. QED
      BY <2>1, <3>1, <3>2, <1>0, <1>1, <1>7, WrittenFresh
  <2>2. CASE t \notin S
    <3>1. Fresh(t) /\ row'[t] = row[t]
      BY <2>2, <1>8, <1>1 DEF IInv, Writes, Learned
    <3>2. QED
      BY <3>1, <1>0, <1>7, FreshKept
  <2>3. QED
    BY <2>1, <2>2
<1>9. QED
  BY <1>3, <1>4, <1>5, <1>6, <1>8 DEF IInv

LEMMA RecordWrites ==
  ASSUME IInv, NEW w \in Writers, Record(w)
  PROVE  \E own : Writes({note[w].token}, note[w].at, own)
<1>0. /\ TypeOK /\ note[w].token \in Tokens /\ note[w].at \in 0..Len(log)
      /\ (\E i \in 1..note[w].at : log[i].token = note[w].token)
      /\ log \in Seq(Entries)
  BY DEF IInv, TypeOK, NotesMinted, Record
<1>1. PICK u \in Tokens : u = note[w].token
  BY <1>0
<1>2. PICK o \in Wallets \cup {Nobody} :
        /\ Held(log, u, note[w].at, o)
        /\ row' = [row EXCEPT ![u] = RecordTransfer(row[u], o)]
  BY <1>1 DEF Record
<1>3. o = Nobody => Burned(log, u)
  BY <1>0, <1>1, <1>2, HeldBy
<1> DEFINE own == [t \in {u} |-> o]
<1>4. row' = [t \in Tokens |-> IF t \in {u} THEN RecordTransfer(row[t], own[t])
                                           ELSE row[t]]
  BY <1>0, <1>2 DEF TypeOK
<1>5. Writes({u}, note[w].at, own)
  BY <1>0, <1>1, <1>2, <1>3, <1>4 DEF Writes, Record
<1> HIDE DEF own
<1>6. QED
  BY <1>1, <1>5

LEMMA PersistWrites ==
  ASSUME IInv, NEW w \in Writers, PersistOwnerMap(w)
  PROVE  \E own : Writes(Found(w), note[w].at, own)
<1>0. /\ note[w].at \in 0..Len(log) /\ Found(w) \subseteq Tokens /\ Learned(Found(w), note[w].at)
  BY DEF IInv, TypeOK, Found, LiveTokens, PersistOwnerMap
<1>1. PICK own \in [Found(w) -> Wallets] :
        /\ \A t \in Found(w) : Held(log, t, note[w].at, own[t])
        /\ row' = [t \in Tokens |->
                     IF t \in Found(w) THEN RecordOwner(row[t], own[t]) ELSE row[t]]
  BY DEF PersistOwnerMap
<1>2. \A t \in Found(w) : own[t] \in Wallets /\ own[t] # Nobody
  BY AddressAssumption, <1>1
<1>3. row' = [t \in Tokens |-> IF t \in Found(w) THEN RecordTransfer(row[t], own[t])
                                           ELSE row[t]]
  BY <1>1, <1>2 DEF RecordTransfer
<1>4. Writes(Found(w), note[w].at, own)
  BY <1>0, <1>1, <1>2, <1>3 DEF Writes
<1>5. QED
  BY <1>4

LEMMA ForeignNotes ==
  ASSUME IInv, NEW w \in Writers, log' = log,
         \/ Record(w) \/ SkipPersist(w) \/ PersistOwnerMap(w) \/ PersistMark(w)
         \/ (\E t \in Tokens : Observe(w, t))
         \/ (\E kind \in {"heal", "portfolio"} : StartScan(w, kind))
  PROVE  note' \in NoteTypes /\ NotesMinted'
<1>0. /\ note \in NoteTypes /\ note[w] \in [kind : Notes, token : Tokens \cup {NoToken},
                                          at : 0..Len(log)]
      /\ Len(log) \in Nat
  BY DEF IInv, TypeOK, NoteTypes
<1>1. PICK n : /\ n \in [kind : Notes, token : Tokens \cup {NoToken}, at : 0..Len(log)]
               /\ note' = [note EXCEPT ![w] = n]
               /\ n.kind = "one" =>
                    n.token \in Tokens /\ \E i \in 1..n.at : log[i].token = n.token
  <2>1. CASE Record(w) \/ SkipPersist(w) \/ PersistMark(w)
    <3>1. /\ NoNote \in [kind : Notes, token : Tokens \cup {NoToken}, at : 0..Len(log)]
          /\ NoNote.kind # "one"
      BY <1>0 DEF NoNote, Notes
    <3>2. note' = [note EXCEPT ![w] = NoNote]
      BY <2>1 DEF Record, SkipPersist, PersistMark
    <3>3. QED
      BY <3>1, <3>2
  <2>2. CASE PersistOwnerMap(w)
    <3>1. PICK m : m = [note[w] EXCEPT !.kind = "mark"]
      OBVIOUS
    <3>2. /\ m \in [kind : Notes, token : Tokens \cup {NoToken}, at : 0..Len(log)]
          /\ m.kind # "one"
      BY <3>1, <1>0 DEF Notes
    <3>3. note' = [note EXCEPT ![w] = m]
      BY <2>2, <3>1 DEF PersistOwnerMap
    <3>4. QED
      BY <3>2, <3>3
  <2>3. ASSUME NEW t \in Tokens, Observe(w, t)
        PROVE  \E n \in [kind : Notes, token : Tokens \cup {NoToken}, at : 0..Len(log)] :
                 /\ note' = [note EXCEPT ![w] = n]
                 /\ n.kind = "one" =>
                      n.token \in Tokens /\ \E i \in 1..n.at : log[i].token = n.token
    <3>1. [kind |-> "one", token |-> t, at |-> Len(log)]
            \in [kind : Notes, token : Tokens \cup {NoToken}, at : 0..Len(log)]
      BY <1>0 DEF Notes
    <3>2. QED
      BY <2>3, <3>1 DEF Observe, Minted
  <2>4. ASSUME NEW kind \in {"heal", "portfolio"}, StartScan(w, kind)
        PROVE  \E n \in [kind : Notes, token : Tokens \cup {NoToken}, at : 0..Len(log)] :
                 /\ note' = [note EXCEPT ![w] = n]
                 /\ n.kind = "one" =>
                      n.token \in Tokens /\ \E i \in 1..n.at : log[i].token = n.token
    <3>1. [kind |-> kind, token |-> NoToken, at |-> Len(log)]
            \in [kind : Notes, token : Tokens \cup {NoToken}, at : 0..Len(log)]
      BY <1>0 DEF Notes
    <3>2. QED
      BY <2>4, <3>1 DEF StartScan
  <2>5. QED
    BY <2>1, <2>2, <2>3, <2>4
<1>2. note' \in NoteTypes
  BY <1>0, <1>1 DEF NoteTypes
<1>3. NotesMinted'
  BY <1>0, <1>1 DEF NotesMinted, IInv, NoteTypes
<1>4. QED
  BY <1>2, <1>3

\* The writers' steps that write no owner.
Quietly(w) ==
  \/ SkipPersist(w) \/ PersistMark(w)
  \/ (\E t \in Tokens : Observe(w, t))
  \/ (\E kind \in {"heal", "portfolio"} : StartScan(w, kind))

LEMMA QuietVars ==
  ASSUME IInv, NEW w \in Writers, Quietly(w)
  PROVE  /\ UNCHANGED <<log, row, pc, pass, raced, faults>>
         /\ cursor'.at = cursor.at
         /\ cursor' \in [at : 0..Len(log), complete : BOOLEAN]
BY DEF Quietly, SkipPersist, PersistMark, Observe, StartScan, MarkedComplete, IInv,
   TypeOK, db

LEMMA QuietStep ==
  ASSUME IInv, NEW w \in Writers, Quietly(w)
  PROVE  IInv'
<1>0. /\ UNCHANGED <<log, row, pc, pass, raced, faults>> /\ cursor'.at = cursor.at
      /\ cursor' \in [at : 0..Len(log), complete : BOOLEAN]
      /\ UNCHANGED <<mode, failed, snap, head, next, end, todo, done, moved>>
  BY QuietVars DEF pass, calc
<1>1. note' \in NoteTypes /\ NotesMinted'
  BY <1>0, ForeignNotes DEF Quietly
<1>2. TypeOK'
  <2>1. PassTypes'
    BY <1>0, TypesSplit DEF PassTypes, IInv
  <2>2. RestTypes'
    BY <1>0, <1>1, TypesSplit DEF RestTypes, NoteTypes, IInv
  <2>3. QED
    BY <2>1, <2>2 DEF TypeOK, PassTypes, RestTypes
<1>3. Places' /\ BurnsLast(log)' /\ AbsentRows' /\ BurnedRows'
  BY <1>0 DEF IInv, Places, AbsentRows, BurnedRows
<1>4. Passed' = Passed
  BY <1>0 DEF Passed
<1>5. \A t \in Tokens \ raced' : Fresh(t)'
  BY <1>0, <1>4, FreshKept DEF IInv
<1>6. QED
  BY <1>1, <1>2, <1>3, <1>5 DEF IInv

LEMMA RegisterStep ==
  ASSUME IInv, NEW u \in Tokens, Register(u)
  PROVE  IInv'
<1>0. /\ UNCHANGED <<log, cursor, pc, pass, note, raced, faults>>
      /\ UNCHANGED <<mode, failed, snap, head, next, end, todo, done, moved>>
      /\ row \in [Tokens -> Rows] /\ row' = [row EXCEPT ![u].kept = TRUE]
      /\ row[u] = Absent
  BY DEF Register, pass, calc, IInv, AbsentRows, TypeOK
<1>1. \A t \in Tokens : /\ row'[t] \in Rows /\ View(row'[t]) = View(row[t])
                       /\ row'[t].burned = row[t].burned
                       /\ (row'[t].kept \/ row'[t] = row[t])
  BY <1>0 DEF Rows, View, Absent
<1>2. TypeOK'
  <2>1. row' \in [Tokens -> Rows]
    BY <1>0, <1>1
  <2>2. PassTypes'
    BY <1>0, TypesSplit DEF PassTypes, IInv
  <2>3. RestTypes'
    BY <1>0, <2>1, TypesSplit DEF RestTypes, IInv
  <2>4. QED
    BY <2>2, <2>3 DEF TypeOK, PassTypes, RestTypes
<1>3. Places' /\ BurnsLast(log)' /\ AbsentRows' /\ BurnedRows' /\ NotesMinted'
  BY <1>0, <1>1 DEF IInv, Places, AbsentRows, BurnedRows, NotesMinted
<1>4. Passed' = Passed
  BY <1>0 DEF Passed
<1>5. \A t \in Tokens \ raced' : Fresh(t)'
  BY <1>0, <1>1, <1>4 DEF IInv, Fresh
<1>6. QED
  BY <1>2, <1>3, <1>5 DEF IInv

LEMMA WriterStep ==
  ASSUME IInv, NEW w \in Writers, Record(w) \/ PersistOwnerMap(w)
  PROVE  IInv' /\ \E S, b, own : Writes(S, b, own)
<1>1. UNCHANGED <<log, cursor, pc, pass, faults>>
  BY DEF Record, PersistOwnerMap
<1>2. note' \in NoteTypes /\ NotesMinted'
  BY <1>1, ForeignNotes
<1>3. \E S, b, own : Writes(S, b, own)
  BY RecordWrites, PersistWrites
<1>4. QED
  BY <1>1, <1>2, <1>3, WriteStep

LEMMA StutterStep == ASSUME IInv, UNCHANGED vars PROVE IInv'
<1>0. UNCHANGED <<log, row, cursor, pc, mode, failed, snap, head, next, end, todo,
                  done, moved, note, raced, faults>>
  BY DEF vars, db, pass, calc
<1>1. TypeOK'
  BY <1>0 DEF IInv, TypeOK
<1>2. QED
  BY <1>0, <1>1 DEF IInv, BurnsLast, AbsentRows, BurnedRows, NotesMinted, Places, Fresh, Passed

\* Every step, by what it moves.
LEMMA Steps ==
  ASSUME [Next]_vars
  PROVE  \/ \E e \in Entries : Mine(e)
         \/ Calm \/ Save \/ (\E i \in todo : Apply(i))
         \/ (\E w \in Writers : Quietly(w) \/ Record(w) \/ PersistOwnerMap(w))
         \/ (\E t \in Tokens : Register(t))
         \/ UNCHANGED vars
BY DEF Next, Listener, Foreign, Calm, Quietly

LEMMA Inductive == IInv /\ [Next]_vars => IInv'
<1> SUFFICES ASSUME IInv, [Next]_vars PROVE IInv'
  OBVIOUS
<1>1. CASE \E e \in Entries : Mine(e)
  BY <1>1, MineStep
<1>2. CASE Calm
  BY <1>2, CalmStep
<1>3. CASE Save
  BY <1>3, SaveStep
<1>4. CASE \E i \in todo : Apply(i)
  BY <1>4, ApplyStep
<1>5. CASE \E w \in Writers : Quietly(w) \/ Record(w) \/ PersistOwnerMap(w)
  BY <1>5, QuietStep, WriterStep
<1>6. CASE \E t \in Tokens : Register(t)
  BY <1>6, RegisterStep
<1>7. CASE UNCHANGED vars
  BY <1>7, StutterStep
<1>8. QED
  BY <1>1, <1>2, <1>3, <1>4, <1>5, <1>6, <1>7, Steps

LEMMA Invariance == Spec => []IInv
BY InitInv, Inductive, PTL DEF Spec

LEMMA FreshIsRecent ==
  IInv => \A t \in Tokens \ raced :
            \E k \in cursor.at..Len(log) : Held(log, t, k, view[t])
BY DEF IInv, Fresh, view

(* The variables of the index stay in their types: the cursor, the chunk   *)
(* and the blocks a pass counts are blocks of the chain.                   *)
THEOREM TypeCorrect == Spec => []TypeOK
<1>1. IInv => TypeOK
  BY DEF IInv
<1>2. QED
  BY <1>1, Invariance, PTL

(* Every token no late recordOwner overtook is shown with its owner at a   *)
(* block from the cursor on: rows are written before the cursor is saved,  *)
(* in the order of the logs, and a replay after a restart starts there.    *)
THEOREM RecentRows == Spec => []IndexIsRecent
<1>1. IInv => IndexIsRecent
  BY FreshIsRecent DEF IndexIsRecent
<1>2. QED
  BY <1>1, Invariance, PTL
-----------------------------------------------------------------------------
(* The index implements OwnerView.                                         *)

\* The chain's operators as OwnerView has them are those of the index.
LEMMA SameChain ==
  /\ \A l, t, k, o : Promise!Held(l, t, k, o) <=> Held(l, t, k, o)
  /\ \A l, e : Promise!Legal(l, e) <=> Legal(l, e)
  /\ Promise!Entries = Entries
<1>1. \A l, t, k, o : Promise!Held(l, t, k, o) <=> Held(l, t, k, o)
  BY DEF Promise!Held, Held
<1>2. \A l, t : Promise!Burned(l, t) <=> Burned(l, t)
  BY DEF Promise!Burned, Burned
<1>3. Promise!Quiet = Quiet
  BY DEF Promise!Quiet, Quiet
<1>4. \A l, e : Promise!Legal(l, e) <=> Legal(l, e)
  BY <1>1, <1>2, <1>3 DEF Promise!Legal, Legal
<1>5. QED
  BY <1>1, <1>3, <1>4 DEF Promise!Entries, Entries

LEMMA RecentNow ==
  ASSUME IInv, NEW t \in Tokens \ raced
  PROVE  Promise!Recent(t)
BY FreshIsRecent, SameChain DEF Promise!Recent

LEMMA RecentNext ==
  ASSUME IInv', NEW t \in Tokens \ raced'
  PROVE  Promise!Recent(t)'
<1>1. IInv' => \A u \in Tokens \ raced' :
         \E k \in cursor'.at..Len(log') : Held(log', u, k, view'[u])
  BY DEF IInv, Fresh, view
<1>2. PICK k \in cursor'.at..Len(log') : Held(log', t, k, view'[t])
  BY <1>1
<1>3. Promise!Held(log', t, k, view'[t])
  BY <1>2, SameChain
<1>4. QED
  BY <1>3 DEF Promise!Recent

LEMMA InitMaps == Init => Promise!Init
BY DEF Init, Promise!Init, view, View, Absent

LEMMA ViewKept == row' = row => view' = view
BY DEF view, View

\* Steps that leave the rows and the scanned block alone.
LEMMA RestsMap ==
  ASSUME log' = log, row' = row, raced' = raced, cursor'.at = cursor.at
  PROVE  UNCHANGED Promise!vars
BY ViewKept DEF Promise!vars

LEMMA MineMaps ==
  ASSUME NEW e \in Entries, Mine(e)
  PROVE  Promise!Extend
<1>1. Legal(log, e) /\ log' = Append(log, e) /\ UNCHANGED <<row, cursor, raced>>
  BY DEF Mine, db
<1>2. QED
  BY <1>1, ViewKept, SameChain DEF Promise!Extend

LEMMA SaveMaps ==
  ASSUME IInv, IInv', Save
  PROVE  Promise!Advance
<1>1. /\ log' = log /\ row' = row /\ raced' = raced /\ cursor'.at = end
      /\ end \in 0..Len(log) /\ cursor.at \in 0..Len(log) /\ Len(log) \in Nat
      /\ end > cursor.at
  BY DEF IInv, TypeOK, Places, Save
<1>2. cursor'.at \in (cursor.at + 1)..Len(log)
  BY <1>1
<1>3. \A t \in Tokens \ raced : Promise!Recent(t)'
  BY <1>1, RecentNext
<1>4. QED
  BY <1>1, <1>2, <1>3, ViewKept DEF Promise!Advance

\* A step that writes the tokens in S and keeps the chain and the cursor.
LEMMA WriteMaps ==
  ASSUME IInv, IInv', NEW S \in SUBSET Tokens, log' = log, cursor' = cursor,
         raced \ S \subseteq raced', raced' \subseteq raced \cup S,
         \A t \in Tokens \ S : row'[t] = row[t]
  PROVE  Promise!Write
<1>1. view' \in [Tokens -> Wallets \cup {Nobody}]
  BY DEF IInv, TypeOK, view, View, Rows
<1>2. \A t \in Tokens \ S : view'[t] = view[t]
  BY DEF view
<1>3. \A t \in S \ raced' : Promise!Recent(t)'
  BY RecentNext
<1>4. QED
  BY <1>1, <1>2, <1>3 DEF Promise!Write

LEMMA ApplyMaps ==
  ASSUME IInv, IInv', NEW i \in todo, Apply(i)
  PROVE  Promise!Write
<1>1. PICK u : u = log[i].token
  OBVIOUS
<1>2. /\ row' = [row EXCEPT ![u] = RecordTransfer(row[u], log[i].to)]
      /\ raced' = raced \ {u} /\ log' = log /\ cursor' = cursor
      /\ row \in [Tokens -> Rows]
  BY <1>1 DEF Apply, IInv, TypeOK
<1>3. \A t \in Tokens \ (Tokens \cap {u}) : row'[t] = row[t]
  BY <1>2
<1>4. raced \subseteq Tokens
  BY DEF IInv, TypeOK
<1>5. QED
  BY <1>2, <1>3, <1>4, WriteMaps

LEMMA WriterMaps ==
  ASSUME IInv, IInv', NEW w \in Writers, Record(w) \/ PersistOwnerMap(w)
  PROVE  Promise!Write
<1>1. PICK S, b, own : Writes(S, b, own)
  BY WriterStep
<1>2. log' = log /\ cursor' = cursor
  BY DEF Record, PersistOwnerMap
<1>3. /\ S \in SUBSET Tokens /\ raced \ S \subseteq raced'
      /\ raced' \subseteq raced \cup S
      /\ \A t \in Tokens \ S : row'[t] = row[t]
  BY <1>1 DEF Writes, Learned
<1>4. QED
  BY <1>2, <1>3, WriteMaps

LEMMA RegisterMaps ==
  ASSUME IInv, NEW u \in Tokens, Register(u)
  PROVE  UNCHANGED Promise!vars
<1>1. /\ UNCHANGED <<log, cursor, raced>> /\ row \in [Tokens -> Rows]
      /\ row' = [row EXCEPT ![u].kept = TRUE]
  BY DEF Register, IInv, TypeOK
<1>2. \A t \in Tokens : View(row'[t]) = View(row[t])
  BY <1>1 DEF Rows, View
<1>3. view' = view
  BY <1>2 DEF view
<1>4. QED
  BY <1>1, <1>3 DEF Promise!vars

LEMMA StepMaps == IInv /\ IInv' /\ [Next]_vars => [Promise!Next]_(Promise!vars)
<1> SUFFICES ASSUME IInv, IInv', [Next]_vars
             PROVE  Promise!Next \/ UNCHANGED Promise!vars
  OBVIOUS
<1>1. CASE \E e \in Entries : Mine(e)
  BY <1>1, MineMaps DEF Promise!Next
<1>2. CASE Calm
  BY <1>2, CalmTypes, RestsMap DEF CalmVars
<1>3. CASE Save
  BY <1>3, SaveMaps DEF Promise!Next
<1>4. CASE \E i \in todo : Apply(i)
  BY <1>4, ApplyMaps DEF Promise!Next
<1>5. CASE \E w \in Writers : Quietly(w)
  BY <1>5, QuietVars, RestsMap
<1>6. CASE \E w \in Writers : Record(w) \/ PersistOwnerMap(w)
  BY <1>6, WriterMaps DEF Promise!Next
<1>7. CASE \E t \in Tokens : Register(t)
  BY <1>7, RegisterMaps
<1>8. CASE UNCHANGED vars
  BY <1>8, RestsMap DEF vars, db
<1>9. QED
  BY <1>1, <1>2, <1>3, <1>4, <1>5, <1>6, <1>7, <1>8, Steps

(* The index with its listener, passes, restarts and writers implements    *)
(* the view promised to the portfolio: the scanned block only goes         *)
(* forward, past rows already written, and a token leaves its window only  *)
(* by a late write.                                                        *)
THEOREM ImplementsOwnerView == Spec => RefinesOwnerView
<1>1. IInv /\ [Next]_vars => IInv'
  BY Inductive
<1>2. QED
  BY <1>1, InitInv, InitMaps, StepMaps, PTL DEF Spec, RefinesOwnerView, Promise!Spec
=============================================================================
