-------------------------- MODULE VaultMint_proofs --------------------------
(***************************************************************************)
(* Proofs about VaultMint, for any number of requests, cycles and failures: *)
(* its types, that the registry only links a cycle to a token minted for   *)
(* it, and that a token becomes a ghost only where a failure accounts for  *)
(* it.                                                                     *)
(***************************************************************************)
EXTENDS VaultMint, FiniteSetTheorems, TLAPS

\* The calls made while a transaction is known, and those made once it is
\* known to be mined.
Recording == {"note", "save_note", "record", "save_record", "upsert"}
Holding   == {"hook", "save_hook", "wait"} \cup Recording

\* Transaction t minted for cycle c.
For(t, c) == mintOf[t] = c /\ c # None

\* What row r of cycle c names was minted for c.
Names(r, c) ==
  /\ r.txHash # None => For(r.txHash, c)
  /\ r.tokenId # None => For(r.tokenId, c) /\ tx[r.tokenId] = "mined"

JobOK(p, c, r, t) ==
  /\ p \notin {"idle", "reserve"} => c \in Cycles
  /\ p \in Holding => t # None
  /\ p \in Recording => tx[t] = "mined"
  /\ t # None => For(t, c)
  /\ Names(r, c)

UnsentOK == \A t \in Txs : tx[t] = "unsent" <=> mintOf[t] = None
CyclesOK == \A c \in Cycles : Names(cycle[c], c)
JobsOK   == \A j \in Jobs : JobOK(pc[j], at[j], snap[j], token[j])

\* The inductive invariant.
IInv == TypeOK /\ UnsentOK /\ CyclesOK /\ JobsOK /\ RegistryTruthful

DBTypes ==
  /\ cycle \in [Cycles -> Rows] /\ age \in [Cycles -> 0..2]
  /\ registry \in [Txs -> Cycles \cup {None}]
ChainTypes ==
  /\ tx \in [Txs -> {"unsent", "pending", "mined", "reverted"}]
  /\ mintOf \in [Txs -> Cycles \cup {None}]
JobTypes ==
  /\ op \in [Jobs -> {"none", "request", "check", "mint", "recover"}]
  /\ pc \in [Jobs -> Pcs] /\ at \in [Jobs -> Cycles \cup {None}]
  /\ snap \in [Jobs -> Rows] /\ seen \in [Jobs -> 0..2]
  /\ token \in [Jobs -> Txs \cup {None}]
HistTypes ==
  /\ spoiled \in SUBSET Cycles /\ torn \in SUBSET Cycles
  /\ gaps \in Nat /\ faults \in Nat

LEMMA TypesSplit == TypeOK <=> DBTypes /\ ChainTypes /\ JobTypes /\ HistTypes
BY DEF TypeOK, DBTypes, ChainTypes, JobTypes, HistTypes

LEMMA Numbers == None = 0 /\ None \notin Cycles /\ None \notin Txs
BY BoundAssumption DEF None, Cycles, Txs

LEMMA RowType ==
  ASSUME NEW s \in Statuses, NEW c
  PROVE  Row(s) \in Rows /\ Names(Row(s), c)
BY DEF Row, Rows, Names

\* One job moves and the chain does not.
LEMMA HoldOK ==
  ASSUME JobTypes, JobsOK, NEW j \in Jobs,
         NEW o \in {"none", "request", "check", "mint", "recover"},
         NEW p \in Pcs, NEW c \in Cycles \cup {None}, NEW r \in Rows,
         NEW a \in 0..2, NEW t \in Txs \cup {None},
         Hold(j, o, p, c, r, a, t), JobOK(p, c, r, t),
         UNCHANGED <<tx, mintOf>>
  PROVE  JobTypes' /\ JobsOK'
<1>1. JobTypes'
  BY DEF JobTypes, Hold
<1>2. ASSUME NEW k \in Jobs
      PROVE  JobOK(pc[k], at[k], snap[k], token[k])'
  <2>1. CASE k = j
    <3>1. pc'[k] = p /\ at'[k] = c /\ snap'[k] = r /\ token'[k] = t
      BY <2>1 DEF Hold, JobTypes
    <3> QED BY <3>1 DEF JobOK, Names, For
  <2>2. CASE k # j
    <3>1. /\ pc'[k] = pc[k] /\ at'[k] = at[k] /\ snap'[k] = snap[k]
          /\ token'[k] = token[k]
      BY <2>2 DEF Hold, JobTypes
    <3> QED BY <3>1 DEF JobsOK, JobOK, Names, For
  <2> QED BY <2>1, <2>2
<1> QED BY <1>1, <1>2 DEF JobsOK

\* A job that ends, or goes on to its next call without a row.
LEMMA StopOK ==
  ASSUME JobTypes, JobsOK, NEW j \in Jobs, Stop(j), UNCHANGED <<tx, mintOf>>
  PROVE  JobTypes' /\ JobsOK'
<1>1. Row("none") \in Rows /\ Names(Row("none"), None)
  BY RowType DEF Statuses
<1>2. JobOK("idle", None, Row("none"), None)
  BY <1>1 DEF JobOK, Holding, Recording
<1> QED BY <1>1, <1>2, HoldOK DEF Stop, Pcs

LEMMA ResumeOK ==
  ASSUME JobTypes, JobsOK, NEW j \in Jobs, Resume(j), UNCHANGED <<tx, mintOf>>
  PROVE  JobTypes' /\ JobsOK'
<1>1. Row("none") \in Rows /\ Names(Row("none"), None)
  BY RowType DEF Statuses
<1>2. JobOK("reserve", None, Row("none"), None)
  BY <1>1 DEF JobOK, Holding, Recording
<1>3. CASE op[j] = "request"
  BY <1>1, <1>2, <1>3, HoldOK DEF Resume, Pcs
<1>4. CASE op[j] # "request"
  BY <1>4, StopOK DEF Resume
<1> QED BY <1>3, <1>4

LEMMA GoToOK ==
  ASSUME JobTypes, JobsOK, NEW j \in Jobs, NEW p \in Pcs, GoTo(j, p),
         pc[j] \notin {"idle", "reserve"},
         p \in Holding => token[j] # None,
         p \in Recording => tx[token[j]] = "mined",
         UNCHANGED <<tx, mintOf>>
  PROVE  JobTypes' /\ JobsOK'
<1>1. Row("none") \in Rows /\ Names(Row("none"), at[j])
  BY RowType DEF Statuses
<1>2. JobOK(p, at[j], Row("none"), token[j])
  BY <1>1 DEF JobsOK, JobOK
<1>3. op[j] \in {"none", "request", "check", "mint", "recover"}
      /\ at[j] \in Cycles \cup {None} /\ token[j] \in Txs \cup {None}
  BY DEF JobTypes
<1> QED BY <1>1, <1>2, <1>3, HoldOK DEF GoTo

LEMMA WillSaveOK ==
  ASSUME JobTypes, JobsOK, NEW j \in Jobs, NEW p \in Pcs, NEW r \in Rows,
         WillSave(j, p, r), Names(r, at[j]),
         pc[j] \notin {"idle", "reserve"},
         p \in Holding => token[j] # None,
         p \in Recording => tx[token[j]] = "mined",
         UNCHANGED <<tx, mintOf>>
  PROVE  JobTypes' /\ JobsOK'
<1>1. JobOK(p, at[j], r, token[j])
  BY DEF JobsOK, JobOK
<1>2. op[j] \in {"none", "request", "check", "mint", "recover"}
      /\ at[j] \in Cycles \cup {None} /\ token[j] \in Txs \cup {None}
  BY DEF JobTypes
<1> QED BY <1>1, <1>2, HoldOK DEF WillSave

LEMMA ThrowOK ==
  ASSUME JobTypes, JobsOK, NEW j \in Jobs, Throw(j), UNCHANGED <<tx, mintOf>>
  PROVE  JobTypes' /\ JobsOK'
<1>1. CASE pc[j] \in InTry
  <2>1. GoTo(j, "cancel") /\ pc[j] \notin {"idle", "reserve"}
    BY <1>1 DEF Throw, InTry, Locked
  <2> QED BY <2>1, GoToOK DEF Pcs, Holding, Recording
<1>2. CASE pc[j] \notin InTry
  BY <1>2, StopOK DEF Throw
<1> QED BY <1>1, <1>2

\* A step that writes neither the database nor the chain.
LEMMA QuietOK ==
  ASSUME IInv, JobTypes', JobsOK', HistTypes', UNCHANGED <<db, tx, mintOf>>
  PROVE  IInv'
<1>1. DBTypes' /\ ChainTypes'
  BY TypesSplit DEF IInv, DBTypes, ChainTypes, db
<1>2. TypeOK'
  BY <1>1, TypesSplit DEF TypeOK, DBTypes, ChainTypes, JobTypes, HistTypes
<1> QED BY <1>2 DEF IInv, UnsentOK, CyclesOK, Names, For, RegistryTruthful, db

-----------------------------------------------------------------------------
(* Init, and the steps, one lemma for each that does more than move a job. *)

LEMMA InitOK == Init => IInv
<1> SUFFICES ASSUME Init PROVE IInv
  OBVIOUS
<1>1. Row("none") \in Rows /\ \A c : Names(Row("none"), c)
  BY RowType DEF Statuses
<1>2. TypeOK
  BY <1>1 DEF Init, TypeOK, Pcs
<1>3. CyclesOK /\ UnsentOK /\ RegistryTruthful
  BY <1>1 DEF Init, CyclesOK, UnsentOK, RegistryTruthful
<1>4. JobsOK
  BY <1>1 DEF Init, JobsOK, JobOK, Holding, Recording
<1> QED BY <1>2, <1>3, <1>4 DEF IInv

LEMMA TakeRowOK ==
  ASSUME IInv, NEW j \in Jobs, NEW c \in Cycles,
         NEW o \in {"request", "check", "recover"}, TakeRow(j, o, c),
         UNCHANGED <<tx, mintOf>>
  PROVE  JobTypes' /\ JobsOK'
<1>1. JobTypes /\ JobsOK /\ cycle[c] \in Rows /\ age[c] \in 0..2
  BY TypesSplit DEF IInv, DBTypes
<1>2. JobOK("heal", c, cycle[c], None)
  BY DEF IInv, CyclesOK, JobOK, Holding, Recording
<1> QED BY <1>1, <1>2, HoldOK DEF TakeRow, Pcs

LEMMA RequestOK ==
  ASSUME IInv, NEW j \in Jobs, NEW o \in {"request", "check"}, Request(j, o)
  PROVE  IInv'
<1>1. JobTypes /\ JobsOK /\ HistTypes
  BY TypesSplit DEF IInv
<1>2. UNCHANGED <<db, tx, mintOf>> /\ HistTypes'
  BY <1>1 DEF Request, hist, HistTypes
<1>3. Row("none") \in Rows /\ \A c : Names(Row("none"), c)
  BY RowType DEF Statuses
<1>4. \/ \E c \in Cycles : TakeRow(j, o, c)
      \/ \E c \in Cycles : Hold(j, o, "cancel", c, Row("none"), 0, None)
      \/ Hold(j, "request", "reserve", None, Row("none"), 0, None)
  BY DEF Request
<1>5. JobTypes' /\ JobsOK'
  <2>1. CASE \E c \in Cycles : TakeRow(j, o, c)
    BY <1>2, <2>1, TakeRowOK
  <2>2. ASSUME NEW c \in Cycles, Hold(j, o, "cancel", c, Row("none"), 0, None)
        PROVE  JobTypes' /\ JobsOK'
    <3>1. JobOK("cancel", c, Row("none"), None)
      BY <1>3 DEF JobOK, Holding, Recording
    <3> QED BY <1>1, <1>2, <1>3, <2>2, <3>1, HoldOK DEF Pcs
  <2>3. CASE Hold(j, "request", "reserve", None, Row("none"), 0, None)
    <3>1. JobOK("reserve", None, Row("none"), None)
      BY <1>3 DEF JobOK, Holding, Recording
    <3> QED BY <1>1, <1>2, <1>3, <2>3, <3>1, HoldOK DEF Pcs
  <2> QED BY <1>4, <2>1, <2>2, <2>3
<1> QED BY <1>2, <1>5, QuietOK

LEMMA HealOneOK ==
  ASSUME IInv, NEW j \in Jobs, HealOne(j)
  PROVE  IInv'
<1>1. JobTypes /\ JobsOK /\ HistTypes
  BY TypesSplit DEF IInv
<1>2. UNCHANGED <<db, tx, mintOf>> /\ HistTypes'
  BY <1>1 DEF HealOne, hist, HistTypes
<1> DEFINE t == Minted(snap[j])
<1>3. /\ at[j] \in Cycles /\ Names(snap[j], at[j]) /\ snap[j] \in Rows
      /\ op[j] \in {"none", "request", "check", "mint", "recover"}
  BY <1>1 DEF HealOne, JobsOK, JobOK, JobTypes
<1>4. t \in Txs \cup {None}
      /\ (t # None => For(t, at[j]) /\ tx[t] = "mined")
  BY <1>3 DEF Minted, Names, Rows
<1>5. Row("none") \in Rows /\ Names(Row("none"), at[j])
  BY RowType DEF Statuses
<1>6. CASE t # None /\ Hold(j, op[j], "record", at[j], Row("none"), 0, t)
  <2>1. JobOK("record", at[j], Row("none"), t)
    BY <1>3, <1>4, <1>5, <1>6 DEF JobOK
  <2>2. JobTypes' /\ JobsOK'
    BY <1>1, <1>2, <1>3, <1>4, <1>5, <1>6, <2>1, HoldOK DEF Pcs
  <2> QED BY <1>2, <2>2, QuietOK
<1>7. CASE GoTo(j, "cancel")
  <2>1. JobTypes' /\ JobsOK'
    BY <1>1, <1>2, <1>7, GoToOK DEF HealOne, Pcs, Holding, Recording
  <2> QED BY <1>2, <2>1, QuietOK
<1>8. CASE Resume(j)
  BY <1>1, <1>2, <1>8, ResumeOK, QuietOK
<1> QED BY <1>6, <1>7, <1>8 DEF HealOne

LEMMA ReserveOK ==
  ASSUME IInv, NEW j \in Jobs, Reserve(j)
  PROVE  IInv'
<1>1. JobTypes /\ JobsOK /\ HistTypes /\ DBTypes /\ ChainTypes
  BY TypesSplit DEF IInv
<1>2. UNCHANGED <<tx, mintOf>> /\ HistTypes' /\ ChainTypes'
  BY <1>1 DEF Reserve, hist, HistTypes, ChainTypes
<1>3. CASE Stop(j) /\ UNCHANGED db
  BY <1>1, <1>2, <1>3, StopOK, QuietOK
<1>4. ASSUME NEW c \in Cycles,
             cycle' = [cycle EXCEPT ![c] = Deposited],
             age' = [age EXCEPT ![c] = 0], UNCHANGED registry,
             Hold(j, "mint", "begin", c, Row("none"), 0, None)
      PROVE  IInv'
  <2>1. /\ Row("none") \in Rows /\ Names(Row("none"), c)
        /\ Deposited \in Rows /\ Names(Deposited, c)
    BY RowType DEF Statuses, Deposited
  <2>2. JobOK("begin", c, Row("none"), None)
    BY <2>1 DEF JobOK, Holding, Recording
  <2>3. JobTypes' /\ JobsOK'
    BY <1>1, <1>2, <1>4, <2>1, <2>2, HoldOK DEF Pcs
  <2>4. DBTypes'
    BY <1>1, <1>4, <2>1 DEF DBTypes
  <2>5. TypeOK'
    BY <1>2, <2>3, <2>4 DEF TypeOK, DBTypes, ChainTypes, JobTypes, HistTypes
  <2>6. CyclesOK'
    BY <1>1, <1>2, <1>4, <2>1 DEF IInv, CyclesOK, DBTypes, Names, For
  <2> QED BY <1>2, <1>4, <2>3, <2>5, <2>6 DEF IInv, UnsentOK, RegistryTruthful
<1> QED BY <1>3, <1>4 DEF Reserve

LEMMA SaveRowOK ==
  ASSUME IInv, NEW j \in Jobs, SaveRow(j)
  PROVE  IInv'
<1>1. JobTypes /\ JobsOK /\ HistTypes /\ DBTypes /\ ChainTypes
  BY TypesSplit DEF IInv
<1>2. /\ UNCHANGED <<registry, tx, mintOf>> /\ HistTypes' /\ ChainTypes'
      /\ Save(j)
  <2>1. pc[j] \notin {"idle", "reserve"} => at[j] \in Cycles
    BY <1>1 DEF JobsOK, JobOK
  <2> QED BY <1>1, <2>1 DEF SaveRow, HistTypes, ChainTypes
<1>3. snap[j] \in Rows /\ Names(snap[j], at[j])
  BY <1>1 DEF JobTypes, JobsOK, JobOK
<1>4. JobTypes' /\ JobsOK'
  <2>1. pc[j] \notin {"idle", "reserve"}
        /\ (pc[j] \in Holding => token[j] # None)
        /\ (pc[j] \in Recording => tx[token[j]] = "mined")
    BY <1>1 DEF SaveRow, JobsOK, JobOK
  <2>2. CASE pc[j] = "save_begin" /\ GoTo(j, "mint")
    BY <1>1, <1>2, <2>1, <2>2, GoToOK DEF Pcs, Holding, Recording
  <2>3. CASE pc[j] = "save_hook" /\ GoTo(j, "wait")
    BY <1>1, <1>2, <2>1, <2>3, GoToOK DEF Pcs, Holding, Recording
  <2>4. CASE pc[j] = "save_note" /\ GoTo(j, "record")
    BY <1>1, <1>2, <2>1, <2>4, GoToOK DEF Pcs, Holding, Recording
  <2>5. CASE pc[j] = "save_record" /\ GoTo(j, "upsert")
    BY <1>1, <1>2, <2>1, <2>5, GoToOK DEF Pcs, Holding, Recording
  <2>6. CASE Resume(j)
    BY <1>1, <1>2, <2>6, ResumeOK
  <2> QED BY <2>2, <2>3, <2>4, <2>5, <2>6 DEF SaveRow
<1>5. DBTypes'
  <2>1. cycle' \in [Cycles -> Rows]
    BY <1>1, <1>2, <1>3 DEF DBTypes, Save
  <2>2. age' \in [Cycles -> 0..2]
    <3>1. age' = [age EXCEPT ![at[j]] = 0] /\ age \in [Cycles -> 0..2]
      BY <1>1, <1>2 DEF DBTypes, Save
    <3>2. 0 \in 0..2
      OBVIOUS
    <3> QED BY <3>1, <3>2
  <2> QED BY <1>1, <1>2, <2>1, <2>2 DEF DBTypes
<1>6. TypeOK'
  BY <1>2, <1>4, <1>5 DEF TypeOK, DBTypes, ChainTypes, JobTypes, HistTypes
<1>7. CyclesOK'
  BY <1>1, <1>2, <1>3 DEF IInv, CyclesOK, DBTypes, Save, Names, For
<1> QED BY <1>2, <1>4, <1>6, <1>7 DEF IInv, UnsentOK, RegistryTruthful

LEMMA SaveRefusedOK ==
  ASSUME IInv, NEW j \in Jobs, SaveRefused(j)
  PROVE  IInv'
<1>1. JobTypes /\ JobsOK /\ HistTypes
  BY TypesSplit DEF IInv
<1>2. UNCHANGED <<db, tx, mintOf>> /\ HistTypes'
  BY <1>1 DEF SaveRefused, hist, HistTypes
<1>3. JobTypes' /\ JobsOK'
  BY <1>1, <1>2, ThrowOK DEF SaveRefused
<1> QED BY <1>2, <1>3, QuietOK

LEMMA BeginOK ==
  ASSUME IInv, NEW j \in Jobs, BeginMintAttempt(j)
  PROVE  IInv'
<1>1. JobTypes /\ JobsOK /\ HistTypes
  BY TypesSplit DEF IInv
<1>2. UNCHANGED <<db, tx, mintOf>> /\ HistTypes'
  BY <1>1 DEF BeginMintAttempt, hist, HistTypes
<1>3. Row("minting") \in Rows /\ Names(Row("minting"), at[j])
  BY RowType DEF Statuses
<1>4. CASE WillSave(j, "save_begin", Row("minting"))
  <2>1. JobTypes' /\ JobsOK'
    BY <1>1, <1>2, <1>3, <1>4, WillSaveOK
       DEF BeginMintAttempt, Pcs, Holding, Recording
  <2> QED BY <1>2, <2>1, QuietOK
<1>5. CASE Stop(j)
  BY <1>1, <1>2, <1>5, StopOK, QuietOK
<1> QED BY <1>4, <1>5 DEF BeginMintAttempt

LEMMA NoteOK ==
  ASSUME IInv, NEW j \in Jobs, NoteMintAttemptTx(j)
  PROVE  IInv'
<1>1. JobTypes /\ JobsOK /\ HistTypes
  BY TypesSplit DEF IInv
<1>2. UNCHANGED <<db, tx, mintOf>> /\ HistTypes'
  BY <1>1 DEF NoteMintAttemptTx, hist, HistTypes
<1> DEFINE r == cycle[at[j]]
           hooked == Stamped(r, token[j], "hook")
           noted  == Stamped(r, token[j], "note")
<1>3. /\ at[j] \in Cycles /\ token[j] \in Txs \cup {None} /\ token[j] # None
      /\ For(token[j], at[j])
      /\ pc[j] = "note" => tx[token[j]] = "mined"
  BY <1>1 DEF NoteMintAttemptTx, JobTypes, JobsOK, JobOK, Holding, Recording
<1>4. r \in Rows /\ Names(r, at[j])
  BY <1>3, TypesSplit DEF IInv, DBTypes, CyclesOK
<1>5. hooked \in Rows /\ noted \in Rows
  BY <1>3, <1>4 DEF Rows, Stamped
<1>6. Names(hooked, at[j]) /\ (pc[j] = "note" => Names(noted, at[j]))
  BY <1>3, <1>4 DEF Names, Rows, Stamped
<1>7. JobTypes' /\ JobsOK'
  <2>1. CASE pc[j] = "hook" /\ GoTo(j, "wait")
    BY <1>1, <1>2, <1>3, <2>1, GoToOK DEF Pcs, Recording
  <2>2. CASE pc[j] = "note" /\ GoTo(j, "record")
    BY <1>1, <1>2, <1>3, <2>2, GoToOK DEF Pcs, Recording
  <2>3. CASE pc[j] = "hook" /\ WillSave(j, "save_hook", hooked)
    BY <1>1, <1>2, <1>3, <1>5, <1>6, <2>3, WillSaveOK DEF Pcs, Recording
  <2>4. CASE pc[j] = "note" /\ WillSave(j, "save_note", noted)
    BY <1>1, <1>2, <1>3, <1>5, <1>6, <2>4, WillSaveOK DEF Pcs
  <2> QED BY <2>1, <2>2, <2>3, <2>4 DEF NoteMintAttemptTx
<1> QED BY <1>2, <1>7, QuietOK

LEMMA CancelOK ==
  ASSUME IInv, NEW j \in Jobs, CancelCycle(j)
  PROVE  IInv'
<1>1. JobTypes /\ JobsOK /\ HistTypes
  BY TypesSplit DEF IInv
<1>2. UNCHANGED <<db, tx, mintOf>> /\ HistTypes'
  BY <1>1 DEF CancelCycle, hist, HistTypes
<1>3. Row("cancelled") \in Rows /\ Names(Row("cancelled"), at[j])
  BY RowType DEF Statuses
<1>4. CASE WillSave(j, "save_cancel", Row("cancelled"))
  <2>1. JobTypes' /\ JobsOK'
    BY <1>1, <1>2, <1>3, <1>4, WillSaveOK
       DEF CancelCycle, Pcs, Holding, Recording
  <2> QED BY <1>2, <2>1, QuietOK
<1>5. CASE Resume(j)
  BY <1>1, <1>2, <1>5, ResumeOK, QuietOK
<1> QED BY <1>4, <1>5 DEF CancelCycle

LEMMA RecordOK ==
  ASSUME IInv, NEW j \in Jobs, RecordMintResult(j)
  PROVE  IInv'
<1>1. JobTypes /\ JobsOK /\ HistTypes
  BY TypesSplit DEF IInv
<1>2. /\ token[j] \in Txs \cup {None} /\ token[j] # None
      /\ tx[token[j]] = "mined"
  BY <1>1 DEF RecordMintResult, JobTypes, JobsOK, JobOK, Holding, Recording
<1>3. UNCHANGED <<db, tx, mintOf>> /\ HistTypes'
  BY <1>1 DEF RecordMintResult, hist, HistTypes
<1>4. Row("minted") \in Rows /\ Names(Row("minted"), at[j])
  BY RowType DEF Statuses
<1>5. CASE WillSave(j, "save_record", Row("minted"))
  <2>1. JobTypes' /\ JobsOK'
    BY <1>1, <1>2, <1>3, <1>4, <1>5, WillSaveOK DEF RecordMintResult, Pcs
  <2> QED BY <1>3, <2>1, QuietOK
<1>6. CASE Stop(j)
  BY <1>1, <1>3, <1>6, StopOK, QuietOK
<1> QED BY <1>5, <1>6 DEF RecordMintResult

LEMMA UpsertOK ==
  ASSUME IInv, NEW j \in Jobs, Upsert(j)
  PROVE  IInv'
<1>1. JobTypes /\ JobsOK /\ HistTypes /\ DBTypes /\ ChainTypes
  BY TypesSplit DEF IInv
<1>2. /\ token[j] \in Txs /\ at[j] \in Cycles /\ For(token[j], at[j])
      /\ tx[token[j]] = "mined"
  BY <1>1 DEF Upsert, JobTypes, JobsOK, JobOK, Holding, Recording
<1>3. UNCHANGED <<cycle, age, tx, mintOf>> /\ HistTypes' /\ ChainTypes'
  BY <1>1, <1>2 DEF Upsert, HistTypes, ChainTypes
<1>4. CASE registry' = [registry EXCEPT ![token[j]] = at[j]] /\ Resume(j)
  <2>1. JobTypes' /\ JobsOK'
    BY <1>1, <1>3, <1>4, ResumeOK
  <2>2. DBTypes'
    BY <1>1, <1>2, <1>3, <1>4 DEF DBTypes
  <2>3. TypeOK'
    BY <1>3, <2>1, <2>2 DEF TypeOK, DBTypes, ChainTypes, JobTypes, HistTypes
  <2>4. RegistryTruthful'
    BY <1>1, <1>2, <1>3, <1>4 DEF IInv, RegistryTruthful, DBTypes, For
  <2> QED
    BY <1>3, <2>1, <2>3, <2>4 DEF IInv, UnsentOK, CyclesOK, Names, For
<1>5. CASE Stop(j) /\ UNCHANGED registry
  <2>1. JobTypes' /\ JobsOK'
    BY <1>1, <1>3, <1>5, StopOK
  <2> QED BY <1>3, <1>5, <2>1, QuietOK DEF db
<1> QED BY <1>4, <1>5 DEF Upsert

LEMMA BroadcastOK ==
  ASSUME IInv, NEW j \in Jobs, Broadcast(j)
  PROVE  IInv'
<1>1. JobTypes /\ JobsOK /\ HistTypes /\ DBTypes /\ ChainTypes
  BY TypesSplit DEF IInv
<1>2. PICK t \in Txs :
        /\ tx[t] = "unsent"
        /\ tx' = [tx EXCEPT ![t] = "pending"]
        /\ mintOf' = [mintOf EXCEPT ![t] = at[j]]
        /\ Hold(j, op[j], "hook", at[j], Row("none"), 0, t)
  BY DEF Broadcast
<1>3. UNCHANGED <<cycle, age, registry>> /\ HistTypes' /\ DBTypes'
  BY <1>1 DEF Broadcast, db, HistTypes, DBTypes
<1>4. at[j] \in Cycles /\ mintOf[t] = None
  BY <1>1, <1>2 DEF Broadcast, IInv, UnsentOK, JobsOK, JobOK
<1>5. Row("none") \in Rows /\ Names(Row("none"), at[j])'
  BY RowType DEF Statuses, Names, Row
<1>6. \A u \in Txs : u # t => mintOf'[u] = mintOf[u] /\ tx'[u] = tx[u]
  BY <1>1, <1>2 DEF ChainTypes
<1>7. mintOf'[t] = at[j] /\ tx'[t] = "pending" /\ at[j] # None
  BY <1>1, <1>2, <1>4, Numbers DEF ChainTypes
<1>8. \A u \in Txs : \A c : For(u, c) => u # t /\ For(u, c)'
  BY <1>4, <1>6 DEF For
<1>9. \A r \in Rows : \A c : Names(r, c) => Names(r, c)'
  <2> SUFFICES ASSUME NEW r \in Rows, NEW c, Names(r, c)
               PROVE  /\ r.txHash # None => For(r.txHash, c)'
                      /\ r.tokenId # None =>
                           For(r.tokenId, c)' /\ tx'[r.tokenId] = "mined"
    BY DEF Names
  <2>1. r.txHash \in Txs \cup {None} /\ r.tokenId \in Txs \cup {None}
    BY DEF Rows
  <2> QED BY <1>6, <1>8, <2>1 DEF Names
<1>10. JobTypes'
  <2>1. op[j] \in {"none", "request", "check", "mint", "recover"}
        /\ at[j] \in Cycles \cup {None}
    BY <1>1 DEF JobTypes
  <2> QED BY <1>1, <1>2, <1>5, <2>1 DEF JobTypes, Hold, Pcs
<1>11. ChainTypes'
  BY <1>1, <1>2, <1>4 DEF ChainTypes
<1>12. JobsOK'
  <2>1. ASSUME NEW k \in Jobs
        PROVE  JobOK(pc[k], at[k], snap[k], token[k])'
    <3>1. CASE k = j
      <4>1. /\ pc'[k] = "hook" /\ at'[k] = at[j] /\ snap'[k] = Row("none")
            /\ token'[k] = t
        BY <1>1, <1>2, <3>1 DEF Hold, JobTypes
      <4>2. t # None
        BY Numbers
      <4>3. Row("none").txHash = None /\ Row("none").tokenId = None
        BY DEF Row
      <4> QED BY <1>4, <1>7, <4>1, <4>2, <4>3 DEF JobOK, Names, For, Recording
    <3>2. CASE k # j
      <4>1. /\ pc'[k] = pc[k] /\ at'[k] = at[k] /\ snap'[k] = snap[k]
            /\ token'[k] = token[k]
        BY <1>1, <1>2, <3>2 DEF Hold, JobTypes
      <4>2. JobOK(pc[k], at[k], snap[k], token[k]) /\ snap[k] \in Rows
            /\ token[k] \in Txs \cup {None}
        BY <1>1 DEF JobsOK, JobTypes
      <4>3. Names(snap[k], at[k])'
        <5>1. Names(snap[k], at[k])
          BY <4>2 DEF JobOK
        <5> QED BY <1>9, <4>1, <4>2, <5>1 DEF Names, For
      <4>4. token[k] # None =>
              /\ token[k] # t
              /\ mintOf'[token[k]] = at[k] /\ at[k] # None
              /\ tx'[token[k]] = tx[token[k]]
        BY <1>4, <1>6, <4>2 DEF JobOK, For
      <4> QED BY <4>1, <4>2, <4>3, <4>4 DEF JobOK, For, Recording, Holding
    <3> QED BY <3>1, <3>2
  <2> QED BY <2>1 DEF JobsOK
<1>13. CyclesOK'
  <2> SUFFICES ASSUME NEW c \in Cycles PROVE Names(cycle[c], c)'
    BY DEF CyclesOK
  <2>1. cycle[c] \in Rows /\ Names(cycle[c], c) /\ cycle'[c] = cycle[c]
    BY <1>1, <1>3 DEF IInv, CyclesOK, DBTypes
  <2> QED BY <1>9, <2>1 DEF Names, For
<1>14. UnsentOK'
  BY <1>6, <1>7 DEF IInv, UnsentOK
<1>15. RegistryTruthful'
  BY <1>2, <1>3, <1>6 DEF IInv, RegistryTruthful
<1>16. TypeOK'
  BY <1>3, <1>10, <1>11 DEF TypeOK, DBTypes, ChainTypes, JobTypes, HistTypes
<1> QED BY <1>12, <1>13, <1>14, <1>15, <1>16 DEF IInv

LEMMA WaitOK ==
  ASSUME IInv, NEW j \in Jobs, Wait(j)
  PROVE  IInv'
<1>1. JobTypes /\ JobsOK /\ HistTypes
  BY TypesSplit DEF IInv
<1>2. UNCHANGED <<db, tx, mintOf>> /\ HistTypes'
  BY <1>1 DEF Wait, hist, HistTypes
<1>3. token[j] # None
  BY <1>1 DEF Wait, JobsOK, JobOK, Holding
<1>4. CASE tx[token[j]] = "mined" /\ GoTo(j, "note")
  <2>1. JobTypes' /\ JobsOK'
    BY <1>1, <1>2, <1>3, <1>4, GoToOK DEF Wait, Pcs
  <2> QED BY <1>2, <2>1, QuietOK
<1>5. CASE Throw(j)
  BY <1>1, <1>2, <1>5, ThrowOK, QuietOK
<1> QED BY <1>4, <1>5 DEF Wait

LEMMA RateLimitedOK ==
  ASSUME IInv, NEW j \in Jobs, RateLimited(j)
  PROVE  IInv'
<1>1. JobTypes /\ JobsOK /\ HistTypes
  BY TypesSplit DEF IInv
<1>2. /\ token[j] \in Txs \cup {None} /\ token[j] # None /\ at[j] \in Cycles
      /\ op[j] \in {"none", "request", "check", "mint", "recover"}
  BY <1>1 DEF RateLimited, JobTypes, JobsOK, JobOK, Holding
<1>3. UNCHANGED <<db, tx, mintOf>> /\ HistTypes'
  BY <1>1, <1>2 DEF RateLimited, HistTypes
<1>4. Row("none") \in Rows /\ Names(Row("none"), at[j])
  BY RowType DEF Statuses
<1>5. JobOK("send", at[j], Row("none"), None)
  BY <1>2, <1>4 DEF JobOK, Holding, Recording
<1>6. JobTypes' /\ JobsOK'
  BY <1>1, <1>2, <1>3, <1>4, <1>5, HoldOK DEF RateLimited, Pcs
<1> QED BY <1>3, <1>6, QuietOK

LEMMA MineOK ==
  ASSUME IInv, NEW t \in Txs, Mine(t)
  PROVE  IInv'
<1>1. JobTypes /\ JobsOK /\ HistTypes /\ DBTypes /\ ChainTypes
  BY TypesSplit DEF IInv
<1>2. UNCHANGED <<cycle, age, registry, op, pc, at, snap, seen, token,
                  mintOf, spoiled, torn, gaps, faults>>
  BY DEF Mine, db, jobs, hist
<1>3. ChainTypes' /\ tx[t] = "pending"
  BY <1>1, <1>2 DEF Mine, ChainTypes
<1>4. \A u \in Txs : /\ tx[u] = "mined" => tx'[u] = "mined"
                     /\ tx'[u] = "unsent" <=> tx[u] = "unsent"
  BY <1>1, <1>3 DEF Mine, ChainTypes
<1>5. \A r \in Rows : \A c : Names(r, c) => Names(r, c)'
  BY <1>2, <1>4 DEF Names, For, Rows
<1>6. JobsOK'
  <2> SUFFICES ASSUME NEW k \in Jobs
               PROVE  JobOK(pc[k], at[k], snap[k], token[k])'
    BY DEF JobsOK
  <2>1. /\ JobOK(pc[k], at[k], snap[k], token[k]) /\ snap[k] \in Rows
        /\ token[k] \in Txs \cup {None}
    BY <1>1 DEF JobsOK, JobTypes
  <2>2. Names(snap[k], at[k])'
    <3>1. Names(snap[k], at[k])
      BY <2>1 DEF JobOK
    <3> QED BY <1>2, <1>5, <2>1, <3>1 DEF Names, For
  <2> QED BY <1>2, <1>4, <2>1, <2>2 DEF JobOK, For, Holding, Recording
<1>7. CyclesOK'
  <2> SUFFICES ASSUME NEW c \in Cycles PROVE Names(cycle[c], c)'
    BY DEF CyclesOK
  <2>1. cycle[c] \in Rows /\ Names(cycle[c], c) /\ cycle'[c] = cycle[c]
    BY <1>1, <1>2 DEF IInv, CyclesOK, DBTypes
  <2> QED BY <1>5, <2>1 DEF Names, For
<1>8. UnsentOK' /\ RegistryTruthful'
  BY <1>2, <1>4 DEF IInv, UnsentOK, RegistryTruthful
<1>9. TypeOK'
  BY <1>1, <1>2, <1>3 DEF TypeOK, DBTypes, ChainTypes, JobTypes, HistTypes
<1> QED BY <1>6, <1>7, <1>8, <1>9 DEF IInv

LEMMA AgeOK ==
  ASSUME IInv, NEW c \in Cycles, Age(c)
  PROVE  IInv'
<1>1. UNCHANGED <<cycle, registry, tx, op, pc, at, snap, token, mintOf,
                  spoiled, torn, gaps, faults>>
  BY DEF Age, hist
<1>2. age[c] \in 0..2 /\ \A j \in Jobs : seen[j] \in 0..2
  BY DEF IInv, TypeOK
<1>3. age' \in [Cycles -> 0..2]
  <2>1. age[c] + 1 \in 0..2
    BY <1>2 DEF Age
  <2> QED BY <2>1 DEF Age, IInv, TypeOK
<1>4. seen' \in [Jobs -> 0..2]
  BY <1>2 DEF Age
<1>5. TypeOK'
  BY <1>1, <1>3, <1>4 DEF IInv, TypeOK
<1> QED
  BY <1>1, <1>5 DEF IInv, UnsentOK, CyclesOK, JobsOK, JobOK, Names, For,
                    RegistryTruthful

\* What a failing job or a restart cuts off.
LEMMA CutOffType ==
  ASSUME JobsOK, NEW S \in SUBSET Jobs
  PROVE  CutOff(S) \in SUBSET Cycles
BY DEF CutOff, JobsOK, JobOK

LEMMA FailOK ==
  ASSUME IInv, NEW j \in Jobs, Fail(j)
  PROVE  IInv'
<1>1. JobTypes /\ JobsOK /\ HistTypes
  BY TypesSplit DEF IInv
<1>2. UNCHANGED <<db, tx, mintOf>> /\ HistTypes'
  <2>1. CutOff({j}) \in SUBSET Cycles
    BY <1>1, CutOffType
  <2> QED BY <1>1, <2>1 DEF Fail, HistTypes, Gap
<1>3. JobTypes' /\ JobsOK'
  BY <1>1, <1>2, ThrowOK DEF Fail
<1> QED BY <1>2, <1>3, QuietOK

LEMMA CrashOK ==
  ASSUME IInv, Crash
  PROVE  IInv'
<1>1. JobTypes /\ JobsOK /\ HistTypes
  BY TypesSplit DEF IInv
<1>2. UNCHANGED <<db, tx, mintOf>> /\ HistTypes'
  <2>1. CutOff(Jobs) \in SUBSET Cycles
    BY <1>1, CutOffType
  <2> QED BY <1>1, <2>1 DEF Crash, HistTypes, Gap
<1>3. Row("none") \in Rows /\ \A c : Names(Row("none"), c)
  BY RowType DEF Statuses
<1>4. JobTypes'
  BY <1>3 DEF Crash, JobTypes, Pcs
<1>5. JobsOK'
  <2>1. ASSUME NEW j \in Jobs PROVE JobOK(pc[j], at[j], snap[j], token[j])'
    <3>1. /\ pc'[j] = "idle" /\ at'[j] = None /\ snap'[j] = Row("none")
          /\ token'[j] = None
      BY DEF Crash
    <3>2. Row("none").txHash = None /\ Row("none").tokenId = None
      BY DEF Row
    <3> QED BY <3>1, <3>2 DEF JobOK, Names, Holding, Recording
  <2> QED BY <2>1 DEF JobsOK
<1> QED BY <1>2, <1>4, <1>5, QuietOK

-----------------------------------------------------------------------------
(* The theorems                                                            *)

LEMMA StepOK == IInv /\ [Next]_vars => IInv'
<1> SUFFICES ASSUME IInv, [Next]_vars PROVE IInv'
  OBVIOUS
<1>1. CASE UNCHANGED vars
  BY <1>1 DEF vars, db, jobs, hist, IInv, TypeOK, UnsentOK, CyclesOK, JobsOK,
              JobOK, Names, For, RegistryTruthful
<1>2. ASSUME NEW j \in Slots, NEW o \in {"request", "check"}, Request(j, o)
      PROVE  IInv'
  BY <1>2, RequestOK DEF Jobs
<1>3. CASE RecoverPass
  <2>1. PICK c \in Cycles : TakeRow(Cron, "recover", c)
    BY <1>3 DEF RecoverPass
  <2>2. UNCHANGED <<db, tx, mintOf>> /\ HistTypes'
    BY <1>3, TypesSplit DEF RecoverPass, hist, HistTypes, IInv
  <2>3. JobTypes' /\ JobsOK'
    BY <2>1, <2>2, TakeRowOK DEF Jobs
  <2> QED BY <2>2, <2>3, QuietOK
<1>4. ASSUME NEW j \in Jobs, Step(j)
      PROVE  IInv'
  BY <1>4, HealOneOK, ReserveOK, BeginOK, NoteOK, CancelOK, RecordOK,
     SaveRowOK, SaveRefusedOK, UpsertOK, BroadcastOK, WaitOK DEF Step
<1>5. ASSUME NEW j \in Jobs, RateLimited(j) \/ Fail(j)
      PROVE  IInv'
  BY <1>5, RateLimitedOK, FailOK
<1>6. CASE Crash
  BY <1>6, CrashOK
<1>7. ASSUME NEW t \in Txs, Mine(t)
      PROVE  IInv'
  BY <1>7, MineOK
<1>8. ASSUME NEW c \in Cycles, Age(c)
      PROVE  IInv'
  BY <1>8, AgeOK
<1> QED BY <1>1, <1>2, <1>3, <1>4, <1>5, <1>6, <1>7, <1>8 DEF Next

LEMMA Invariance == Spec => []IInv
BY InitOK, StepOK, PTL DEF Spec

\* Every reachable state of the mint and its recovery is well typed
\* (VaultService, RwaMintService, VaultMintRecoveryService).
THEOREM TypeCorrect == Spec => []TypeOK
<1>1. IInv => TypeOK
  BY DEF IInv
<1> QED BY <1>1, Invariance, PTL

\* The registry never lies about the chain: whichever handler recorded it, and
\* from however old a copy of the attempt, a registered token was minted, and
\* minted for the cycle it is linked to (recordMintResult, healOne).
THEOREM RegistryIsTruthful == Spec => []RegistryTruthful
<1>1. IInv => RegistryTruthful
  BY DEF IInv
<1> QED BY <1>1, Invariance, PTL

-----------------------------------------------------------------------------
(* Ghosts are accounted for.  Only one cycle at a time is neither cancelled *)
(* nor still to be minted, and one job mints for it: the transactions sent  *)
(* for a cycle outnumber the gaps by one at most, and when they do, one of  *)
(* them is on a record that keeps it.                                       *)

\* The calls of the handler that mints for its cycle.
Minting == {"begin", "save_begin"} \cup InTry

\* The transactions sent for cycle c, and the one a job is about to send anew.
Mints(c) == {t \in Txs : mintOf[t] = c}
At(P, c) == \E j \in Jobs : pc[j] \in P /\ at[j] = c
Due(c)   == IF At({"send"}, c) THEN 1 ELSE 0
Sends(c) == Cardinality(Mints(c)) + Due(c)

\* One of them cannot become a ghost without another gap.
Rescued(c) ==
  \/ \E t \in Txs : registry[t] = c
  \/ At({"upsert"}, c)
  \/ /\ cycle[c].status = "minting"
     /\ cycle[c].txHash # None \/ At({"send", "hook", "save_hook"}, c)

BudgetOK(c) ==
  /\ Sends(c) <= gaps + 1
  /\ Sends(c) = gaps + 1 /\ c \notin spoiled => Rescued(c)

\* Where a job at call p stands with cycle c, row r and token t.
Place(p, c, r, t) ==
  /\ c # None => cycle[c].status # "none"
  /\ p \in {"begin", "save_begin", "mint"} => Mints(c) = {}
  /\ p = "mint" /\ c \notin spoiled => cycle[c].status = "minting"
  /\ p \in {"mint", "send"} => cycle[c].status # "deposit_verified"
  /\ p \in {"save_begin", "save_hook", "save_note"} => r.status = "minting"
  /\ p \in {"save_hook", "save_note"} => r.txHash = t
  /\ p = "save_record" => r = Row("minted")
  /\ p = "save_cancel" => r = Row("cancelled")

PlacesOK  == \A j \in Jobs : Place(pc[j], at[j], snap[j], token[j])
OneMinter == \A j, k \in Jobs :
  j # k /\ pc[j] \in Minting /\ pc[k] \in Minting => at[j] # at[k]
StatusOK  == \A c \in Cycles :
  /\ cycle[c].status \in {"none", "deposit_verified"} => Mints(c) = {}
  /\ cycle[c].status = "cancelled" => c \in spoiled
OneOpenRow == \A c, d \in Cycles :
  cycle[c].status \in Open /\ cycle[d].status \in Open => c = d
Budget == \A c \in Cycles : BudgetOK(c)

Facts == PlacesOK /\ OneMinter /\ StatusOK /\ OneOpenRow /\ Budget
GInv  == IInv /\ Facts

LEMMA MintsFinite ==
  ASSUME NEW c
  PROVE  IsFiniteSet(Mints(c)) /\ Cardinality(Mints(c)) \in Nat
<1>1. IsFiniteSet(Txs)
  BY BoundAssumption, FS_Interval DEF Txs
<1>2. IsFiniteSet(Mints(c))
  BY <1>1, FS_Subset DEF Mints
<1> QED BY <1>2, FS_CardinalityType

LEMMA SendsType ==
  ASSUME NEW c
  PROVE  /\ Due(c) \in 0..1 /\ Sends(c) \in Nat
         /\ Sends(c) = Cardinality(Mints(c)) + Due(c)
BY MintsFinite DEF Due, Sends

\* A job goes on, and leaves the rows, the chain and the history alone.
LEMMA QuietFacts ==
  ASSUME GInv, NEW j \in Jobs, NEW o, NEW p, NEW c, NEW r, NEW a, NEW t,
         Hold(j, o, p, c, r, a, t), Place(p, c, r, t),
         p \in Minting => pc[j] \in Minting /\ at[j] = c,
         p # "send", pc[j] \notin {"send", "upsert"},
         pc[j] \in {"hook", "save_hook"} =>
           \/ p \in {"hook", "save_hook"} /\ c = at[j]
           \/ at[j] \in spoiled
           \/ cycle[at[j]].status # "minting",
         UNCHANGED <<cycle, registry, mintOf, spoiled, gaps>>
  PROVE  Facts'
<1>1. JobTypes /\ Facts
  BY TypesSplit DEF GInv, IInv
<1>2. /\ pc'[j] = p /\ at'[j] = c /\ snap'[j] = r /\ token'[j] = t
      /\ \A k \in Jobs \ {j} :
           /\ pc'[k] = pc[k] /\ at'[k] = at[k] /\ snap'[k] = snap[k]
           /\ token'[k] = token[k]
  BY <1>1 DEF Hold, JobTypes
<1>3. PlacesOK'
  <2> SUFFICES ASSUME NEW k \in Jobs
               PROVE  Place(pc[k], at[k], snap[k], token[k])'
    BY DEF PlacesOK
  <2>1. CASE k = j
    BY <1>2, <2>1 DEF Place, Mints
  <2>2. CASE k # j
    BY <1>1, <1>2, <2>2 DEF Facts, PlacesOK, Place, Mints
  <2> QED BY <2>1, <2>2
<1>4. OneMinter'
  <2> SUFFICES ASSUME NEW k \in Jobs, NEW l \in Jobs, k # l,
                      pc'[k] \in Minting, pc'[l] \in Minting
               PROVE  at'[k] # at'[l]
    BY DEF OneMinter
  <2> QED BY <1>1, <1>2 DEF Facts, OneMinter
<1>5. StatusOK' /\ OneOpenRow'
  BY <1>1 DEF Facts, StatusOK, OneOpenRow, Mints
<1>6. Budget'
  <2> SUFFICES ASSUME NEW d \in Cycles PROVE BudgetOK(d)'
    BY DEF Budget
  <2>1. Mints(d)' = Mints(d)
    BY DEF Mints
  <2>2. At({"send"}, d)' <=> At({"send"}, d)
    BY <1>2 DEF At
  <2>3. Sends(d)' = Sends(d)
    BY <2>1, <2>2 DEF Sends, Due
  <2>4. BudgetOK(d)
    BY <1>1 DEF Facts, Budget
  <2>5. Rescued(d) /\ d \notin spoiled => Rescued(d)'
    BY <1>2 DEF Rescued, At
  <2> QED BY <2>3, <2>4, <2>5 DEF BudgetOK
<1> QED BY <1>3, <1>4, <1>5, <1>6 DEF Facts

LEMMA StopFacts ==
  ASSUME GInv, NEW j \in Jobs, Stop(j),
         pc[j] \notin {"send", "upsert"},
         pc[j] \in {"hook", "save_hook"} =>
           at[j] \in spoiled \/ cycle[at[j]].status # "minting",
         UNCHANGED <<cycle, registry, mintOf, spoiled, gaps>>
  PROVE  Facts'
<1>1. Place("idle", None, Row("none"), None)
  BY DEF Place
<1> QED BY <1>1, QuietFacts DEF Stop, Minting, InTry, Locked

LEMMA ResumeFacts ==
  ASSUME GInv, NEW j \in Jobs, Resume(j),
         pc[j] \notin {"send", "upsert", "hook", "save_hook"},
         UNCHANGED <<cycle, registry, mintOf, spoiled, gaps>>
  PROVE  Facts'
<1>1. Place("reserve", None, Row("none"), None)
  BY DEF Place
<1>2. CASE op[j] = "request"
  BY <1>1, <1>2, QuietFacts DEF Resume, Minting, InTry, Locked
<1>3. CASE op[j] # "request"
  BY <1>3, StopFacts DEF Resume
<1> QED BY <1>2, <1>3

\* The calls a job goes to with its cycle and no row.
LEMMA GoToFacts ==
  ASSUME GInv, NEW j \in Jobs, NEW p \in {"cancel", "wait", "note", "record"},
         GoTo(j, p),
         p = "wait" => pc[j] \in Minting,
         pc[j] \notin {"send", "upsert"},
         pc[j] \in {"hook", "save_hook"} =>
           at[j] \in spoiled \/ cycle[at[j]].status # "minting",
         UNCHANGED <<cycle, registry, mintOf, spoiled, gaps>>
  PROVE  Facts'
<1>1. Place(p, at[j], Row("none"), token[j])
  BY DEF GInv, Facts, PlacesOK, Place
<1> QED BY <1>1, QuietFacts DEF GoTo, Minting, InTry, Locked

LEMMA WillSaveFacts ==
  ASSUME GInv, NEW j \in Jobs,
         NEW p \in {"save_begin", "save_hook", "save_note", "save_record",
                    "save_cancel"},
         NEW r, WillSave(j, p, r),
         p = "save_begin" => pc[j] = "begin" /\ r = Row("minting"),
         p = "save_hook" => pc[j] = "hook",
         p \in {"save_hook", "save_note"} =>
           r.status = "minting" /\ r.txHash = token[j],
         p = "save_record" => r = Row("minted"),
         p = "save_cancel" => r = Row("cancelled"),
         pc[j] \notin {"send", "upsert", "save_hook"},
         pc[j] = "hook" => p = "save_hook",
         UNCHANGED <<cycle, registry, mintOf, spoiled, gaps>>
  PROVE  Facts'
<1>1. Place(pc[j], at[j], snap[j], token[j])
  BY DEF GInv, Facts, PlacesOK
<1>2. Place(p, at[j], r, token[j])
  BY <1>1 DEF Place, Row
<1> QED BY <1>2, QuietFacts DEF WillSave, Minting, InTry, Locked

LEMMA QuietVars ==
  ASSUME UNCHANGED <<db, tx, hist>>
  PROVE  UNCHANGED <<cycle, registry, mintOf, spoiled, gaps>>
BY DEF db, hist

LEMMA TakeRowFacts ==
  ASSUME GInv, NEW j \in Jobs, NEW c \in Cycles, NEW o, TakeRow(j, o, c),
         cycle[c].status = "minting", pc[j] = "idle",
         UNCHANGED <<cycle, registry, mintOf, spoiled, gaps>>
  PROVE  Facts'
<1>1. Place("heal", c, cycle[c], None)
  BY DEF Place
<1> QED BY <1>1, QuietFacts DEF TakeRow, Minting, InTry, Locked

LEMMA RequestFacts ==
  ASSUME GInv, NEW j \in Jobs, NEW o \in {"request", "check"}, Request(j, o)
  PROVE  Facts'
<1>1. UNCHANGED <<cycle, registry, mintOf, spoiled, gaps>> /\ pc[j] = "idle"
  BY QuietVars DEF Request
<1>2. \/ \E c \in Cycles : cycle[c].status = "minting" /\ TakeRow(j, o, c)
      \/ \E c \in Cycles : /\ cycle[c].status = "deposit_verified"
                           /\ Hold(j, o, "cancel", c, Row("none"), 0, None)
      \/ Hold(j, "request", "reserve", None, Row("none"), 0, None)
  BY DEF Request
<1>3. CASE \E c \in Cycles : cycle[c].status = "minting" /\ TakeRow(j, o, c)
  BY <1>1, <1>3, TakeRowFacts
<1>4. ASSUME NEW c \in Cycles, cycle[c].status = "deposit_verified",
             Hold(j, o, "cancel", c, Row("none"), 0, None)
      PROVE  Facts'
  <2>1. Place("cancel", c, Row("none"), None)
    BY <1>4 DEF Place
  <2> QED BY <1>1, <1>4, <2>1, QuietFacts DEF Minting, InTry, Locked
<1>5. CASE Hold(j, "request", "reserve", None, Row("none"), 0, None)
  <2>1. Place("reserve", None, Row("none"), None)
    BY DEF Place
  <2> QED BY <1>1, <1>5, <2>1, QuietFacts DEF Minting, InTry, Locked
<1> QED BY <1>2, <1>3, <1>4, <1>5

LEMMA HealOneFacts ==
  ASSUME GInv, NEW j \in Jobs, HealOne(j)
  PROVE  Facts'
<1>1. UNCHANGED <<cycle, registry, mintOf, spoiled, gaps>> /\ pc[j] = "heal"
  BY QuietVars DEF HealOne
<1>2. ASSUME NEW t, Hold(j, op[j], "record", at[j], Row("none"), 0, t)
      PROVE  Facts'
  <2>1. Place("record", at[j], Row("none"), t)
    BY DEF GInv, Facts, PlacesOK, Place
  <2> QED BY <1>1, <1>2, <2>1, QuietFacts DEF Minting, InTry, Locked
<1>3. CASE GoTo(j, "cancel")
  BY <1>1, <1>3, GoToFacts
<1>4. CASE Resume(j)
  BY <1>1, <1>4, ResumeFacts
<1> QED BY <1>2, <1>3, <1>4 DEF HealOne

LEMMA BeginFacts ==
  ASSUME GInv, NEW j \in Jobs, BeginMintAttempt(j)
  PROVE  Facts'
<1>1. UNCHANGED <<cycle, registry, mintOf, spoiled, gaps>> /\ pc[j] = "begin"
  BY QuietVars DEF BeginMintAttempt
<1>2. CASE WillSave(j, "save_begin", Row("minting"))
  BY <1>1, <1>2, WillSaveFacts
<1>3. CASE Stop(j)
  BY <1>1, <1>3, StopFacts
<1> QED BY <1>2, <1>3 DEF BeginMintAttempt

LEMMA NoteFacts ==
  ASSUME GInv, NEW j \in Jobs, NoteMintAttemptTx(j)
  PROVE  Facts'
<1>1. UNCHANGED <<cycle, registry, mintOf, spoiled, gaps>>
  BY QuietVars DEF NoteMintAttemptTx
<1> DEFINE r == cycle[at[j]]
<1>2. at[j] \in Cycles
  BY DEF NoteMintAttemptTx, GInv, IInv, JobsOK, JobOK
<1>3. r \in Rows
  BY <1>2, TypesSplit DEF GInv, IInv, DBTypes
<1>4. ASSUME NEW p, r.status = "minting"
      PROVE  /\ Stamped(r, token[j], p).status = "minting"
             /\ Stamped(r, token[j], p).txHash = token[j]
  BY <1>3, <1>4 DEF Stamped, Rows
<1>5. CASE pc[j] = "hook" /\ r.status # "minting" /\ GoTo(j, "wait")
  BY <1>1, <1>5, GoToFacts DEF Minting, InTry, Locked
<1>6. CASE pc[j] = "note" /\ r.status # "minting" /\ GoTo(j, "record")
  BY <1>1, <1>6, GoToFacts
<1>7. CASE /\ pc[j] = "hook" /\ r.status = "minting"
           /\ WillSave(j, "save_hook", Stamped(r, token[j], "hook"))
  BY <1>1, <1>4, <1>7, WillSaveFacts
<1>8. CASE /\ pc[j] = "note" /\ r.status = "minting"
           /\ WillSave(j, "save_note", Stamped(r, token[j], "note"))
  BY <1>1, <1>4, <1>8, WillSaveFacts
<1> QED BY <1>5, <1>6, <1>7, <1>8 DEF NoteMintAttemptTx

LEMMA CancelFacts ==
  ASSUME GInv, NEW j \in Jobs, CancelCycle(j)
  PROVE  Facts'
<1>1. UNCHANGED <<cycle, registry, mintOf, spoiled, gaps>> /\ pc[j] = "cancel"
  BY QuietVars DEF CancelCycle
<1>2. CASE WillSave(j, "save_cancel", Row("cancelled"))
  BY <1>1, <1>2, WillSaveFacts
<1>3. CASE Resume(j)
  BY <1>1, <1>3, ResumeFacts
<1> QED BY <1>2, <1>3 DEF CancelCycle

LEMMA RecordFacts ==
  ASSUME GInv, NEW j \in Jobs, RecordMintResult(j)
  PROVE  Facts'
<1>1. UNCHANGED <<cycle, registry, mintOf, spoiled, gaps>> /\ pc[j] = "record"
  BY QuietVars DEF RecordMintResult
<1>2. CASE WillSave(j, "save_record", Row("minted"))
  BY <1>1, <1>2, WillSaveFacts
<1>3. CASE Stop(j)
  BY <1>1, <1>3, StopFacts
<1> QED BY <1>2, <1>3 DEF RecordMintResult

LEMMA ThrowFacts ==
  ASSUME GInv, NEW j \in Jobs, Throw(j),
         pc[j] \notin {"send", "upsert"},
         pc[j] \in {"hook", "save_hook"} =>
           at[j] \in spoiled \/ cycle[at[j]].status # "minting",
         UNCHANGED <<cycle, registry, mintOf, spoiled, gaps>>
  PROVE  Facts'
<1>1. CASE pc[j] \in InTry
  BY <1>1, GoToFacts DEF Throw
<1>2. CASE pc[j] \notin InTry
  BY <1>2, StopFacts DEF Throw
<1> QED BY <1>1, <1>2

LEMMA WaitFacts ==
  ASSUME GInv, NEW j \in Jobs, Wait(j)
  PROVE  Facts'
<1>1. UNCHANGED <<cycle, registry, mintOf, spoiled, gaps>> /\ pc[j] = "wait"
  BY QuietVars DEF Wait
<1>2. CASE GoTo(j, "note")
  BY <1>1, <1>2, GoToFacts
<1>3. CASE Throw(j)
  BY <1>1, <1>3, ThrowFacts
<1> QED BY <1>2, <1>3 DEF Wait

LEMMA SaveRefusedFacts ==
  ASSUME GInv, NEW j \in Jobs, SaveRefused(j)
  PROVE  Facts'
<1>1. UNCHANGED <<cycle, registry, mintOf, spoiled, gaps>>
  BY QuietVars DEF SaveRefused
<1>2. at[j] \in Cycles /\ cycle[at[j]] \in Rows
      /\ Place(pc[j], at[j], snap[j], token[j])
  BY TypesSplit DEF SaveRefused, GInv, IInv, JobsOK, JobOK, DBTypes, Facts,
                    PlacesOK
<1>3. cycle[at[j]].status \notin Open
  BY <1>2 DEF SaveRefused, OneOpen, GInv, Facts, OneOpenRow
<1>4. cycle[at[j]].status # "minting"
  BY <1>3 DEF Open
<1> QED BY <1>1, <1>4, ThrowFacts DEF SaveRefused

\* What a job's move leaves of the others.
LEMMA MovesOne ==
  ASSUME JobTypes, NEW j \in Jobs, NEW o, NEW p, NEW c, NEW r, NEW a, NEW t,
         Hold(j, o, p, c, r, a, t)
  PROVE  /\ pc'[j] = p /\ at'[j] = c /\ snap'[j] = r /\ token'[j] = t
         /\ \A k \in Jobs \ {j} :
              /\ pc'[k] = pc[k] /\ at'[k] = at[k] /\ snap'[k] = snap[k]
              /\ token'[k] = token[k]
BY DEF Hold, JobTypes

LEMMA ReserveFacts ==
  ASSUME GInv, NEW j \in Jobs, Reserve(j)
  PROVE  Facts'
<1>1. CASE Stop(j) /\ UNCHANGED db
  BY <1>1, QuietVars, StopFacts DEF Reserve
<1>2. ASSUME NEW c \in Cycles, cycle[c].status = "none",
             \A d \in Cycles : cycle[d].status \notin Open,
             cycle' = [cycle EXCEPT ![c] = Deposited], UNCHANGED registry,
             Hold(j, "mint", "begin", c, Row("none"), 0, None),
             UNCHANGED hist
      PROVE  Facts'
  <2>1. /\ JobTypes /\ DBTypes /\ Facts
        /\ UNCHANGED <<registry, mintOf, spoiled, gaps>>
    BY <1>2, TypesSplit DEF GInv, IInv, hist
  <2>2. /\ pc'[j] = "begin" /\ at'[j] = c /\ snap'[j] = Row("none")
        /\ \A k \in Jobs \ {j} :
             /\ pc'[k] = pc[k] /\ at'[k] = at[k] /\ snap'[k] = snap[k]
             /\ token'[k] = token[k]
    BY <1>2, <2>1, MovesOne
  <2>3. /\ cycle'[c] = Deposited
        /\ \A d \in Cycles \ {c} : cycle'[d] = cycle[d]
        /\ Deposited.status = "deposit_verified"
    BY <1>2, <2>1 DEF DBTypes, Deposited, Row
  <2>4. Mints(c) = {} /\ \A d : Mints(d)' = Mints(d)
    BY <1>2, <2>1 DEF Facts, StatusOK, Mints
  <2>5. \A k \in Jobs : at[k] # c /\ at[k] \in Cycles \cup {None} /\ c # None
    BY <1>2, <2>1, Numbers DEF Facts, PlacesOK, Place, JobTypes
  <2>6. PlacesOK'
    <3> SUFFICES ASSUME NEW k \in Jobs
                 PROVE  Place(pc[k], at[k], snap[k], token[k])'
      BY DEF PlacesOK
    <3>1. CASE k = j
      BY <2>2, <2>3, <2>4, <3>1 DEF Place, Mints
    <3>2. CASE k # j
      <4>1. Place(pc[k], at[k], snap[k], token[k])
        BY <2>1 DEF Facts, PlacesOK
      <4>2. at[k] # None => cycle'[at[k]] = cycle[at[k]]
        BY <2>3, <2>5
      <4>3. pc[k] \in {"mint", "send"} => at[k] # None
        BY DEF GInv, IInv, JobsOK, JobOK, None, Cycles
      <4> QED BY <2>1, <2>2, <3>2, <4>1, <4>2, <4>3 DEF Place, Mints
    <3> QED BY <3>1, <3>2
  <2>7. OneMinter'
    <3> SUFFICES ASSUME NEW k \in Jobs, NEW l \in Jobs, k # l,
                        pc'[k] \in Minting, pc'[l] \in Minting
                 PROVE  at'[k] # at'[l]
      BY DEF OneMinter
    <3> QED BY <2>1, <2>2, <2>5 DEF Facts, OneMinter
  <2>8. StatusOK' /\ OneOpenRow'
    BY <1>2, <2>1, <2>3, <2>4 DEF Facts, StatusOK, OneOpenRow
  <2>9. Budget'
    <3> SUFFICES ASSUME NEW d \in Cycles PROVE BudgetOK(d)'
      BY DEF Budget
    <3>1. At({"send"}, d)' <=> At({"send"}, d)
      <4>1. pc[j] = "reserve"
        BY DEF Reserve
      <4> QED BY <2>2, <4>1 DEF At
    <3>2. Sends(d)' = Sends(d)
      BY <2>4, <3>1 DEF Sends, Due
    <3>3. CASE d = c
      <4>1. ~At({"send"}, c)
        BY <2>5 DEF At
      <4>2. Sends(c) = 0 /\ gaps \in Nat
        BY <2>4, <4>1, FS_EmptySet, TypesSplit
           DEF Sends, Due, HistTypes, GInv, IInv
      <4> QED BY <2>1, <3>2, <3>3, <4>2 DEF BudgetOK
    <3>4. CASE d # c
      <4>1. BudgetOK(d) /\ (Rescued(d) => Rescued(d)')
        <5>1. pc[j] = "reserve"
          BY DEF Reserve
        <5> QED BY <2>1, <2>2, <2>3, <3>4, <5>1 DEF Facts, Budget, Rescued, At
      <4> QED BY <2>1, <3>2, <4>1 DEF BudgetOK
    <3> QED BY <3>3, <3>4
  <2> QED BY <2>6, <2>7, <2>8, <2>9 DEF Facts
<1> QED BY <1>1, <1>2 DEF Reserve

\* A save of a row that a job holds.
LEMMA SaveRowFacts ==
  ASSUME GInv, NEW j \in Jobs, SaveRow(j)
  PROVE  Facts'
<1> DEFINE c == at[j]
           r == snap[j]
<1>1. /\ JobTypes /\ DBTypes /\ Facts /\ gaps \in Nat
      /\ UNCHANGED <<registry, mintOf, gaps>>
      /\ spoiled' = IF pc[j] = "save_cancel" THEN spoiled \cup {c} ELSE spoiled
      /\ pc[j] \in {"save_begin", "save_hook", "save_note", "save_record",
                    "save_cancel"}
      /\ OneOpen(c, r) /\ cycle' = [cycle EXCEPT ![c] = r]
  BY TypesSplit DEF GInv, IInv, SaveRow, Save, HistTypes
<1>2. /\ c \in Cycles /\ c # None /\ r \in Rows /\ cycle[c] \in Rows
      /\ Place(pc[j], c, r, token[j])
      /\ JobOK(pc[j], c, r, token[j])
  <2>1. Place(pc[j], c, r, token[j]) /\ JobOK(pc[j], c, r, token[j])
    BY DEF GInv, IInv, Facts, PlacesOK, JobsOK
  <2> QED BY <1>1, <2>1, Numbers DEF JobOK, JobTypes, DBTypes
<1>3. /\ cycle'[c] = r
      /\ \A d \in Cycles \ {c} : cycle'[d] = cycle[d]
      /\ \A d : Mints(d)' = Mints(d)
  BY <1>1, <1>2 DEF DBTypes, Mints
<1>4. /\ snap'[j] = Row("none")
      /\ \/ pc[j] = "save_begin"  /\ pc'[j] = "mint"   /\ at'[j] = c
         \/ pc[j] = "save_hook"   /\ pc'[j] = "wait"   /\ at'[j] = c
         \/ pc[j] = "save_note"   /\ pc'[j] = "record" /\ at'[j] = c
         \/ pc[j] = "save_record" /\ pc'[j] = "upsert" /\ at'[j] = c
         \/ /\ pc[j] = "save_cancel"
            /\ pc'[j] \in {"reserve", "idle"} /\ at'[j] = None
      /\ \A k \in Jobs \ {j} :
           /\ pc'[k] = pc[k] /\ at'[k] = at[k] /\ snap'[k] = snap[k]
           /\ token'[k] = token[k]
  <2>1. ASSUME NEW p, GoTo(j, p)
        PROVE  /\ pc'[j] = p /\ at'[j] = c /\ snap'[j] = Row("none")
               /\ \A k \in Jobs \ {j} :
                    /\ pc'[k] = pc[k] /\ at'[k] = at[k] /\ snap'[k] = snap[k]
                    /\ token'[k] = token[k]
    BY <1>1, <2>1, MovesOne DEF GoTo
  <2>2. ASSUME Resume(j)
        PROVE  /\ pc'[j] \in {"reserve", "idle"} /\ at'[j] = None
               /\ snap'[j] = Row("none")
               /\ \A k \in Jobs \ {j} :
                    /\ pc'[k] = pc[k] /\ at'[k] = at[k] /\ snap'[k] = snap[k]
                    /\ token'[k] = token[k]
    <3>1. CASE op[j] = "request"
      BY <1>1, <2>2, <3>1, MovesOne DEF Resume
    <3>2. CASE op[j] # "request"
      BY <1>1, <2>2, <3>2, MovesOne DEF Resume, Stop
    <3> QED BY <3>1, <3>2
  <2>3. CASE pc[j] = "save_begin" /\ GoTo(j, "mint")
    BY <2>1, <2>3
  <2>4. CASE pc[j] = "save_hook" /\ GoTo(j, "wait")
    BY <2>1, <2>4
  <2>5. CASE pc[j] = "save_note" /\ GoTo(j, "record")
    BY <2>1, <2>5
  <2>6. CASE pc[j] = "save_record" /\ GoTo(j, "upsert")
    BY <2>1, <2>6
  <2>7. CASE pc[j] = "save_cancel" /\ Resume(j)
    BY <2>2, <2>7
  <2> QED BY <2>3, <2>4, <2>5, <2>6, <2>7 DEF SaveRow
<1>5. /\ r.status \in {"minting", "minted", "cancelled"}
      /\ r.status = "cancelled" <=> pc[j] = "save_cancel"
      /\ r.status = "minted" <=> pc[j] = "save_record"
  BY <1>1, <1>2 DEF Place, Row
<1>6. \A k \in Jobs \ {j} : pc[k] = "mint" /\ at[k] = c =>
        pc[j] \in {"save_begin", "save_cancel"}
  BY <1>1, <1>2 DEF Facts, PlacesOK, Place, JobOK, Mints, Holding, Recording,
                    For, JobTypes
<1> HIDE DEF c, r
<1>7. PlacesOK'
  <2> SUFFICES ASSUME NEW k \in Jobs
               PROVE  Place(pc[k], at[k], snap[k], token[k])'
    BY DEF PlacesOK
  <2>1. CASE k = j
    <3>1. at'[j] # None => cycle'[at'[j]].status # "none"
      BY <1>3, <1>4, <1>5
    <3>2. ASSUME NEW d, pc'[j] = "mint", at'[j] = d
          PROVE  Mints(d)' = {} /\ cycle'[d].status = "minting"
      <4>1. pc[j] = "save_begin" /\ d = c
        BY <1>1, <1>4, <3>2
      <4> QED BY <1>2, <1>3, <4>1 DEF Place
    <3>3. pc'[j] \notin {"begin", "send", "save_begin", "save_hook",
                         "save_note", "save_record", "save_cancel"}
      BY <1>1, <1>4
    <3> QED BY <2>1, <3>1, <3>2, <3>3 DEF Place, Mints
  <2>2. CASE k # j
    <3>1. Place(pc[k], at[k], snap[k], token[k])
          /\ at[k] \in Cycles \cup {None}
      BY <1>1 DEF Facts, PlacesOK, JobTypes
    <3>2. at[k] # None => cycle'[at[k]].status # "none"
      BY <1>3, <1>5, <3>1 DEF Place
    <3>3. pc[k] = "mint" /\ at[k] \notin spoiled' =>
            cycle'[at[k]].status = "minting"
      <4>1. pc[k] = "mint" => at[k] \in Cycles
        BY DEF GInv, IInv, JobsOK, JobOK
      <4>2. CASE pc[k] = "mint" /\ at[k] = c
        <5>1. pc[j] \in {"save_begin", "save_cancel"}
          BY <1>6, <2>2, <4>2
        <5> QED BY <1>1, <1>3, <1>5, <4>2, <5>1 DEF c
      <4>3. CASE pc[k] = "mint" /\ at[k] # c
        BY <1>1, <1>3, <3>1, <4>1, <4>3 DEF Place
      <4> QED BY <4>2, <4>3
    <3>4. pc[k] \in {"mint", "send"} =>
            cycle'[at[k]].status # "deposit_verified"
      <4>1. pc[k] \in {"mint", "send"} => at[k] \in Cycles
        BY DEF GInv, IInv, JobsOK, JobOK
      <4> QED BY <1>3, <1>5, <3>1, <4>1 DEF Place
    <3> QED BY <1>3, <1>4, <2>2, <3>1, <3>2, <3>3, <3>4 DEF Place, Mints
  <2> QED BY <2>1, <2>2
<1>8. OneMinter'
  <2> SUFFICES ASSUME NEW k \in Jobs, NEW l \in Jobs, k # l,
                      pc'[k] \in Minting, pc'[l] \in Minting
               PROVE  at'[k] # at'[l]
    BY DEF OneMinter
  <2>1. pc'[j] \in Minting => pc[j] \in Minting /\ at'[j] = at[j]
    BY <1>1, <1>4 DEF Minting, InTry, Locked, c
  <2> QED BY <1>1, <1>4, <2>1 DEF Facts, OneMinter
<1>9. StatusOK'
  <2> SUFFICES ASSUME NEW d \in Cycles
               PROVE  /\ cycle'[d].status \in {"none", "deposit_verified"} =>
                           Mints(d)' = {}
                      /\ cycle'[d].status = "cancelled" => d \in spoiled'
    BY DEF StatusOK
  <2>1. CASE d = c
    BY <1>1, <1>3, <1>5, <2>1 DEF c
  <2>2. CASE d # c
    BY <1>1, <1>3, <2>2 DEF Facts, StatusOK
  <2> QED BY <2>1, <2>2
<1>10. OneOpenRow'
  BY <1>1, <1>2, <1>3 DEF Facts, OneOpenRow, OneOpen
<1>11. Budget'
  <2> SUFFICES ASSUME NEW d \in Cycles PROVE BudgetOK(d)'
    BY DEF Budget
  <2>1. At({"send"}, d)' <=> At({"send"}, d)
    BY <1>1, <1>4 DEF At
  <2>2. Sends(d)' = Sends(d) /\ BudgetOK(d)
    BY <1>1, <1>3, <2>1 DEF Sends, Due, Facts, Budget
  <2>3. CASE d # c
    <3>1. d \notin spoiled' => d \notin spoiled
      BY <1>1
    <3>2. Rescued(d) => Rescued(d)'
      BY <1>1, <1>3, <1>4, <2>3 DEF Rescued, At, c
    <3> QED BY <1>1, <2>2, <3>1, <3>2 DEF BudgetOK
  <2>4. CASE d = c
    <3>1. CASE pc[j] = "save_begin"
      <4>1. Mints(c) = {} /\ ~At({"send"}, c)
        BY <1>1, <1>2, <3>1
           DEF Place, At, Facts, OneMinter, Minting, InTry, Locked, c
      <4>2. Sends(d) = 0
        BY <2>4, <4>1, FS_EmptySet DEF Sends, Due
      <4> QED BY <1>1, <2>2, <4>2 DEF BudgetOK
    <3>2. CASE pc[j] \in {"save_hook", "save_note"}
      <4>1. cycle'[c].status = "minting" /\ cycle'[c].txHash # None
        BY <1>2, <1>3, <3>2 DEF Place, JobOK, Holding, Recording
      <4>2. Rescued(d)'
        BY <2>4, <4>1 DEF Rescued
      <4> QED BY <1>1, <2>2, <4>2 DEF BudgetOK
    <3>3. CASE pc[j] = "save_record"
      <4>1. Rescued(d)'
        BY <1>4, <2>4, <3>3 DEF Rescued, At
      <4> QED BY <1>1, <2>2, <4>1 DEF BudgetOK
    <3>4. CASE pc[j] = "save_cancel"
      BY <1>1, <2>2, <2>4, <3>4 DEF BudgetOK, c
    <3> QED BY <1>1, <3>1, <3>2, <3>3, <3>4
  <2> QED BY <2>3, <2>4
<1> QED BY <1>7, <1>8, <1>9, <1>10, <1>11 DEF Facts

\* What the upsert does to the registry, and to the history of its cycle.
LEMMA UpsertFacts ==
  ASSUME GInv, NEW j \in Jobs, Upsert(j)
  PROVE  Facts'
<1>1. /\ JobTypes /\ DBTypes /\ Facts /\ pc[j] = "upsert"
      /\ token[j] \in Txs /\ at[j] \in Cycles
      /\ UNCHANGED <<cycle, mintOf, gaps>>
  BY TypesSplit DEF GInv, IInv, Upsert, JobsOK, JobOK, Holding, Recording,
                    JobTypes
<1>2. /\ \/ pc'[j] = "reserve" \/ pc'[j] = "idle"
      /\ at'[j] = None
      /\ \A k \in Jobs \ {j} :
           /\ pc'[k] = pc[k] /\ at'[k] = at[k] /\ snap'[k] = snap[k]
           /\ token'[k] = token[k]
  <2>1. CASE Stop(j)
    BY <1>1, <2>1, MovesOne DEF Stop
  <2>2. CASE op[j] = "request" /\ Resume(j)
    BY <1>1, <2>2, MovesOne DEF Resume
  <2>3. CASE op[j] # "request" /\ Resume(j)
    BY <1>1, <2>3, MovesOne DEF Resume, Stop
  <2> QED BY <2>1, <2>2, <2>3 DEF Upsert
<1>3. /\ spoiled \subseteq spoiled'
      /\ (\E t \in Txs : registry'[t] = at[j]) \/ at[j] \in spoiled'
      /\ \A d \in Cycles \ {at[j]} :
           /\ d \in spoiled' => d \in spoiled
           /\ (\E t \in Txs : registry[t] = d) =>
                (\E t \in Txs : registry'[t] = d) \/ at[j] = d
  <2>1. CASE \A t \in Txs \ {token[j]} : registry[t] = None
    <3>1. /\ registry' = [registry EXCEPT ![token[j]] = at[j]]
          /\ UNCHANGED spoiled
      BY <2>1 DEF Upsert
    <3>2. registry'[token[j]] = at[j] /\ registry[token[j]] \in {None, at[j]}
      <4>1. registry'[token[j]] = at[j]
        BY <1>1, <3>1 DEF DBTypes
      <4>2. registry[token[j]] # None => registry[token[j]] = mintOf[token[j]]
        BY <1>1 DEF GInv, IInv, RegistryTruthful
      <4>3. mintOf[token[j]] = at[j]
        BY <1>1, Numbers DEF GInv, IInv, JobsOK, JobOK, For
      <4> QED BY <4>1, <4>2, <4>3
    <3> QED BY <1>1, <2>1, <3>1, <3>2, Numbers
  <2>2. CASE ~(\A t \in Txs \ {token[j]} : registry[t] = None)
    BY <1>1, <2>2 DEF Upsert
  <2> QED BY <2>1, <2>2
<1>4. PlacesOK'
  <2> SUFFICES ASSUME NEW k \in Jobs
               PROVE  Place(pc[k], at[k], snap[k], token[k])'
    BY DEF PlacesOK
  <2>1. CASE k = j
    BY <1>2, <2>1 DEF Place
  <2>2. CASE k # j
    BY <1>1, <1>2, <1>3, <2>2 DEF Facts, PlacesOK, Place, Mints
  <2> QED BY <2>1, <2>2
<1>5. OneMinter'
  <2> SUFFICES ASSUME NEW k \in Jobs, NEW l \in Jobs, k # l,
                      pc'[k] \in Minting, pc'[l] \in Minting
               PROVE  at'[k] # at'[l]
    BY DEF OneMinter
  <2> QED BY <1>1, <1>2 DEF Facts, OneMinter, Minting, InTry, Locked
<1>6. StatusOK' /\ OneOpenRow'
  BY <1>1, <1>3 DEF Facts, StatusOK, OneOpenRow, Mints
<1>7. Budget'
  <2> SUFFICES ASSUME NEW d \in Cycles PROVE BudgetOK(d)'
    BY DEF Budget
  <2>1. At({"send"}, d)' <=> At({"send"}, d)
    BY <1>1, <1>2 DEF At
  <2>2. Mints(d)' = Mints(d)
    BY <1>1 DEF Mints
  <2>3. Sends(d)' = Sends(d) /\ BudgetOK(d)
    BY <1>1, <2>1, <2>2 DEF Sends, Due, Facts, Budget
  <2>4. CASE d = at[j]
    BY <1>1, <1>3, <2>3, <2>4 DEF BudgetOK, Rescued
  <2>5. CASE d # at[j]
    <3>1. Rescued(d) => Rescued(d)'
      BY <1>1, <1>2, <1>3, <2>5 DEF Rescued, At
    <3> QED BY <1>1, <1>3, <2>3, <2>5, <3>1 DEF BudgetOK
  <2> QED BY <2>4, <2>5
<1> QED BY <1>4, <1>5, <1>6, <1>7 DEF Facts

LEMMA BroadcastFacts ==
  ASSUME GInv, NEW j \in Jobs, Broadcast(j)
  PROVE  Facts'
<1>1. PICK t \in Txs :
        /\ tx[t] = "unsent"
        /\ mintOf' = [mintOf EXCEPT ![t] = at[j]]
        /\ Hold(j, op[j], "hook", at[j], Row("none"), 0, t)
  BY DEF Broadcast
<1>2. /\ JobTypes /\ ChainTypes /\ Facts /\ pc[j] \in {"mint", "send"}
      /\ at[j] \in Cycles /\ mintOf[t] = None /\ gaps \in Nat
      /\ UNCHANGED <<cycle, registry, spoiled, gaps>>
  BY <1>1, TypesSplit
     DEF GInv, IInv, Broadcast, JobsOK, JobOK, UnsentOK, HistTypes, db
<1>3. /\ pc'[j] = "hook" /\ at'[j] = at[j]
      /\ \A k \in Jobs \ {j} :
           /\ pc'[k] = pc[k] /\ at'[k] = at[k] /\ snap'[k] = snap[k]
           /\ token'[k] = token[k]
  BY <1>1, <1>2, MovesOne
<1>4. /\ t \notin Mints(at[j])
      /\ \A d : d = at[j] => Mints(d)' = Mints(d) \cup {t}
      /\ \A d \in Cycles \ {at[j]} : Mints(d)' = Mints(d)
  BY <1>1, <1>2, Numbers DEF Mints, ChainTypes
<1>5. /\ cycle[at[j]].status \notin {"none", "deposit_verified"}
      /\ pc[j] = "mint" /\ at[j] \notin spoiled =>
           cycle[at[j]].status = "minting"
      /\ pc[j] = "mint" => Mints(at[j]) = {}
      /\ \A k \in Jobs \ {j} : at[k] = at[j] => pc[k] \notin Minting
  <2>1. Place(pc[j], at[j], snap[j], token[j])
    BY <1>2 DEF Facts, PlacesOK
  <2>2. \A k \in Jobs \ {j} : at[k] = at[j] => pc[k] \notin Minting
    BY <1>2 DEF Facts, OneMinter, Minting, InTry, Locked
  <2> QED BY <1>2, <2>1, <2>2, Numbers DEF Place
<1>6. PlacesOK'
  <2> SUFFICES ASSUME NEW k \in Jobs
               PROVE  Place(pc[k], at[k], snap[k], token[k])'
    BY DEF PlacesOK
  <2>1. CASE k = j
    BY <1>2, <1>3, <1>5, <2>1 DEF Place
  <2>2. CASE k # j
    <3>1. Place(pc[k], at[k], snap[k], token[k])
      BY <1>2 DEF Facts, PlacesOK
    <3>2. ASSUME NEW d, d = at[k], pc[k] \in {"begin", "save_begin", "mint"}
          PROVE  Mints(d)' = {}
      <4>1. d # at[j] /\ d \in Cycles
        BY <1>5, <2>2, <3>2
           DEF Minting, InTry, GInv, IInv, JobsOK, JobOK
      <4> QED BY <1>4, <3>1, <3>2, <4>1 DEF Place
    <3> QED BY <1>2, <1>3, <2>2, <3>1, <3>2 DEF Place, Mints
  <2> QED BY <2>1, <2>2
<1>7. OneMinter'
  <2> SUFFICES ASSUME NEW k \in Jobs, NEW l \in Jobs, k # l,
                      pc'[k] \in Minting, pc'[l] \in Minting
               PROVE  at'[k] # at'[l]
    BY DEF OneMinter
  <2> QED BY <1>2, <1>3, <1>5 DEF Facts, OneMinter
<1>8. StatusOK' /\ OneOpenRow'
  <2>1. OneOpenRow'
    BY <1>2 DEF Facts, OneOpenRow
  <2>2. ASSUME NEW d \in Cycles,
               cycle'[d].status \in {"none", "deposit_verified"}
        PROVE  Mints(d)' = {}
    <3>1. d # at[j]
      BY <1>2, <1>5, <2>2
    <3> QED BY <1>2, <1>4, <2>2, <3>1 DEF Facts, StatusOK
  <2>3. \A d \in Cycles : cycle'[d].status = "cancelled" => d \in spoiled'
    BY <1>2 DEF Facts, StatusOK
  <2> QED BY <2>1, <2>2, <2>3 DEF StatusOK
<1>9. Budget'
  <2> SUFFICES ASSUME NEW d \in Cycles PROVE BudgetOK(d)'
    BY DEF Budget
  <2>1. CASE d = at[j]
    <3>1. Cardinality(Mints(d)') = Cardinality(Mints(d)) + 1
      <4>1. Mints(d)' = Mints(d) \cup {t} /\ t \notin Mints(d)
        BY <1>4, <2>1
      <4> QED BY <4>1, MintsFinite, FS_AddElement
    <3>2. ~At({"send"}, d)' /\ At({"hook"}, d)'
      BY <1>3, <1>5, <2>1 DEF At, Minting, InTry, Locked
    <3>3. Sends(d)' = Cardinality(Mints(d)) + 1
      BY <3>1, <3>2, MintsFinite DEF Sends, Due
    <3>4. BudgetOK(d)
      BY <1>2 DEF Facts, Budget
    <3>5. CASE pc[j] = "mint"
      <4>1. Cardinality(Mints(d)) = 0
        BY <1>5, <2>1, <3>5, FS_EmptySet
      <4>2. d \notin spoiled => Rescued(d)'
        BY <1>2, <1>3, <1>5, <2>1, <3>5 DEF Rescued, At
      <4> QED BY <1>2, <3>3, <4>1, <4>2 DEF BudgetOK
    <3>6. CASE pc[j] = "send"
      <4>1. Sends(d) = Sends(d)'
        BY <2>1, <3>3, <3>6 DEF Sends, Due, At
      <4>2. Rescued(d) => Rescued(d)'
        BY <1>2, <1>3, <2>1, <3>6 DEF Rescued, At
      <4> QED BY <1>2, <3>4, <4>1, <4>2 DEF BudgetOK
    <3> QED BY <1>2, <3>5, <3>6
  <2>2. CASE d # at[j]
    <3>1. At({"send"}, d)' <=> At({"send"}, d)
      BY <1>3, <2>2 DEF At
    <3>2. Sends(d)' = Sends(d) /\ BudgetOK(d)
      BY <1>2, <1>4, <2>2, <3>1 DEF Sends, Due, Facts, Budget
    <3>3. Rescued(d) => Rescued(d)'
      BY <1>2, <1>3, <2>2 DEF Rescued, At
    <3> QED BY <1>2, <3>2, <3>3 DEF BudgetOK
  <2> QED BY <2>1, <2>2
<1> QED BY <1>6, <1>7, <1>8, <1>9 DEF Facts

\* A rate-limited wait leaves its transaction and is about to send anew.
LEMMA RateLimitedFacts ==
  ASSUME GInv, NEW j \in Jobs, RateLimited(j)
  PROVE  Facts'
<1>1. /\ JobTypes /\ Facts /\ pc[j] = "wait" /\ gaps \in Nat
      /\ gaps' = gaps + 1 /\ at[j] \in Cycles
      /\ UNCHANGED <<cycle, registry, mintOf, spoiled>>
      /\ token[j] \in Txs /\ mintOf[token[j]] = at[j]
  BY TypesSplit DEF GInv, IInv, RateLimited, JobsOK, JobOK, HistTypes, db,
                    Holding, JobTypes, For
<1>2. /\ pc'[j] = "send" /\ at'[j] = at[j]
      /\ \A k \in Jobs \ {j} :
           /\ pc'[k] = pc[k] /\ at'[k] = at[k] /\ snap'[k] = snap[k]
           /\ token'[k] = token[k]
  BY <1>1, MovesOne DEF RateLimited
<1>3. \A k \in Jobs \ {j} : at[k] = at[j] => pc[k] \notin Minting
  BY <1>1 DEF Facts, OneMinter, Minting, InTry, Locked
<1>4. PlacesOK'
  <2> SUFFICES ASSUME NEW k \in Jobs
               PROVE  Place(pc[k], at[k], snap[k], token[k])'
    BY DEF PlacesOK
  <2>1. CASE k = j
    <3>1. cycle[at[j]].status \notin {"none", "deposit_verified"}
      BY <1>1 DEF Facts, StatusOK, Mints
    <3> QED BY <1>1, <1>2, <2>1, <3>1 DEF Place
  <2>2. CASE k # j
    BY <1>1, <1>2, <2>2 DEF Facts, PlacesOK, Place, Mints
  <2> QED BY <2>1, <2>2
<1>5. OneMinter'
  <2> SUFFICES ASSUME NEW k \in Jobs, NEW l \in Jobs, k # l,
                      pc'[k] \in Minting, pc'[l] \in Minting
               PROVE  at'[k] # at'[l]
    BY DEF OneMinter
  <2> QED BY <1>1, <1>2, <1>3 DEF Facts, OneMinter
<1>6. StatusOK' /\ OneOpenRow'
  BY <1>1 DEF Facts, StatusOK, OneOpenRow, Mints
<1>7. Budget'
  <2> SUFFICES ASSUME NEW d \in Cycles PROVE BudgetOK(d)'
    BY DEF Budget
  <2>1. Mints(d)' = Mints(d) /\ BudgetOK(d)
    BY <1>1 DEF Mints, Facts, Budget
  <2>2. CASE d = at[j]
    <3>1. ~At({"send"}, d) /\ At({"send"}, d)'
      BY <1>1, <1>2, <1>3, <2>2 DEF At, Minting, InTry, Locked
    <3>2. Sends(d)' = Sends(d) + 1 /\ Sends(d) \in Nat
      BY <2>1, <3>1, MintsFinite DEF Sends, Due
    <3>3. Rescued(d) => Rescued(d)'
      BY <1>1, <1>2, <2>2 DEF Rescued, At
    <3> QED BY <1>1, <2>1, <3>2, <3>3 DEF BudgetOK
  <2>3. CASE d # at[j]
    <3>1. At({"send"}, d)' <=> At({"send"}, d)
      BY <1>2, <2>3 DEF At
    <3>2. Sends(d)' = Sends(d) /\ Sends(d) \in Nat
      BY <2>1, <3>1, SendsType DEF Sends, Due
    <3> QED BY <1>1, <2>1, <3>2 DEF BudgetOK
  <2> QED BY <2>2, <2>3
<1> QED BY <1>4, <1>5, <1>6, <1>7 DEF Facts

\* A failure ends the handlers of the jobs S, or sends them to cancel: when
\* one of them held a token on no record, the failure is a gap.
LEMMA CutFacts ==
  ASSUME GInv, NEW S \in SUBSET Jobs,
         \A k \in S : /\ pc'[k] \in {"idle", "cancel"}
                      /\ at'[k] \in {None, at[k]},
         \A k \in Jobs \ S :
           /\ pc'[k] = pc[k] /\ at'[k] = at[k] /\ snap'[k] = snap[k]
           /\ token'[k] = token[k],
         gaps' = gaps + Gap(S),
         UNCHANGED <<cycle, registry, mintOf, spoiled>>
  PROVE  Facts'
<1>1. Facts /\ gaps \in Nat /\ gaps' \in {gaps, gaps + 1}
  BY TypesSplit DEF GInv, IInv, HistTypes, Gap
<1>2. PlacesOK'
  <2> SUFFICES ASSUME NEW k \in Jobs
               PROVE  Place(pc[k], at[k], snap[k], token[k])'
    BY DEF PlacesOK
  <2>1. CASE k \in S
    BY <1>1, <2>1 DEF Facts, PlacesOK, Place
  <2>2. CASE k \notin S
    BY <1>1, <2>2 DEF Facts, PlacesOK, Place, Mints
  <2> QED BY <2>1, <2>2
<1>3. OneMinter'
  <2> SUFFICES ASSUME NEW k \in Jobs, NEW l \in Jobs, k # l,
                      pc'[k] \in Minting, pc'[l] \in Minting
               PROVE  at'[k] # at'[l]
    BY DEF OneMinter
  <2>1. k \notin S /\ l \notin S
    BY DEF Minting, InTry, Locked
  <2> QED BY <1>1, <2>1 DEF Facts, OneMinter
<1>4. StatusOK' /\ OneOpenRow'
  BY <1>1 DEF Facts, StatusOK, OneOpenRow, Mints
<1>5. Budget'
  <2> SUFFICES ASSUME NEW d \in Cycles PROVE BudgetOK(d)'
    BY DEF Budget
  <2>1. Mints(d)' = Mints(d) /\ BudgetOK(d)
    BY <1>1 DEF Mints, Facts, Budget
  <2>2. At({"send"}, d)' => At({"send"}, d)
    BY DEF At
  <2>3. /\ Sends(d) \in Nat /\ Sends(d)' \in Nat /\ Sends(d)' <= Sends(d)
        /\ (At({"send"}, d) /\ ~At({"send"}, d)') => Sends(d)' < Sends(d)
    BY <2>1, <2>2, MintsFinite DEF Sends, Due
  <2>4. CASE gaps' = gaps + 1
    <3>1. Sends(d) <= gaps + 1
      BY <2>1 DEF BudgetOK
    <3>2. Sends(d)' <= gaps' /\ gaps' \in Nat
      BY <1>1, <2>3, <2>4, <3>1
    <3> QED BY <2>3, <3>2 DEF BudgetOK
  <2>5. CASE gaps' = gaps
    <3>1. \A k \in S : pc[k] \notin {"hook", "save_hook", "upsert"}
      BY <1>1, <2>5 DEF Gap
    <3>2. CASE At({"send"}, d) /\ ~At({"send"}, d)'
      BY <1>1, <2>1, <2>3, <2>5, <3>2 DEF BudgetOK
    <3>3. CASE At({"send"}, d) => At({"send"}, d)'
      <4>1. At({"upsert"}, d) => At({"upsert"}, d)'
        BY <3>1 DEF At
      <4>2. At({"send", "hook", "save_hook"}, d) =>
              At({"send", "hook", "save_hook"}, d)'
        BY <3>1, <3>3 DEF At
      <4>3. Rescued(d) => Rescued(d)'
        BY <4>1, <4>2 DEF Rescued
      <4> QED BY <1>1, <2>1, <2>3, <2>5, <4>3 DEF BudgetOK
    <3> QED BY <3>2, <3>3
  <2> QED BY <1>1, <2>4, <2>5
<1> QED BY <1>2, <1>3, <1>4, <1>5 DEF Facts

LEMMA FailFacts ==
  ASSUME GInv, NEW j \in Jobs, Fail(j)
  PROVE  Facts'
<1>1. /\ JobTypes /\ gaps' = gaps + Gap({j}) /\ Throw(j)
      /\ UNCHANGED <<cycle, registry, mintOf, spoiled>>
  BY TypesSplit DEF GInv, IInv, Fail, db
<1>2. /\ pc'[j] \in {"idle", "cancel"} /\ at'[j] \in {None, at[j]}
      /\ \A k \in Jobs \ {j} :
           /\ pc'[k] = pc[k] /\ at'[k] = at[k] /\ snap'[k] = snap[k]
           /\ token'[k] = token[k]
  <2>1. CASE GoTo(j, "cancel")
    BY <1>1, <2>1, MovesOne DEF GoTo
  <2>2. CASE Stop(j)
    BY <1>1, <2>2, MovesOne DEF Stop
  <2> QED BY <1>1, <2>1, <2>2 DEF Throw
<1> QED BY <1>1, <1>2, CutFacts

LEMMA CrashFacts ==
  ASSUME GInv, Crash
  PROVE  Facts'
<1>1. /\ gaps' = gaps + Gap(Jobs)
      /\ UNCHANGED <<cycle, registry, mintOf, spoiled>>
      /\ \A k \in Jobs : pc'[k] = "idle" /\ at'[k] = None
  BY DEF Crash, db
<1> QED BY <1>1, CutFacts

\* Nothing the facts are about changes: the chain mines, and time passes.
LEMMA UntouchedFacts ==
  ASSUME GInv,
         UNCHANGED <<cycle, registry, pc, at, snap, token, mintOf, spoiled, gaps>>
  PROVE  Facts'
<1>1. \A d : Mints(d)' = Mints(d)
  BY DEF Mints
<1>2. \A P, d : At(P, d)' <=> At(P, d)
  BY DEF At
<1>3. \A d : Sends(d)' = Sends(d)
  BY <1>1, <1>2 DEF Sends, Due
<1>4. \A d \in Cycles : BudgetOK(d) => BudgetOK(d)'
  BY <1>2, <1>3 DEF BudgetOK, Rescued
<1> QED BY <1>1, <1>4 DEF GInv, Facts, PlacesOK, Place, OneMinter, StatusOK,
                          OneOpenRow, Budget

-----------------------------------------------------------------------------
LEMMA GhostInit == Init => GInv
<1> SUFFICES ASSUME Init PROVE GInv
  OBVIOUS
<1>1. \A d \in Cycles : Mints(d) = {} /\ ~At({"send"}, d)
  BY Numbers DEF Init, Mints, At
<1>2. \A d \in Cycles : Sends(d) = 0
  BY <1>1, FS_EmptySet DEF Sends, Due
<1>3. Budget
  BY <1>2 DEF Init, Budget, BudgetOK
<1>4. StatusOK /\ OneOpenRow
  BY <1>1 DEF Init, StatusOK, OneOpenRow, Row, Open
<1>5. PlacesOK /\ OneMinter
  BY DEF Init, PlacesOK, Place, OneMinter, Minting, InTry, Locked
<1> QED BY <1>3, <1>4, <1>5, InitOK DEF GInv, Facts

LEMMA GhostStep == GInv /\ [Next]_vars => GInv'
<1> SUFFICES ASSUME GInv, [Next]_vars PROVE GInv'
  OBVIOUS
<1> SUFFICES Facts'
  BY StepOK DEF GInv
<1>1. CASE UNCHANGED vars
  BY <1>1, UntouchedFacts DEF vars, db, jobs, hist
<1>2. ASSUME NEW j \in Slots, NEW o \in {"request", "check"}, Request(j, o)
      PROVE  Facts'
  BY <1>2, RequestFacts DEF Jobs
<1>3. CASE RecoverPass
  <2>1. PICK c \in Cycles :
          cycle[c].status = "minting" /\ TakeRow(Cron, "recover", c)
    BY <1>3 DEF RecoverPass, Listed
  <2>2. UNCHANGED <<cycle, registry, mintOf, spoiled, gaps>>
        /\ pc[Cron] = "idle" /\ Cron \in Jobs
    BY <1>3, QuietVars DEF RecoverPass, Jobs
  <2> QED BY <2>1, <2>2, TakeRowFacts
<1>4. ASSUME NEW j \in Jobs, Step(j)
      PROVE  Facts'
  BY <1>4, HealOneFacts, ReserveFacts, BeginFacts, NoteFacts, CancelFacts,
     RecordFacts, SaveRowFacts, SaveRefusedFacts, UpsertFacts, BroadcastFacts,
     WaitFacts DEF Step
<1>5. ASSUME NEW j \in Jobs, RateLimited(j) \/ Fail(j)
      PROVE  Facts'
  BY <1>5, RateLimitedFacts, FailFacts
<1>6. CASE Crash
  BY <1>6, CrashFacts
<1>7. ASSUME NEW t \in Txs, Mine(t)
      PROVE  Facts'
  BY <1>7, UntouchedFacts DEF Mine, db, jobs, hist
<1>8. ASSUME NEW c \in Cycles, Age(c)
      PROVE  Facts'
  BY <1>8, UntouchedFacts DEF Age, hist
<1> QED BY <1>1, <1>2, <1>3, <1>4, <1>5, <1>6, <1>7, <1>8 DEF Next

LEMMA GhostInvariance == Spec => []GInv
BY GhostInit, GhostStep, PTL DEF Spec

\* A ghost whose cycle nobody cancelled was sent for the one cycle open.
LEMMA GhostCycle ==
  ASSUME GInv, NEW t \in Txs, Ghost(t), mintOf[t] \notin spoiled
  PROVE  mintOf[t] \in Cycles /\ cycle[mintOf[t]].status \in Open
<1>1. /\ tx[t] = "mined" /\ mintOf[t] \in Cycles \cup {None}
      /\ DBTypes
  BY TypesSplit DEF Ghost, GInv, IInv, ChainTypes
<1>2. mintOf[t] \in Cycles
  BY <1>1 DEF GInv, IInv, UnsentOK
<1>3. t \in Mints(mintOf[t]) /\ cycle[mintOf[t]].status \in Statuses
  BY <1>1, <1>2 DEF Mints, DBTypes, Rows
<1> QED BY <1>2, <1>3 DEF GInv, Facts, StatusOK, Statuses, Open

\* What keeps a transaction of cycle c keeps it from being a ghost.
LEMMA KeptToken ==
  ASSUME GInv, NEW c \in Cycles, Rescued(c), ~At({"send"}, c)
  PROVE  \E t \in Mints(c) : ~Ghost(t)
<1>1. c # None
  BY Numbers
<1>2. ASSUME NEW t \in Txs, registry[t] = c
      PROVE  t \in Mints(c) /\ ~Ghost(t)
  BY <1>1, <1>2 DEF GInv, IInv, RegistryTruthful, Mints, Ghost
<1>3. ASSUME NEW j \in Jobs, pc[j] \in {"hook", "save_hook", "upsert"}, at[j] = c
      PROVE  token[j] \in Mints(c) /\ ~Ghost(token[j])
  BY <1>3, TypesSplit
     DEF GInv, IInv, JobsOK, JobOK, JobTypes, Holding, Recording, For, Mints,
         Ghost
<1>4. ASSUME cycle[c].status = "minting", cycle[c].txHash # None
      PROVE  cycle[c].txHash \in Mints(c) /\ ~Ghost(cycle[c].txHash)
  <2>1. cycle[c] \in Rows /\ Names(cycle[c], c)
    BY TypesSplit DEF GInv, IInv, DBTypes, CyclesOK
  <2> QED BY <1>4, <2>1 DEF Names, For, Rows, Mints, Ghost
<1> QED BY <1>2, <1>3, <1>4 DEF Rescued, At

\* A failure makes a ghost only in the two gaps, or where a rate-limited wait
\* sends again, and one each at most, however the mint, the interactive check
\* and the cron interleave (beginMintAttempt, noteMintAttemptTx, healOne).
THEOREM GhostsAreAccounted == Spec => []GhostsAccounted
<1>1. ASSUME GInv PROVE GhostsAccounted
  <2> DEFINE G == {t \in Txs : Ghost(t) /\ mintOf[t] \notin spoiled}
  <2>1. gaps \in Nat
    BY <1>1, TypesSplit DEF GInv, IInv, HistTypes
  <2>2. ASSUME NEW g \in G PROVE Cardinality(G) <= gaps
    <3> DEFINE c == mintOf[g]
    <3>1. c \in Cycles /\ cycle[c].status \in Open /\ c \notin spoiled
      BY <1>1, <2>2, GhostCycle
    <3>2. \A t \in G : mintOf[t] = c
      BY <1>1, <3>1, GhostCycle DEF GInv, Facts, OneOpenRow
    <3>3. G \subseteq Mints(c)
      BY <3>2 DEF Mints
    <3>4. IsFiniteSet(Mints(c)) /\ Cardinality(Mints(c)) \in Nat
      BY MintsFinite
    <3>5. BudgetOK(c)
      BY <1>1, <3>1 DEF GInv, Facts, Budget
    <3>6. Cardinality(G) \in Nat /\ Cardinality(G) <= Cardinality(Mints(c))
      BY <3>3, <3>4, FS_Subset, FS_CardinalityType
    <3>7. CASE Cardinality(Mints(c)) <= gaps
      BY <2>1, <3>4, <3>6, <3>7
    <3>8. CASE ~(Cardinality(Mints(c)) <= gaps)
      <4>1. Sends(c) = gaps + 1 /\ Cardinality(Mints(c)) = gaps + 1 /\ Due(c) = 0
        BY <2>1, <3>4, <3>5, <3>8, SendsType DEF BudgetOK
      <4>2. Rescued(c) /\ ~At({"send"}, c)
        BY <3>1, <3>5, <4>1 DEF BudgetOK, Due
      <4>3. PICK w \in Mints(c) : ~Ghost(w)
        BY <1>1, <3>1, <4>2, KeptToken
      <4>4. G \subseteq Mints(c) \ {w}
        BY <3>3, <4>3
      <4>5. IsFiniteSet(Mints(c) \ {w})
            /\ Cardinality(Mints(c) \ {w}) = gaps
        <5>1. /\ IsFiniteSet(Mints(c) \ {w})
              /\ Cardinality(Mints(c) \ {w}) = Cardinality(Mints(c)) - 1
          BY <3>4, <4>3, FS_RemoveElement
        <5>2. Cardinality(Mints(c)) - 1 = gaps
          BY <2>1, <4>1
        <5> QED BY <5>1, <5>2
      <4> HIDE DEF G
      <4> QED BY <4>4, <4>5, FS_Subset
    <3> QED BY <3>7, <3>8
  <2> HIDE DEF G
  <2>3. Cardinality(G) <= gaps
    <3>1. CASE G = {}
      BY <2>1, <3>1, FS_EmptySet
    <3> QED BY <2>2, <3>1
  <2> QED BY <2>3 DEF GhostsAccounted, G
<1> QED BY <1>1, GhostInvariance, PTL
=============================================================================
