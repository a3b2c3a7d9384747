-------------------------- MODULE SealedBox_proofs --------------------------
(***************************************************************************)
(* A request id mints once, and a minted row is true, for any number of    *)
(* attempts.                                                               *)
(***************************************************************************)
EXTENDS SealedBox, TLAPS

\* What a row says of the chain holds of tx.
Sound(row, tx) ==
  /\ row.hash = 0 => row.token = 0
  /\ row.hash # 0 => row.hash \in DOMAIN tx /\ row.status \in {"minting", "minted"}
  /\ row.token # 0 => row.token = row.hash /\ tx[row.hash] = "mined"

Busy(a) == attempt[a].pc \in InTryBlock \cup {"fail"}

\* A copy is sound, and as far as its place says.
Copy(pc, row, tx, reg) ==
  /\ row.status # "minted" /\ Sound(row, tx)
  /\ pc \in {"photo", "minting", "send"} => row.hash = 0
  /\ pc = "send" => row.status = "minting"
  /\ pc \in {"resend", "submitted", "wait"} => row.hash # 0 /\ row.token = 0
  /\ pc \in {"token", "registry", "minted", "rewrite", "resave"} => row.token # 0
  /\ pc \in {"minted", "resave"} => row.token \in reg

Copies == \A a \in Attempts : Copy(attempt[a].pc, attempt[a].row, boxTx, registered)

\* What the row says is sound, and more so when it says "minted".
RowKept(row, tx, reg) ==
  /\ Sound(row, tx)
  /\ row.status = "minted" => row.token # 0 /\ row.token \in reg

Stored == RowKept(boxRow, boxTx, registered)

\* Without an overlap, one attempt is past the claim at a time.
Alone ==
  ~overlapped => \A a, b \in Attempts : Busy(a) /\ Busy(b) => a = b

\* Without an overlap, a hash lost or a retry, a transaction is known to the row
\* or to the attempt that sent it, and nobody sets out to send another.
Known ==
  ~overlapped /\ ~unsaved /\ ~resent =>
    /\ \A a \in Attempts : Busy(a) /\ attempt[a].row.hash = 0 => Len(boxTx) = 0
    /\ Len(boxTx) # 0 =>
         /\ Len(boxTx) = 1
         /\ \/ boxRow.hash = 1
            \/ \E a \in Attempts : Busy(a) /\ attempt[a].row.hash = 1

\* Only the retry of a throttled wait leads to another broadcast.
Unresent == ~resent => \A a \in Attempts : attempt[a].pc # "resend"

BoxInv == BoxTypeOK /\ Copies /\ Stored /\ Alone /\ Unresent /\ Known
-----------------------------------------------------------------------------
(* Types.                                                                  *)

\* The places, one by one.
LEMMA PlaceNames ==
  Places = {"idle", "claim", "rewrite", "resave", "fail", "photo", "minting", "send",
            "resend", "submitted", "wait", "token", "registry", "minted"}
BY DEF Places, InTryBlock

\* The empty row is a row, and a row stays one under the changes made to it.
LEMMA RowTypes ==
  /\ NoRow \in BoxRows /\ [NoRow EXCEPT !.status = "pending"] \in BoxRows
  /\ \A r \in BoxRows, n \in Nat :
       /\ [r EXCEPT !.hash = n] \in BoxRows /\ [r EXCEPT !.token = n] \in BoxRows
       /\ [r EXCEPT !.status = "minting"] \in BoxRows
       /\ [r EXCEPT !.status = "minted"] \in BoxRows
       /\ [r EXCEPT !.status = "failed"] \in BoxRows
       /\ r.hash \in Nat /\ r.token \in Nat
BY DEF BoxRows, NoRow

\* A move of an attempt, with or without a save of its copy, keeps the types.
LEMMA MoveTyped ==
  ASSUME BoxTypeOK, NEW a \in Attempts, NEW pc \in Places, NEW row \in BoxRows
  PROVE  /\ Moves(a, pc, row) => attempt' \in [Attempts -> [pc : Places, row : BoxRows]]
         /\ attempt' = [attempt EXCEPT ![a] = Away]
              => attempt' \in [Attempts -> [pc : Places, row : BoxRows]]
         /\ Saves(a, pc, row)
              => /\ attempt' \in [Attempts -> [pc : Places, row : BoxRows]]
                 /\ boxRow' \in BoxRows
<1>1. [pc |-> pc, row |-> row] \in [pc : Places, row : BoxRows]
  OBVIOUS
<1>2. Away \in [pc : Places, row : BoxRows]
  BY RowTypes, PlaceNames DEF Away
<1> QED
  BY <1>1, <1>2 DEF BoxTypeOK, Moves, Saves

\* The start is well typed: no row, no transaction, no attempt.
LEMMA BoxTypeInit == BoxInit => BoxTypeOK
<1> SUFFICES ASSUME BoxInit PROVE BoxTypeOK
  OBVIOUS
<1>1. Away \in [pc : Places, row : BoxRows]
  BY RowTypes, PlaceNames DEF Away
<1>2. boxTx \in Seq({"sent", "mined", "reverted"})
  BY DEF BoxInit
<1> QED
  BY <1>1, <1>2, RowTypes DEF BoxInit, BoxTypeOK

\* Every step of an attempt, of the chain or of the process keeps the types.
LEMMA BoxTypeStep == BoxTypeOK /\ [BoxNext]_boxVars => BoxTypeOK'
<1> SUFFICES ASSUME BoxTypeOK, [BoxNext]_boxVars PROVE BoxTypeOK'
  OBVIOUS
<1> USE DEF boxHistory
<1>0. ASSUME NEW a \in Attempts
      PROVE  attempt[a] \in [pc : Places, row : BoxRows]
  BY DEF BoxTypeOK
<1>1. ASSUME NEW a \in Attempts, BeginAttempt(a) PROVE BoxTypeOK'
  <2>1. attempt' \in [Attempts -> [pc : Places, row : BoxRows]]
    BY <1>1, MoveTyped, RowTypes, PlaceNames DEF BeginAttempt
  <2> QED
    BY <1>1, <2>1 DEF BeginAttempt, BoxTypeOK
<1>2. ASSUME NEW a \in Attempts, ClaimRow(a) PROVE BoxTypeOK'
  BY <1>2, <1>0, MoveTyped, RowTypes, PlaceNames DEF ClaimRow, BoxTypeOK
<1>3. ASSUME NEW a \in Attempts, SavePhoto(a) PROVE BoxTypeOK'
  BY <1>3, <1>0, MoveTyped, RowTypes, PlaceNames DEF SavePhoto, BoxTypeOK
<1>4. ASSUME NEW a \in Attempts, SaveMinting(a) PROVE BoxTypeOK'
  BY <1>4, <1>0, MoveTyped, RowTypes, PlaceNames DEF SaveMinting, BoxTypeOK
<1>5. ASSUME NEW a \in Attempts, SendMint(a) PROVE BoxTypeOK'
  <2>1. Len(boxTx) + 1 \in Nat /\ attempt[a].row \in BoxRows
    BY <1>0 DEF BoxTypeOK
  <2>2. PICK r \in BoxRows : r = [attempt[a].row EXCEPT !.hash = Len(boxTx) + 1]
    BY <2>1, RowTypes
  <2>3. attempt' \in [Attempts -> [pc : Places, row : BoxRows]]
    BY <1>5, <2>2, MoveTyped, PlaceNames DEF SendMint
  <2> QED
    BY <1>5, <2>3 DEF SendMint, BoxTypeOK
<1>6. ASSUME NEW a \in Attempts, SaveHash(a) PROVE BoxTypeOK'
  BY <1>6, <1>0, MoveTyped, RowTypes, PlaceNames DEF SaveHash, BoxTypeOK
<1>7. ASSUME NEW a \in Attempts, AwaitReceipt(a) PROVE BoxTypeOK'
  BY <1>7, <1>0, MoveTyped, RowTypes, PlaceNames DEF AwaitReceipt, BoxTypeOK
<1>8. ASSUME NEW a \in Attempts, SaveToken(a) PROVE BoxTypeOK'
  BY <1>8, <1>0, MoveTyped, RowTypes, PlaceNames DEF SaveToken, BoxTypeOK
<1>9. ASSUME NEW a \in Attempts, WriteRegistry(a) PROVE BoxTypeOK'
  BY <1>9, <1>0, MoveTyped, RowTypes, PlaceNames DEF WriteRegistry, Written, BoxTypeOK
<1>10. ASSUME NEW a \in Attempts, SaveMinted(a) PROVE BoxTypeOK'
  BY <1>10, <1>0, MoveTyped, RowTypes, PlaceNames DEF SaveMinted, BoxTypeOK
<1>11. ASSUME NEW a \in Attempts, SaveFailed(a) PROVE BoxTypeOK'
  BY <1>11, <1>0, MoveTyped, RowTypes, PlaceNames DEF SaveFailed, FailedStatus, BoxTypeOK
<1>12. ASSUME NEW a \in Attempts, AttemptFails(a) PROVE BoxTypeOK'
  <2>1. attempt' \in [Attempts -> [pc : Places, row : BoxRows]]
    BY <1>12, <1>0, MoveTyped, RowTypes, PlaceNames DEF AttemptFails
  <2>2. unsaved' \in BOOLEAN
    BY <1>12 DEF AttemptFails, OnlyInMemory, BoxTypeOK
  <2>3. boxFaults' \in Nat
    BY <1>12 DEF AttemptFails, BoxTypeOK
  <2> QED
    BY <1>12, <2>1, <2>2, <2>3 DEF AttemptFails, BoxTypeOK
<1>13. ASSUME NEW n \in DOMAIN boxTx, Settle(n, "mined") \/ Settle(n, "reverted")
       PROVE BoxTypeOK'
  BY <1>13 DEF Settle, BoxTypeOK
<1>16. ASSUME NEW a \in Attempts, Throttled(a) PROVE BoxTypeOK'
  <2>1. attempt' \in [Attempts -> [pc : Places, row : BoxRows]]
    BY <1>16, <1>0, MoveTyped, PlaceNames DEF Throttled
  <2> QED
    BY <1>16, <2>1 DEF Throttled, BoxTypeOK
<1>14. CASE BoxRestart
  BY <1>14, RowTypes, PlaceNames DEF BoxRestart, OnlyInMemory, Away, BoxTypeOK
<1>15. CASE UNCHANGED boxVars
  BY <1>15 DEF boxVars, BoxTypeOK
<1> QED
  BY <1>1, <1>2, <1>3, <1>4, <1>5, <1>6, <1>7, <1>8, <1>9, <1>10, <1>11, <1>12,
     <1>13, <1>14, <1>15, <1>16 DEF BoxNext
-----------------------------------------------------------------------------
(* Copies and the row.                                                     *)

\* A transaction stays sent, a mined one mined, a registered token registered.
LEMMA ChainPersists ==
  ASSUME BoxTypeOK, [BoxNext]_boxVars
  PROVE  /\ \A n \in DOMAIN boxTx :
              n \in DOMAIN boxTx' /\ (boxTx[n] = "mined" => boxTx'[n] = "mined")
         /\ registered \subseteq registered'
<1>1. ASSUME NEW a \in Attempts, SendMint(a)
      PROVE  \A n \in DOMAIN boxTx : n \in DOMAIN boxTx' /\ boxTx'[n] = boxTx[n]
  BY <1>1 DEF SendMint, BoxTypeOK
<1>2. ASSUME NEW n \in DOMAIN boxTx, Settle(n, "mined") \/ Settle(n, "reverted")
      PROVE  \A i \in DOMAIN boxTx :
               i \in DOMAIN boxTx' /\ (boxTx[i] = "mined" => boxTx'[i] = "mined")
  BY <1>2 DEF Settle, BoxTypeOK
<1>3. boxTx' = boxTx
        \/ (\E a \in Attempts : SendMint(a))
        \/ (\E n \in DOMAIN boxTx : Settle(n, "mined") \/ Settle(n, "reverted"))
  BY DEF BoxNext, boxVars, BeginAttempt, ClaimRow, SavePhoto, SaveMinting, SaveHash,
         Throttled, AwaitReceipt, SaveToken, WriteRegistry, SaveMinted, SaveFailed, AttemptFails,
         BoxRestart
<1>4. registered \subseteq registered'
  BY DEF BoxNext, boxVars, BeginAttempt, ClaimRow, SavePhoto, SaveMinting, SaveHash,
         SendMint, AwaitReceipt, Throttled, SaveToken, WriteRegistry, SaveMinted, SaveFailed,
         AttemptFails, BoxRestart, Settle
<1> QED
  BY <1>1, <1>2, <1>3, <1>4

\* So what is true of a copy or of the row stays true while the chain goes on.
LEMMA TruthPersists ==
  ASSUME BoxTypeOK, [BoxNext]_boxVars, NEW row \in BoxRows, NEW pc
  PROVE  /\ Sound(row, boxTx) => Sound(row, boxTx')
         /\ Copy(pc, row, boxTx, registered) => Copy(pc, row, boxTx', registered')
         /\ RowKept(row, boxTx, registered) => RowKept(row, boxTx', registered')
BY ChainPersists DEF Sound, Copy, RowKept, BoxRows

\* The copy of an idle attempt says nothing.
LEMMA AwayIsSound == Copy("idle", NoRow, boxTx', registered') /\ Sound(NoRow, boxTx')
BY DEF Copy, Sound, NoRow

\* Every step keeps the row and the copies sound.  A save stores a sound copy,
\* a claim copies a sound row, and the hash comes before the token and the
\* token before the registry.
LEMMA CopiesStep ==
  BoxTypeOK /\ Copies /\ Stored /\ [BoxNext]_boxVars => Copies' /\ Stored'
<1> SUFFICES ASSUME BoxTypeOK, Copies, Stored, [BoxNext]_boxVars
             PROVE  Copies' /\ Stored'
  OBVIOUS
<1>0. ASSUME NEW a \in Attempts
      PROVE  /\ attempt[a] \in [pc : Places, row : BoxRows]
             /\ attempt[a].row \in BoxRows
             /\ Copy(attempt[a].pc, attempt[a].row, boxTx, registered)
  BY DEF BoxTypeOK, Copies
<1>a. ASSUME NEW a \in Attempts
      PROVE  Copy(attempt[a].pc, attempt[a].row, boxTx', registered')
  BY <1>0, TruthPersists
<1>b. RowKept(boxRow, boxTx', registered')
  BY TruthPersists DEF Stored, BoxTypeOK
<1>c. ASSUME NEW a \in Attempts,
             \A b \in Attempts \ {a} : attempt'[b] = attempt[b],
             Copy(attempt'[a].pc, attempt'[a].row, boxTx', registered')
      PROVE  Copies'
  BY <1>a, <1>c DEF Copies
<1>d. ASSUME NEW a \in Attempts, attempt' = [attempt EXCEPT ![a] = Away] PROVE Copies'
  BY <1>c, <1>d, AwayIsSound DEF Away, BoxTypeOK
<1>e. ASSUME NEW a \in Attempts, NEW pc, NEW row, Moves(a, pc, row),
             Copy(pc, row, boxTx', registered')
      PROVE  Copies'
  BY <1>c, <1>e DEF Moves, BoxTypeOK
<1>1. ASSUME NEW a \in Attempts, BeginAttempt(a) PROVE Copies' /\ Stored'
  <2>1. Copy("claim", NoRow, boxTx', registered')
    BY DEF Copy, Sound, NoRow
  <2> QED
    BY <1>1, <1>e, <1>b, <2>1 DEF BeginAttempt, Stored
<1>2. ASSUME NEW a \in Attempts, ClaimRow(a) PROVE Copies' /\ Stored'
  <2> DEFINE row == IF Fresh(boxRow) THEN [NoRow EXCEPT !.status = "pending"] ELSE boxRow
  <2>1. row \in BoxRows /\ RowKept(row, boxTx', registered')
    BY <1>b, RowTypes DEF RowKept, Sound, NoRow, BoxTypeOK
  <2>2. boxRow' = IF boxRow.status = "none" THEN row ELSE boxRow
    BY <1>2 DEF ClaimRow
  <2>3. Stored'
    BY <2>1, <2>2, <1>b DEF Stored
  <2>4. row.status # "minted" /\ row.token # 0
          => Copy("rewrite", row, boxTx', registered')
    BY <2>1 DEF RowKept, Copy
  <2>5. row.status # "minted" /\ row.token = 0 /\ ~(row.status = "minting" /\ row.hash # 0)
          => Copy("photo", row, boxTx', registered')
    BY <2>1 DEF RowKept, Copy, Sound
  <2>6. \/ attempt' = [attempt EXCEPT ![a] = Away]
        \/ row.status # "minted" /\ row.token # 0 /\ Moves(a, "rewrite", row)
        \/ row.status # "minted" /\ row.token = 0 /\ ~(row.status = "minting" /\ row.hash # 0)
             /\ Moves(a, "photo", row)
    <3> HIDE DEF row
    <3>1. row = IF Fresh(boxRow) THEN [NoRow EXCEPT !.status = "pending"] ELSE boxRow
      BY DEF row
    <3> QED
      BY <1>2, <3>1 DEF ClaimRow
  <2> HIDE DEF row
  <2> QED
    BY <2>3, <2>4, <2>5, <2>6, <1>d, <1>e
<1>3. ASSUME NEW a \in Attempts, SavePhoto(a) PROVE Copies' /\ Stored'
  <2>1. /\ Copy("minting", attempt[a].row, boxTx', registered')
        /\ RowKept(attempt[a].row, boxTx', registered')
    BY <1>3, <1>a DEF SavePhoto, Copy, RowKept
  <2> QED
    BY <1>3, <1>e, <2>1 DEF SavePhoto, Saves, Stored
<1>4. ASSUME NEW a \in Attempts, SaveMinting(a) PROVE Copies' /\ Stored'
  <2> DEFINE row == [attempt[a].row EXCEPT !.status = "minting"]
  <2>1. Copy("send", row, boxTx', registered') /\ RowKept(row, boxTx', registered')
    BY <1>4, <1>0, <1>a DEF SaveMinting, Copy, RowKept, Sound, BoxRows
  <2>2. Saves(a, "send", row)
    BY <1>4 DEF SaveMinting
  <2> HIDE DEF row
  <2> QED
    BY <1>e, <2>1, <2>2 DEF Saves, Stored
<1>5. ASSUME NEW a \in Attempts, SendMint(a) PROVE Copies' /\ Stored'
  <2> DEFINE row == [attempt[a].row EXCEPT !.hash = Len(boxTx) + 1]
  <2>1. Len(boxTx) + 1 \in DOMAIN boxTx' /\ Len(boxTx) + 1 # 0
    BY <1>5 DEF SendMint, BoxTypeOK
  <2>2. row.hash = Len(boxTx) + 1 /\ row.token = 0 /\ row.status = "minting"
    BY <1>5, <1>0 DEF SendMint, Copy, Sound, BoxRows
  <2>3. Moves(a, "submitted", row) /\ UNCHANGED boxRow
    BY <1>5 DEF SendMint
  <2> HIDE DEF row
  <2>4. Copy("submitted", row, boxTx', registered')
    BY <2>1, <2>2 DEF Copy, Sound
  <2> QED
    BY <1>e, <1>b, <2>3, <2>4 DEF Stored
<1>6. ASSUME NEW a \in Attempts, SaveHash(a) PROVE Copies' /\ Stored'
  <2>1. /\ Copy("wait", attempt[a].row, boxTx', registered')
        /\ RowKept(attempt[a].row, boxTx', registered')
    BY <1>6, <1>a DEF SaveHash, Copy, RowKept
  <2> QED
    BY <1>6, <1>e, <2>1 DEF SaveHash, Saves, Stored
<1>7. ASSUME NEW a \in Attempts, AwaitReceipt(a) PROVE Copies' /\ Stored'
  <2> DEFINE row == attempt[a].row
             new == [row EXCEPT !.token = row.hash]
  <2>1. row.hash # 0 /\ row.token = 0 /\ row.status # "minted" /\ Sound(row, boxTx')
    BY <1>7, <1>a DEF AwaitReceipt, Copy
  <2>2. boxTx' = boxTx /\ UNCHANGED boxRow
    BY <1>7 DEF AwaitReceipt
  <2>3. CASE boxTx[row.hash] = "mined" /\ Moves(a, "token", new)
    <3>1. new.hash = row.hash /\ new.token = row.hash /\ new.status = row.status
      BY <1>0 DEF BoxRows
    <3>2. Copy("token", new, boxTx', registered')
      BY <2>1, <2>2, <2>3, <3>1 DEF Copy, Sound
    <3> HIDE DEF new
    <3> QED
      BY <2>2, <2>3, <3>2, <1>b, <1>e DEF Stored
  <2>4. CASE Moves(a, "fail", row)
    <3>1. Copy("fail", row, boxTx', registered')
      BY <2>1 DEF Copy
    <3> QED
      BY <2>2, <2>4, <3>1, <1>b, <1>e DEF Stored
  <2> QED
    BY <1>7, <2>3, <2>4 DEF AwaitReceipt
<1>8. ASSUME NEW a \in Attempts, SaveToken(a) PROVE Copies' /\ Stored'
  <2>1. /\ Copy("registry", attempt[a].row, boxTx', registered')
        /\ RowKept(attempt[a].row, boxTx', registered')
    BY <1>8, <1>a DEF SaveToken, Copy, RowKept
  <2> QED
    BY <1>8, <1>e, <2>1 DEF SaveToken, Saves, Stored
<1>9. ASSUME NEW a \in Attempts, WriteRegistry(a) PROVE Copies' /\ Stored'
  <2>1. attempt[a].row.token \in registered' /\ UNCHANGED boxRow
    BY <1>9 DEF WriteRegistry, Written
  <2>2. /\ Copy("minted", attempt[a].row, boxTx', registered')
        /\ Copy("resave", attempt[a].row, boxTx', registered')
    BY <1>9, <1>a, <2>1 DEF WriteRegistry, Copy
  <2>3. Moves(a, "minted", attempt[a].row) \/ Moves(a, "resave", attempt[a].row)
    BY <1>9 DEF WriteRegistry
  <2> QED
    BY <2>1, <2>2, <2>3, <1>b, <1>e DEF Stored
<1>10. ASSUME NEW a \in Attempts, SaveMinted(a) PROVE Copies' /\ Stored'
  <2> DEFINE row == [attempt[a].row EXCEPT !.status = "minted"]
  <2>1. RowKept(row, boxTx', registered')
    BY <1>10, <1>0, <1>a DEF SaveMinted, Copy, RowKept, Sound, BoxRows
  <2>2. boxRow' = row /\ attempt' = [attempt EXCEPT ![a] = Away]
    BY <1>10 DEF SaveMinted, Saves
  <2> HIDE DEF row
  <2> QED
    BY <1>d, <2>1, <2>2 DEF Stored
<1>11. ASSUME NEW a \in Attempts, SaveFailed(a) PROVE Copies' /\ Stored'
  <2> DEFINE row == [attempt[a].row EXCEPT !.status = FailedStatus(attempt[a].row)]
  <2>1. RowKept(row, boxTx', registered')
    BY <1>11, <1>0, <1>a DEF SaveFailed, FailedStatus, Copy, RowKept, Sound, BoxRows
  <2>2. boxRow' = row /\ attempt' = [attempt EXCEPT ![a] = Away]
    BY <1>11 DEF SaveFailed, Saves
  <2> HIDE DEF row
  <2> QED
    BY <1>d, <2>1, <2>2 DEF Stored
<1>12. ASSUME NEW a \in Attempts, AttemptFails(a) PROVE Copies' /\ Stored'
  <2>1. Copy("fail", attempt[a].row, boxTx', registered')
    BY <1>a DEF Copy
  <2>2. Moves(a, "fail", attempt[a].row) \/ attempt' = [attempt EXCEPT ![a] = Away]
    BY <1>12 DEF AttemptFails
  <2>3. UNCHANGED boxRow
    BY <1>12 DEF AttemptFails
  <2> QED
    BY <2>1, <2>2, <2>3, <1>b, <1>d, <1>e DEF Stored
<1>13. ASSUME NEW n \in DOMAIN boxTx, Settle(n, "mined") \/ Settle(n, "reverted")
       PROVE Copies' /\ Stored'
  BY <1>13, <1>a, <1>b DEF Settle, Copies, Stored
<1>16. ASSUME NEW a \in Attempts, Throttled(a) PROVE Copies' /\ Stored'
  <2>1. Copy("resend", attempt[a].row, boxTx', registered') /\ UNCHANGED boxRow
    BY <1>16, <1>a DEF Throttled, Copy
  <2> QED
    BY <1>16, <2>1, <1>b, <1>e DEF Throttled, Stored
<1>14. CASE BoxRestart
  BY <1>14, <1>b, AwayIsSound DEF BoxRestart, Away, Copies, Stored
<1>15. CASE UNCHANGED boxVars
  BY <1>15, <1>a, <1>b DEF boxVars, Copies, Stored
<1> QED
  BY <1>1, <1>2, <1>3, <1>4, <1>5, <1>6, <1>7, <1>8, <1>9, <1>10, <1>11, <1>12,
     <1>13, <1>14, <1>15, <1>16 DEF BoxNext
-----------------------------------------------------------------------------
(* One attempt at a time, one transaction.                                 *)

\* An attempt becomes busy only by a claim, which notes the others it overlaps.
LEMMA AloneStep == BoxTypeOK /\ Alone /\ [BoxNext]_boxVars => Alone'
<1> SUFFICES ASSUME BoxTypeOK, Alone, [BoxNext]_boxVars, ~overlapped',
                    NEW b \in Attempts, NEW c \in Attempts, Busy(b)', Busy(c)'
             PROVE  b = c
  BY DEF Alone
<1>0. \A x, y \in Attempts : ~overlapped /\ Busy(x) /\ Busy(y) => x = y
  BY DEF Alone
<1>m. ASSUME NEW a \in Attempts, NEW pc, NEW row,
             Moves(a, pc, row) \/ attempt' = [attempt EXCEPT ![a] = Away],
             Busy(a) \/ ~Busy(a)', ~overlapped
      PROVE  b = c
  <2>1. \A x \in Attempts \ {a} : attempt'[x] = attempt[x]
    BY <1>m DEF Moves, BoxTypeOK
  <2> QED
    BY <1>m, <1>0, <2>1 DEF Busy
<1>1. ASSUME NEW a \in Attempts, ClaimRow(a) PROVE b = c
  <2>1. CASE \E row : Moves(a, "photo", row)
    <3>1. ~overlapped /\ \A x \in Attempts : ~Busy(x)
      <4>1. attempt'[a].pc = "photo"
        BY <2>1 DEF Moves, BoxTypeOK
      <4>2. attempt' # [attempt EXCEPT ![a] = Away]
        BY <4>1 DEF Away, BoxTypeOK
      <4>3. \A row : ~Moves(a, "rewrite", row)
        BY <4>1 DEF Moves, BoxTypeOK
      <4>4. overlapped' = (overlapped \/ \E x \in Attempts :
                             attempt[x].pc \in InTryBlock \cup {"fail"})
        BY <1>1, <4>2, <4>3 DEF ClaimRow
      <4> QED
        BY <4>4 DEF Busy
    <3>2. \A x \in Attempts \ {a} : attempt'[x] = attempt[x]
      BY <2>1 DEF Moves, BoxTypeOK
    <3> QED
      BY <3>1, <3>2 DEF Busy
  <2>2. CASE \E row : Moves(a, "rewrite", row)
    <3>1. ~overlapped /\ ~Busy(a)'
      BY <1>1, <2>2 DEF ClaimRow, Busy, Moves, InTryBlock, BoxTypeOK
    <3> QED
      BY <2>2, <3>1, <1>m
  <2>3. CASE attempt' = [attempt EXCEPT ![a] = Away]
    <3>1. ~overlapped /\ ~Busy(a)'
      BY <1>1, <2>3 DEF ClaimRow, Busy, Moves, Away, InTryBlock, BoxTypeOK
    <3> QED
      BY <2>3, <3>1, <1>m
  <2> QED
    BY <1>1, <2>1, <2>2, <2>3 DEF ClaimRow
<1>2. ASSUME NEW a \in Attempts, BeginAttempt(a) PROVE b = c
  <2>1. Moves(a, "claim", NoRow) /\ ~overlapped /\ ~Busy(a)'
    BY <1>2 DEF BeginAttempt, boxHistory, Busy, Moves, InTryBlock, BoxTypeOK
  <2> QED
    BY <2>1, <1>m
<1>3. ASSUME NEW a \in Attempts,
             SavePhoto(a) \/ SaveMinting(a) \/ SendMint(a) \/ SaveHash(a)
               \/ AwaitReceipt(a) \/ SaveToken(a) \/ Throttled(a)
      PROVE b = c
  <2>1. Busy(a) /\ ~overlapped
    BY <1>3 DEF SavePhoto, SaveMinting, SendMint, SaveHash, AwaitReceipt, SaveToken,
                Throttled, boxHistory, Busy, InTryBlock
  <2>2. PICK pc, row : Moves(a, pc, row)
    BY <1>3 DEF SavePhoto, SaveMinting, SendMint, SaveHash, AwaitReceipt, SaveToken, Saves,
           Throttled
  <2> QED
    BY <2>1, <2>2, <1>m
<1>4. ASSUME NEW a \in Attempts, WriteRegistry(a) PROVE b = c
  <2>1. /\ ~overlapped
        /\ Moves(a, "minted", attempt[a].row) \/ Moves(a, "resave", attempt[a].row)
        /\ Busy(a) \/ ~Busy(a)'
    BY <1>4 DEF WriteRegistry, boxHistory, Busy, Moves, InTryBlock, BoxTypeOK
  <2> QED
    BY <2>1, <1>m
<1>5. ASSUME NEW a \in Attempts, SaveMinted(a) \/ SaveFailed(a) PROVE b = c
  <2>1. /\ ~overlapped /\ attempt' = [attempt EXCEPT ![a] = Away] /\ ~Busy(a)'
    BY <1>5 DEF SaveMinted, SaveFailed, Saves, boxHistory, Busy, Away, InTryBlock, BoxTypeOK
  <2> QED
    BY <2>1, <1>m
<1>6. ASSUME NEW a \in Attempts, AttemptFails(a) PROVE b = c
  <2>1. CASE Busy(a)
    <3>1. ~overlapped /\ (Moves(a, "fail", attempt[a].row)
                           \/ attempt' = [attempt EXCEPT ![a] = Away])
      BY <1>6 DEF AttemptFails
    <3> QED
      BY <2>1, <3>1, <1>m
  <2>2. CASE ~Busy(a)
    <3>1. /\ ~overlapped /\ attempt' = [attempt EXCEPT ![a] = Away] /\ ~Busy(a)'
      BY <1>6, <2>2 DEF AttemptFails, Busy, Away, InTryBlock, BoxTypeOK
    <3> QED
      BY <3>1, <1>m
  <2> QED
    BY <2>1, <2>2
<1>7. CASE BoxRestart
  BY <1>7 DEF BoxRestart, Away, Busy, InTryBlock
<1>8. CASE UNCHANGED <<attempt, overlapped>>
  BY <1>8, <1>0 DEF Busy
<1>9. (\E n \in DOMAIN boxTx : Settle(n, "mined") \/ Settle(n, "reverted"))
        \/ UNCHANGED boxVars => UNCHANGED <<attempt, overlapped>>
  BY DEF Settle, boxVars, boxHistory
<1> QED
  BY <1>1, <1>2, <1>3, <1>4, <1>5, <1>6, <1>7, <1>8, <1>9 DEF BoxNext

\* Every action but the retry leaves its attempt elsewhere.
LEMMA UnresentStep == BoxTypeOK /\ Unresent /\ [BoxNext]_boxVars => Unresent'
<1> SUFFICES ASSUME BoxTypeOK, Unresent, [BoxNext]_boxVars, ~resent',
                    NEW b \in Attempts
             PROVE  attempt'[b].pc # "resend"
  BY DEF Unresent
<1>m. ASSUME NEW a \in Attempts, NEW pc, NEW row, ~resent, pc # "resend",
             Moves(a, pc, row) \/ attempt' = [attempt EXCEPT ![a] = Away]
      PROVE  attempt'[b].pc # "resend"
  BY <1>m DEF Moves, Away, Unresent, BoxTypeOK
<1>1. ASSUME NEW a \in Attempts,
             SavePhoto(a) \/ SaveMinting(a) \/ SaveHash(a) \/ SaveToken(a)
               \/ SaveMinted(a) \/ SaveFailed(a)
      PROVE  attempt'[b].pc # "resend"
  <2>1. /\ ~resent
        /\ \E pc \in Places \ {"resend"} : \E row :
             Moves(a, pc, row) \/ attempt' = [attempt EXCEPT ![a] = Away]
    BY <1>1, PlaceNames DEF SavePhoto, SaveMinting, SaveHash, SaveToken, SaveMinted,
       SaveFailed, Saves, boxHistory
  <2> QED
    BY <2>1, <1>m
<1>2. ASSUME NEW a \in Attempts,
             BeginAttempt(a) \/ ClaimRow(a) \/ SendMint(a) \/ AwaitReceipt(a)
               \/ WriteRegistry(a) \/ AttemptFails(a)
      PROVE  attempt'[b].pc # "resend"
  <2>1. /\ ~resent
        /\ \E pc \in Places \ {"resend"} : \E row :
             Moves(a, pc, row) \/ attempt' = [attempt EXCEPT ![a] = Away]
    BY <1>2, PlaceNames DEF BeginAttempt, ClaimRow, SendMint, AwaitReceipt,
       WriteRegistry, AttemptFails, boxHistory
  <2> QED
    BY <2>1, <1>m
<1>3. ASSUME NEW a \in Attempts, Throttled(a) PROVE attempt'[b].pc # "resend"
  BY <1>3 DEF Throttled
<1>4. CASE BoxRestart
  BY <1>4 DEF BoxRestart, Away
<1>5. CASE UNCHANGED <<attempt, resent>>
  BY <1>5 DEF Unresent
<1>6. (\E n \in DOMAIN boxTx : Settle(n, "mined") \/ Settle(n, "reverted"))
        \/ UNCHANGED boxVars => UNCHANGED <<attempt, resent>>
  BY DEF Settle, boxVars, boxHistory
<1> QED
  BY <1>1, <1>2, <1>3, <1>4, <1>5, <1>6 DEF BoxNext

\* Without an overlap or a hash lost, the transaction stays known: a busy
\* attempt saves the one hash there is, and only an attempt that no hash
\* preceded sends.
LEMMA KnownStep == BoxInv /\ [BoxNext]_boxVars => Known'
<1> SUFFICES ASSUME BoxInv, [BoxNext]_boxVars, ~overlapped', ~unsaved', ~resent'
             PROVE  Known'
  BY DEF Known
<1> USE DEF BoxInv
<1>0. ~overlapped /\ ~unsaved /\ ~resent
  <2>1. ASSUME NEW a \in Attempts, ClaimRow(a) PROVE overlapped => overlapped'
    BY <2>1 DEF ClaimRow
  <2>2. ASSUME NEW a \in Attempts, AttemptFails(a) PROVE unsaved => unsaved'
    BY <2>2 DEF AttemptFails
  <2>3. BoxRestart => (unsaved => unsaved')
    BY DEF BoxRestart
  <2>4. (\E a \in Attempts : ClaimRow(a)) \/ (overlapped' = overlapped)
    BY DEF BoxNext, boxVars, boxHistory, BeginAttempt, SavePhoto, SaveMinting, SendMint,
           SaveHash, Throttled, AwaitReceipt, SaveToken, WriteRegistry, SaveMinted, SaveFailed,
           AttemptFails, BoxRestart, Settle
  <2>5. (\E a \in Attempts : AttemptFails(a)) \/ BoxRestart \/ (unsaved' = unsaved)
    BY DEF BoxNext, boxVars, boxHistory, BeginAttempt, ClaimRow, SavePhoto, SaveMinting,
           SendMint, SaveHash, Throttled, AwaitReceipt, SaveToken, WriteRegistry, SaveMinted,
           SaveFailed, Settle
  <2>6. (\E a \in Attempts : Throttled(a)) \/ (resent' = resent)
    BY DEF BoxNext, boxVars, boxHistory, BeginAttempt, ClaimRow, SavePhoto, SaveMinting,
           SendMint, SaveHash, AwaitReceipt, SaveToken, WriteRegistry, SaveMinted,
           SaveFailed, AttemptFails, BoxRestart, Settle
  <2>7. (\E a \in Attempts : Throttled(a)) => resent'
    BY DEF Throttled
  <2> QED
    BY <2>1, <2>2, <2>3, <2>4, <2>5, <2>6, <2>7
<1>len. Len(boxTx) \in Nat /\ DOMAIN boxTx = 1..Len(boxTx)
  BY DEF BoxTypeOK
<1>k. /\ \A x \in Attempts : Busy(x) /\ attempt[x].row.hash = 0 => Len(boxTx) = 0
      /\ Len(boxTx) # 0 => Len(boxTx) = 1
           /\ (boxRow.hash = 1 \/ \E x \in Attempts : Busy(x) /\ attempt[x].row.hash = 1)
  BY <1>0 DEF Known
<1>h. ASSUME NEW a \in Attempts
      PROVE  /\ attempt[a].row \in BoxRows /\ attempt[a].row.hash \in Nat
             /\ Copy(attempt[a].pc, attempt[a].row, boxTx, registered)
             /\ attempt[a].row.hash # 0 => attempt[a].row.hash = 1 /\ Len(boxTx) = 1
  <2>1. attempt[a].row \in BoxRows /\ attempt[a].row.hash \in Nat
    BY DEF BoxTypeOK, BoxRows
  <2>2. Copy(attempt[a].pc, attempt[a].row, boxTx, registered)
    BY DEF Copies
  <2>3. attempt[a].row.hash # 0 => attempt[a].row.hash \in 1..Len(boxTx)
    BY <2>2, <1>len DEF Copy, Sound
  <2> QED
    BY <2>1, <2>2, <2>3, <1>len, <1>k
\* An attempt moves, and what is known of it and of the row does not change.
<1>m. ASSUME NEW a \in Attempts,
             \A x \in Attempts \ {a} : attempt'[x] = attempt[x],
             boxRow'.hash = boxRow.hash, boxTx' = boxTx,
             Busy(a)' <=> Busy(a),
             Busy(a) => attempt'[a].row.hash = attempt[a].row.hash
      PROVE  Known'
  <2>1. \A x \in Attempts : /\ Busy(x)' <=> Busy(x)
                            /\ Busy(x) => attempt'[x].row.hash = attempt[x].row.hash
    BY <1>m DEF Busy
  <2> QED
    BY <2>1, <1>m, <1>k DEF Known
\* An attempt saves its copy.
<1>s. ASSUME NEW a \in Attempts,
             \A x \in Attempts \ {a} : attempt'[x] = attempt[x],
             boxRow'.hash = attempt[a].row.hash, boxTx' = boxTx,
             Busy(a) \/ attempt[a].row.hash # 0,
             Busy(a)' => Busy(a) /\ attempt'[a].row.hash = attempt[a].row.hash
      PROVE  Known'
  <2>1. \A x \in Attempts : Busy(x)' =>
           Busy(x) /\ attempt'[x].row.hash = attempt[x].row.hash
    BY <1>s DEF Busy
  <2>2. CASE attempt[a].row.hash = 0
    BY <2>1, <2>2, <1>s, <1>k DEF Known
  <2>3. CASE attempt[a].row.hash # 0
    <3>1. boxRow'.hash = 1 /\ Len(boxTx) = 1
      BY <2>3, <1>s, <1>h
    <3> QED
      BY <2>1, <3>1, <1>s, <1>k DEF Known
  <2> QED
    BY <2>2, <2>3
<1>1. ASSUME NEW a \in Attempts, BeginAttempt(a) PROVE Known'
  <2>1. /\ \A x \in Attempts \ {a} : attempt'[x] = attempt[x]
        /\ ~Busy(a) /\ ~Busy(a)' /\ UNCHANGED <<boxRow, boxTx>>
    BY <1>1 DEF BeginAttempt, Moves, Busy, InTryBlock, BoxTypeOK
  <2> QED
    BY <2>1, <1>m
<1>2. ASSUME NEW a \in Attempts, ClaimRow(a) PROVE Known'
  <2> DEFINE row == IF Fresh(boxRow) THEN [NoRow EXCEPT !.status = "pending"] ELSE boxRow
  <2>1. Sound(boxRow, boxTx)
    BY DEF Stored, RowKept
  <2>2. boxRow'.hash = boxRow.hash /\ boxTx' = boxTx
    BY <1>2, <2>1 DEF ClaimRow, Fresh, Sound, NoRow
  <2>3. ~Busy(a)
    BY <1>2 DEF ClaimRow, Busy, InTryBlock
  <2>4. row.hash = boxRow.hash
    BY DEF Fresh, NoRow
  <2>5. CASE \E r : Moves(a, "rewrite", r) \/ attempt' = [attempt EXCEPT ![a] = Away]
    <3>1. (\A x \in Attempts \ {a} : attempt'[x] = attempt[x]) /\ ~Busy(a)'
      BY <2>5 DEF Moves, Away, Busy, InTryBlock, BoxTypeOK
    <3> QED
      BY <3>1, <2>2, <2>3, <1>m
  <2>6. CASE Moves(a, "photo", row) /\ row.status # "minted" /\ row.token = 0
             /\ ~(row.status = "minting" /\ row.hash # 0)
             /\ overlapped' = (overlapped \/ \E x \in Attempts :
                                 attempt[x].pc \in InTryBlock \cup {"fail"})
    <3>1. \A x \in Attempts : ~Busy(x)
      BY <2>6 DEF Busy
    <3>2. boxRow.hash = 0
      <4>1. row.hash = 0 \/ row = boxRow
        BY DEF NoRow
      <4> HIDE DEF row
      <4> QED
        BY <4>1, <2>1, <2>4, <2>6 DEF Sound
    <3>3. Len(boxTx) = 0
      BY <3>1, <3>2, <1>k
    <3> QED
      BY <3>3, <2>2 DEF Known
  <2>7. row = IF Fresh(boxRow) THEN [NoRow EXCEPT !.status = "pending"] ELSE boxRow
    OBVIOUS
  <2> HIDE DEF row
  <2> QED
    BY <1>2, <2>5, <2>6, <2>7 DEF ClaimRow
<1>3. ASSUME NEW a \in Attempts, SavePhoto(a) \/ SaveHash(a) \/ SaveToken(a) PROVE Known'
  <2>1. PICK pc \in InTryBlock : Saves(a, pc, attempt[a].row) /\ pc # "idle"
    BY <1>3 DEF SavePhoto, SaveHash, SaveToken, InTryBlock
  <2>2. Busy(a) /\ boxTx' = boxTx
    BY <1>3 DEF SavePhoto, SaveHash, SaveToken, Busy, InTryBlock
  <2>3. /\ boxRow' = attempt[a].row /\ attempt'[a].row = attempt[a].row
        /\ \A x \in Attempts \ {a} : attempt'[x] = attempt[x]
    BY <2>1 DEF Saves, Moves, BoxTypeOK
  <2> QED
    BY <2>2, <2>3, <1>s
<1>4. ASSUME NEW a \in Attempts, SaveMinting(a) PROVE Known'
  <2> DEFINE row == [attempt[a].row EXCEPT !.status = "minting"]
  <2>1. row.hash = attempt[a].row.hash
    BY <1>h DEF BoxRows
  <2>2. Busy(a) /\ boxTx' = boxTx /\ Saves(a, "send", row)
    BY <1>4 DEF SaveMinting, Busy, InTryBlock
  <2> HIDE DEF row
  <2>3. /\ boxRow' = row /\ attempt'[a].row = row
        /\ \A x \in Attempts \ {a} : attempt'[x] = attempt[x]
    BY <2>2 DEF Saves, Moves, BoxTypeOK
  <2> QED
    BY <2>1, <2>2, <2>3, <1>s
<1>5. ASSUME NEW a \in Attempts, SendMint(a) PROVE Known'
  <2> DEFINE row == [attempt[a].row EXCEPT !.hash = Len(boxTx) + 1]
  <2>1. Busy(a) /\ attempt[a].row.hash = 0
    BY <1>5, <1>h, <1>0 DEF SendMint, Unresent, Copy, Busy, InTryBlock
  <2>2. Len(boxTx) = 0
    BY <2>1, <1>k
  <2>3. row.hash = 1
    BY <2>2, <1>h DEF BoxRows
  <2>4. Moves(a, "submitted", row) /\ boxTx' = Append(boxTx, "sent")
    BY <1>5 DEF SendMint
  <2> HIDE DEF row
  <2>5. Len(boxTx') = 1
    BY <2>2, <2>4 DEF BoxTypeOK
  <2>6. Busy(a)' /\ attempt'[a].row.hash = 1
    BY <2>3, <2>4 DEF Moves, Busy, InTryBlock, BoxTypeOK
  <2>7. \A x \in Attempts : Busy(x)' => x = a
    <3>1. \A x \in Attempts \ {a} : attempt'[x] = attempt[x]
      BY <2>4 DEF Moves, BoxTypeOK
    <3> QED
      BY <3>1, <2>1, <1>0 DEF Alone, Busy
  <2> QED
    BY <2>5, <2>6, <2>7 DEF Known
<1>6. ASSUME NEW a \in Attempts, AwaitReceipt(a) PROVE Known'
  <2>1. PICK pc \in {"token", "fail"}, n \in Nat : Moves(a, pc, [attempt[a].row EXCEPT !.token = n])
    <3>1. attempt[a].row = [attempt[a].row EXCEPT !.token = attempt[a].row.token]
      BY <1>h DEF BoxRows
    <3> QED
      BY <1>6, <1>h, <3>1 DEF AwaitReceipt, BoxRows
  <2> DEFINE row == [attempt[a].row EXCEPT !.token = n]
  <2>2. row.hash = attempt[a].row.hash
    BY <1>h DEF BoxRows
  <2>3. Moves(a, pc, row)
    BY <2>1
  <2> HIDE DEF row
  <2>4. /\ \A x \in Attempts \ {a} : attempt'[x] = attempt[x]
        /\ attempt'[a].row.hash = attempt[a].row.hash /\ Busy(a)'
    BY <2>1, <2>2, <2>3 DEF Moves, Busy, InTryBlock, BoxTypeOK
  <2>5. Busy(a) /\ UNCHANGED <<boxRow, boxTx>>
    BY <1>6 DEF AwaitReceipt, Busy, InTryBlock
  <2> QED
    BY <2>4, <2>5, <1>m
<1>7. ASSUME NEW a \in Attempts, WriteRegistry(a) PROVE Known'
  <2>1. /\ \A x \in Attempts \ {a} : attempt'[x] = attempt[x]
        /\ attempt'[a].row = attempt[a].row /\ UNCHANGED <<boxRow, boxTx>>
    BY <1>7 DEF WriteRegistry, Moves, BoxTypeOK
  <2>2. Busy(a)' <=> Busy(a)
    BY <1>7 DEF WriteRegistry, Moves, Busy, InTryBlock, BoxTypeOK
  <2> QED
    BY <2>1, <2>2, <1>m
<1>8. ASSUME NEW a \in Attempts, SaveMinted(a) \/ SaveFailed(a) PROVE Known'
  <2>1. PICK st : Saves(a, "idle", [attempt[a].row EXCEPT !.status = st])
    BY <1>8 DEF SaveMinted, SaveFailed
  <2> DEFINE row == [attempt[a].row EXCEPT !.status = st]
  <2>2. row.hash = attempt[a].row.hash
    BY <1>h DEF BoxRows
  <2>3. boxRow' = row /\ attempt' = [attempt EXCEPT ![a] = Away]
    BY <2>1 DEF Saves
  <2> HIDE DEF row
  <2>4. (\A x \in Attempts \ {a} : attempt'[x] = attempt[x]) /\ ~Busy(a)'
    BY <2>3 DEF Away, Busy, InTryBlock, BoxTypeOK
  <2>5. boxTx' = boxTx /\ (Busy(a) \/ attempt[a].row.hash # 0)
    BY <1>8, <1>h DEF SaveMinted, SaveFailed, Copy, Sound, Busy, InTryBlock
  <2> QED
    BY <2>2, <2>3, <2>4, <2>5, <1>s
<1>9. ASSUME NEW a \in Attempts, AttemptFails(a) PROVE Known'
  <2>1. UNCHANGED <<boxRow, boxTx>>
    BY <1>9 DEF AttemptFails
  <2>2. CASE Moves(a, "fail", attempt[a].row) /\ attempt[a].pc \in InTryBlock
    <3>1. /\ \A x \in Attempts \ {a} : attempt'[x] = attempt[x]
          /\ attempt'[a].row = attempt[a].row /\ Busy(a) /\ Busy(a)'
      BY <2>2 DEF Moves, Busy, BoxTypeOK
    <3> QED
      BY <3>1, <2>1, <1>m
  <2>3. CASE attempt' = [attempt EXCEPT ![a] = Away] /\ ~OnlyInMemory(a)
    <3>1. (\A x \in Attempts \ {a} : attempt'[x] = attempt[x]) /\ ~Busy(a)'
      BY <2>3 DEF Away, Busy, InTryBlock, BoxTypeOK
    <3>2. \A x \in Attempts : Busy(x)' => x # a /\ Busy(x) /\ attempt'[x] = attempt[x]
      BY <3>1 DEF Busy
    <3>3. attempt[a].row.hash = 0 \/ boxRow.hash = attempt[a].row.hash
      BY <2>3 DEF OnlyInMemory
    <3>4. Len(boxTx) # 0 => boxRow.hash = 1 \/ \E x \in Attempts \ {a} :
                                               Busy(x) /\ attempt[x].row.hash = 1
      BY <3>3, <1>k
    <3>5. \A x \in Attempts \ {a} : Busy(x) => Busy(x)'
      BY <3>1 DEF Busy
    <3> QED
      BY <3>1, <3>2, <3>4, <3>5, <2>1, <1>k DEF Known
  <2> QED
    BY <1>9, <2>2, <2>3 DEF AttemptFails
<1>10. CASE BoxRestart
  <2>1. \A x \in Attempts : ~Busy(x)'
    BY <1>10 DEF BoxRestart, Away, Busy, InTryBlock
  <2>2. UNCHANGED <<boxRow, boxTx>>
    BY <1>10 DEF BoxRestart
  <2>3. \A x \in Attempts : attempt[x].row.hash = 0 \/ boxRow.hash = attempt[x].row.hash
    BY <1>10 DEF BoxRestart, OnlyInMemory
  <2> QED
    BY <2>1, <2>2, <2>3, <1>k DEF Known
<1>11. CASE \E n \in DOMAIN boxTx : Settle(n, "mined") \/ Settle(n, "reverted")
  <2>1. Len(boxTx') = Len(boxTx) /\ UNCHANGED <<boxRow, attempt>>
    BY <1>11 DEF Settle, BoxTypeOK
  <2> QED
    BY <2>1, <1>k DEF Known, Busy
<1>12. CASE UNCHANGED boxVars
  BY <1>12, <1>k DEF boxVars, Known, Busy
<1>13. ASSUME NEW a \in Attempts, Throttled(a) PROVE Known'
  BY <1>13 DEF Throttled
<1> QED
  BY <1>1, <1>2, <1>3, <1>4, <1>5, <1>6, <1>7, <1>8, <1>9, <1>10, <1>11, <1>12,
     <1>13 DEF BoxNext
-----------------------------------------------------------------------------
(* The theorems.                                                           *)

\* At the start nothing was sent and nobody is busy.
LEMMA BoxInvInit == BoxInit => BoxInv
<1> SUFFICES ASSUME BoxInit PROVE BoxInv
  OBVIOUS
<1>1. BoxTypeOK
  BY BoxTypeInit
<1>2. Copies /\ Stored
  BY DEF BoxInit, Copies, Copy, Stored, RowKept, Sound, NoRow, Away
<1>3. Alone /\ Unresent /\ Known
  BY DEF BoxInit, Alone, Unresent, Known, Busy, Away, InTryBlock
<1> QED
  BY <1>1, <1>2, <1>3 DEF BoxInv

\* The strengthening is inductive.
LEMMA BoxInductive == BoxSpec => []BoxInv
<1>1. BoxInv /\ [BoxNext]_boxVars => BoxInv'
  BY BoxTypeStep, CopiesStep, AloneStep, UnresentStep, KnownStep DEF BoxInv
<1> QED
  BY <1>1, BoxInvInit, PTL DEF BoxSpec

\* Type correctness, for any number of attempts, calls and failures.
THEOREM BoxTypeCorrect == BoxSpec => []BoxTypeOK
<1>1. BoxInv => BoxTypeOK
  BY DEF BoxInv
<1> QED
  BY <1>1, BoxInductive, PTL

\* mintForPartner sends one transaction for a request id, unless two attempts
\* overlapped, the hash of the first could not be saved, or the wait for its
\* receipt was throttled.
THEOREM RequestMintsOnce == BoxSpec => []OneMintPerRequest
<1>1. BoxInv => OneMintPerRequest
  <2> SUFFICES ASSUME BoxInv, Len(boxTx) > 1, ~overlapped, ~unsaved, ~resent PROVE FALSE
    BY DEF OneMintPerRequest
  <2>1. PICK n \in Nat : n = Len(boxTx)
    BY DEF BoxInv, BoxTypeOK
  <2>2. n # 0 => n = 1
    BY <2>1 DEF BoxInv, Known
  <2>3. n > 1
    BY <2>1
  <2> QED
    BY <2>2, <2>3
<1> QED
  BY <1>1, BoxInductive, PTL

\* A row that mintForPartner saved as "minted" is true, also when attempts
\* overlap and overwrite each other's row.
THEOREM MintedRowIsTrue == BoxSpec => []MintedRowTruthful
<1>1. BoxInv => MintedRowTruthful
  BY DEF BoxInv, Stored, RowKept, Sound, MintedRowTruthful
<1> QED
  BY <1>1, BoxInductive, PTL
=============================================================================
