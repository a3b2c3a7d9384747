------------------------- MODULE RedeemBatch_proofs -------------------------
(***************************************************************************)
(* Proofs about RedeemBatch, for any number of cards, requests and          *)
(* failures: its types; a row says "burned" or "completed" only of a token  *)
(* burned on chain; and the USDC of the batch is paid back once, and once   *)
(* more at most for every lost record of it.                                *)
(***************************************************************************)
EXTENDS RedeemBatch, TLAPS

\* The awaits at which a job has a current card, those of one burn, and those
\* after the burn is recorded.
AtCard  == {"send_nft", "save_nft", "mark", "save_mark"}
Burning == {"check", "burn", "record"}
Gone    == {"redeem", "find", "save_burn"}
Paying  == {"usdc", "full"}

\* Job values o (handler), p (await), S, rows, R, c, as in Hold, with tokens
\* tok and owners own; s transfers are sent and l records lost.
JobOK(o, p, S, rows, R, c, tok, own, s, l) ==
  /\ p \in AtCard \cup Burning \cup Gone => c \in Cards
  /\ p \in Burning \cup Gone => o \in {"receipt", "burn"}
  /\ p \in {"burns", "reload"} => o = "receipt"
  /\ p = "record" => own[c] = "none"
  /\ p \in Gone => tok[c] = "burned"
  /\ o = "receipt" /\ p = "burns" =>
       \A d \in Cards \ R : tok[d] = "burned"
  /\ o = "receipt" /\ p \in Burning \cup Gone =>
       \A d \in Cards \ R : d # c => tok[d] = "burned"
  /\ p = "reload" => \A d \in Cards : tok[d] = "burned"
  /\ \A d \in S : rows[d].status \in Blocked => tok[d] = "burned"
  /\ p \in {"send_usdc", "save_usdc"} => o \in Paying /\ S = Cards
  /\ p = "send_usdc" => s <= l
  /\ p = "save_usdc" => AllPaidBack(rows)

JobsOK == \A j \in Jobs :
  JobOK(op[j], pc[j], part[j], snap[j], rest[j], at[j], token, owner, sent, lost)

\* withBatchLock: one refund at a time.
LockOK == \A j, k \in Jobs : InRefund(j) /\ InRefund(k) => j = k

RowsOK == \A c \in Cards :
  /\ row[c].status \in Blocked => token[c] = "burned"
  /\ token[c] = "burned" \/ cycle[c] = "redeemed" => owner[c] = "none"

\* Either every transfer sent has a lost record, or the last one is recorded
\* or about to be.
CashOK ==
  \/ sent <= lost
  \/ sent <= 1 + lost /\ (AllPaidBack(row) \/ Unrecorded # {})

\* The inductive invariant.
IInv == TypeOK /\ JobsOK /\ LockOK /\ RowsOK /\ CashOK

DBTypes ==
  /\ row \in [Cards -> Rows] /\ token \in [Cards -> {"active", "burned"}]
  /\ cycle \in [Cards -> {"redemption_requested", "minted", "redeemed"}]
ChainTypes ==
  /\ owner \in [Cards -> {"user", "custody", "none"}] /\ sent \in Nat
JobTypes ==
  /\ op \in [Jobs -> Ops] /\ pc \in [Jobs -> Pcs]
  /\ snap \in [Jobs -> [Cards -> Rows]] /\ part \in [Jobs -> SUBSET Cards]
  /\ rest \in [Jobs -> SUBSET Cards] /\ todo \in [Jobs -> SUBSET Cards]
  /\ at \in [Jobs -> Cards \cup {NoCard}]
HistTypes == used \in Nat /\ lost \in Nat /\ faults \in Nat

LEMMA TypesSplit == TypeOK <=> DBTypes /\ ChainTypes /\ JobTypes /\ HistTypes
BY DEF TypeOK, DBTypes, ChainTypes, JobTypes, HistTypes

LEMMA PaidRowType == PaidRow \in Rows /\ PaidRow.status \notin Blocked
                     /\ NoRows \in [Cards -> Rows]
BY DEF PaidRow, Rows, Statuses, Refunds, Blocked, NoRows

LEMMA OnlyType ==
  ASSUME NEW S \in SUBSET Cards, NEW rows \in [Cards -> Rows]
  PROVE  /\ Only(S, rows) \in [Cards -> Rows]
         /\ \A c \in S : Only(S, rows)[c] = rows[c]
         /\ S = Cards => Only(S, rows) = rows
BY PaidRowType DEF Only

\* A job that is not about to save anything, and burns nothing.
LEMMA EasyJob ==
  ASSUME NEW o, NEW p, NEW rows, NEW R, NEW c, NEW tok, NEW own, NEW s, NEW l,
         p \in {"idle", "returns", "custody", "list", "cycles", "reset"}
  PROVE  JobOK(o, p, {}, rows, R, c, tok, own, s, l)
BY DEF JobOK, AtCard, Burning, Gone

\* What happens to the other jobs when one moves: nothing that is burned comes
\* back, and the transfers sent do not grow beyond the records lost.
Later ==
  /\ \A c \in Cards : token[c] = "burned" => token'[c] = "burned"
  /\ \A c \in Cards : owner[c] = "none" => owner'[c] = "none"

LEMMA OtherJob ==
  ASSUME NEW o, NEW p, NEW S \in SUBSET Cards, NEW rows, NEW R, NEW c,
         JobOK(o, p, S, rows, R, c, token, owner, sent, lost), Later,
         p = "send_usdc" => (sent <= lost => sent' <= lost')
  PROVE  JobOK(o, p, S, rows, R, c, token', owner', sent', lost')
<1>1. p = "record" => c \in Cards
  BY DEF JobOK, Burning
<1>2. p \in Gone => c \in Cards
  BY DEF JobOK
<1> QED BY <1>1, <1>2 DEF JobOK, Later

\* Job j moves.
LEMMA HoldOK ==
  ASSUME JobTypes, JobsOK, LockOK, NEW j \in Jobs, NEW o \in Ops, NEW p \in Pcs,
         NEW S \in SUBSET Cards, NEW rows \in [Cards -> Rows],
         NEW R \in SUBSET Cards, NEW T \in SUBSET Cards,
         NEW c \in Cards \cup {NoCard},
         Hold(j, o, p, S, rows, R, T, c), Later,
         JobOK(o, p, S, rows, R, c, token', owner', sent', lost'),
         o \in Paying => InRefund(j) \/ LockFree,
         InRefund(j) \/ (sent' = sent /\ (sent <= lost => sent <= lost'))
  PROVE  /\ JobTypes' /\ JobsOK' /\ LockOK'
         /\ \A k \in Jobs \ {j} : pc'[k] = pc[k]
         /\ pc'[j] = p /\ part'[j] = S
<1>1. Only(S, rows) \in [Cards -> Rows]
      /\ (\A d \in S : Only(S, rows)[d] = rows[d])
      /\ (S = Cards => Only(S, rows) = rows)
  BY OnlyType
<1>2. JobTypes'
  BY <1>1 DEF JobTypes, Hold
<1>3. /\ op'[j] = o /\ pc'[j] = p /\ part'[j] = S
      /\ snap'[j] = Only(S, rows) /\ rest'[j] = R /\ at'[j] = c
  BY DEF JobTypes, Hold
<1>4. ASSUME NEW k \in Jobs, k # j
      PROVE  /\ op'[k] = op[k] /\ pc'[k] = pc[k] /\ part'[k] = part[k]
             /\ snap'[k] = snap[k] /\ rest'[k] = rest[k] /\ at'[k] = at[k]
  BY <1>4 DEF JobTypes, Hold
<1>5. LockOK'
  <2>1. ASSUME NEW k \in Jobs, NEW m \in Jobs, InRefund(k)', InRefund(m)'
        PROVE  k = m
    <3>1. CASE k # j /\ m # j
      BY <1>4, <2>1, <3>1 DEF LockOK, InRefund
    <3>2. CASE k = j /\ m # j
      BY <1>3, <1>4, <2>1, <3>2 DEF LockOK, InRefund, LockFree, Paying
    <3>3. CASE k # j /\ m = j
      BY <1>3, <1>4, <2>1, <3>3 DEF LockOK, InRefund, LockFree, Paying
    <3> QED BY <3>1, <3>2, <3>3
  <2> QED BY <2>1 DEF LockOK
<1>6. ASSUME NEW k \in Jobs
      PROVE  JobOK(op'[k], pc'[k], part'[k], snap'[k], rest'[k], at'[k],
                   token', owner', sent', lost')
  <2>1. CASE k = j
    <3>1. JobOK(o, p, S, Only(S, rows), R, c, token', owner', sent', lost')
      <4>1. p = "save_usdc" => AllPaidBack(Only(S, rows))
        BY <1>1 DEF JobOK
      <4> QED BY <1>1, <4>1 DEF JobOK
    <3> QED BY <1>3, <2>1, <3>1
  <2>2. CASE k # j
    <3>1. JobOK(op[k], pc[k], part[k], snap[k], rest[k], at[k],
                token, owner, sent, lost)
      BY DEF JobsOK
    <3>2. pc[k] = "send_usdc" => (sent <= lost => sent' <= lost')
      <4>1. CASE InRefund(j)
        <5>1. pc[k] = "send_usdc" => InRefund(k)
          BY <3>1 DEF JobOK, InRefund, Paying
        <5> QED BY <2>2, <4>1, <5>1 DEF LockOK
      <4>2. CASE sent' = sent /\ (sent <= lost => sent <= lost')
        BY <4>2
      <4> QED BY <4>1, <4>2
    <3>3. JobOK(op[k], pc[k], part[k], snap[k], rest[k], at[k],
                token', owner', sent', lost')
      <4>1. part[k] \in SUBSET Cards
        BY DEF JobTypes
      <4> QED BY <3>1, <3>2, <4>1, OtherJob
    <3> QED BY <1>4, <2>2, <3>3
  <2> QED BY <2>1, <2>2
<1>7. JobsOK'
  BY <1>6 DEF JobsOK
<1> QED BY <1>2, <1>3, <1>4, <1>5, <1>7

\* A step that only moves job j, from an await that holds no sent transfer.
LEMMA MoveOK ==
  ASSUME IInv, NEW j \in Jobs, NEW o \in Ops, NEW p \in Pcs,
         NEW S \in SUBSET Cards, NEW rows \in [Cards -> Rows],
         NEW R \in SUBSET Cards, NEW T \in SUBSET Cards,
         NEW c \in Cards \cup {NoCard},
         Hold(j, o, p, S, rows, R, T, c), UNCHANGED <<db, chain, lost>>,
         JobOK(o, p, S, rows, R, c, token, owner, sent, lost),
         o \in Paying => InRefund(j) \/ LockFree,
         pc[j] # "save_usdc", used' \in Nat, faults' \in Nat
  PROVE  IInv'
<1>1. /\ DBTypes /\ ChainTypes /\ JobTypes /\ HistTypes /\ JobsOK /\ LockOK
      /\ RowsOK /\ CashOK
  BY TypesSplit DEF IInv
<1>2. /\ token' = token /\ owner' = owner /\ sent' = sent /\ lost' = lost
      /\ row' = row /\ cycle' = cycle
  BY DEF db, chain
<1>3. Later
  BY <1>2 DEF Later
<1>4. /\ JobTypes' /\ JobsOK' /\ LockOK'
      /\ \A k \in Jobs \ {j} : pc'[k] = pc[k]
  <2>1. JobOK(o, p, S, rows, R, c, token', owner', sent', lost')
    BY <1>2
  <2> QED BY <1>1, <1>2, <1>3, <2>1, HoldOK
<1>5. TypeOK'
  BY <1>1, <1>2, <1>4 DEF TypeOK, DBTypes, ChainTypes, JobTypes, HistTypes
<1>6. RowsOK'
  BY <1>1, <1>2 DEF RowsOK
<1>7. CashOK'
  BY <1>1, <1>2, <1>4 DEF CashOK, Unrecorded, AllPaidBack
<1> QED BY <1>4, <1>5, <1>6, <1>7 DEF IInv

\* A job at pc is of one of its handlers.
LEMMA StopOK ==
  ASSUME IInv, NEW j \in Jobs, Stop(j), UNCHANGED <<db, chain, lost>>,
         pc[j] # "save_usdc", used' \in Nat, faults' \in Nat
  PROVE  IInv'
<1>1. JobOK("none", "idle", {}, NoRows, {}, NoCard, token, owner, sent, lost)
  BY EasyJob
<1> QED BY <1>1, MoveOK, PaidRowType DEF Stop, Ops, Pcs, Paying

LEMMA LoopOK ==
  ASSUME IInv, NEW j \in Jobs, NEW p \in {"returns", "custody", "burns"},
         NEW R \in SUBSET Cards, Loop(j, p, R), UNCHANGED <<db, chain, lost>>,
         p = "burns" => /\ op[j] = "receipt"
                        /\ \A d \in Cards \ R : token[d] = "burned",
         pc[j] # "save_usdc", used' \in Nat, faults' \in Nat
  PROVE  IInv'
<1>1. JobOK(op[j], p, {}, NoRows, R, NoCard, token, owner, sent, lost)
  BY EasyJob DEF JobOK, AtCard, Burning, Gone
<1>2. op[j] \in Ops
  BY DEF IInv, TypeOK
<1>3. op[j] \in Paying => InRefund(j)
  BY DEF InRefund, Paying
<1> QED BY <1>1, <1>2, <1>3, MoveOK, PaidRowType DEF Loop, Pcs

LEMMA ThrowOK ==
  ASSUME IInv, NEW j \in Jobs, Throw(j), UNCHANGED <<db, chain, lost>>,
         pc[j] # "save_usdc", used' \in Nat, faults' \in Nat
  PROVE  IInv'
<1>1. rest[j] \in SUBSET Cards
  BY DEF IInv, TypeOK
<1>2. CASE Stop(j)
  BY <1>2, StopOK
<1>3. CASE Loop(j, "returns", rest[j])
  BY <1>1, <1>3, LoopOK
<1>4. CASE \E c \in rest[j] : Loop(j, "returns", rest[j] \ {c})
  <2>1. PICK c \in rest[j] : Loop(j, "returns", rest[j] \ {c})
    BY <1>4
  <2>2. rest[j] \ {c} \in SUBSET Cards
    BY <1>1
  <2> QED BY <2>1, <2>2, LoopOK
<1> QED BY <1>2, <1>3, <1>4 DEF Throw

LEMMA GoToOK ==
  ASSUME IInv, NEW j \in Jobs, NEW p \in Pcs, GoTo(j, p),
         UNCHANGED <<db, chain, lost>>,
         JobOK(op[j], p, part[j], snap[j], rest[j], at[j],
               token, owner, sent, lost),
         pc[j] # "save_usdc", used' \in Nat, faults' \in Nat
  PROVE  IInv'
<1>1. /\ op[j] \in Ops /\ part[j] \in SUBSET Cards /\ snap[j] \in [Cards -> Rows]
      /\ rest[j] \in SUBSET Cards /\ todo[j] \in SUBSET Cards
      /\ at[j] \in Cards \cup {NoCard}
  BY DEF IInv, TypeOK
<1>2. op[j] \in Paying => InRefund(j)
  BY DEF InRefund, Paying
<1> QED BY <1>1, <1>2, MoveOK DEF GoTo

\* A request or a cron run begins.
LEMMA StartsOK ==
  ASSUME IInv, NEW j \in Jobs, Starts(j)
  PROVE  pc[j] = "idle" /\ pc[j] # "save_usdc" /\ used' \in Nat
BY DEF Starts, IInv, TypeOK

-----------------------------------------------------------------------------
(* Saving rows                                                             *)

LEMMA WriteOK ==
  ASSUME IInv, NEW j \in Jobs, Write(j), UNCHANGED <<token, cycle, owner>>
  PROVE  /\ row' \in [Cards -> Rows] /\ RowsOK'
         /\ lost' \in Nat /\ (lost' = lost \/ lost' = lost + 1)
         /\ AllPaidBack(row) /\ lost' = lost => AllPaidBack(row')
         /\ part[j] = Cards => row' = snap[j]
<1>1. /\ row \in [Cards -> Rows] /\ snap[j] \in [Cards -> Rows]
      /\ part[j] \in SUBSET Cards /\ lost \in Nat
  BY DEF IInv, TypeOK
<1>2. \A c \in part[j] : snap[j][c].status \in Blocked => token[c] = "burned"
  BY DEF IInv, JobsOK, JobOK
<1>3. row' = [c \in Cards |-> IF c \in part[j] THEN snap[j][c] ELSE row[c]]
  BY DEF Write
<1>4. RowsOK'
  <2>1. RowsOK
    BY DEF IInv
  <2> QED BY <1>2, <1>3, <2>1 DEF RowsOK
<1>5. lost' = IF AllPaidBack(row) /\ ~AllPaidBack(row') THEN lost + 1 ELSE lost
  BY DEF Write
<1>6. row' \in [Cards -> Rows]
  BY <1>1, <1>3
<1>7. part[j] = Cards => row' = snap[j]
  BY <1>1, <1>3
<1>8. lost' \in Nat /\ (lost' = lost \/ lost' = lost + 1)
  BY <1>1, <1>5
<1>9. AllPaidBack(row) /\ lost' = lost => AllPaidBack(row')
  BY <1>1, <1>5
<1> QED BY <1>4, <1>6, <1>7, <1>8, <1>9

LEMMA SaveOK ==
  ASSUME IInv, NEW j \in Jobs, NEW o \in Ops, NEW p \in Pcs,
         NEW S \in SUBSET Cards, NEW rows \in [Cards -> Rows],
         NEW R \in SUBSET Cards, NEW T \in SUBSET Cards,
         NEW c \in Cards \cup {NoCard},
         Hold(j, o, p, S, rows, R, T, c), Write(j),
         UNCHANGED <<token, cycle, chain, used, faults>>,
         JobOK(o, p, S, rows, R, c, token, owner, sent, lost),
         o \in Paying => InRefund(j),
         pc[j] = "save_usdc" => part[j] = Cards /\ AllPaidBack(snap[j]),
         p # "send_usdc"
  PROVE  IInv'
<1>1. /\ DBTypes /\ ChainTypes /\ JobTypes /\ HistTypes /\ JobsOK /\ LockOK
      /\ RowsOK /\ CashOK
  BY TypesSplit DEF IInv
<1>2. token' = token /\ owner' = owner /\ sent' = sent /\ cycle' = cycle
      /\ used' = used /\ faults' = faults
  BY DEF chain
<1>3. /\ row' \in [Cards -> Rows] /\ RowsOK'
      /\ lost' \in Nat /\ (lost' = lost \/ lost' = lost + 1)
      /\ (AllPaidBack(row) /\ lost' = lost => AllPaidBack(row'))
      /\ (part[j] = Cards => row' = snap[j])
  BY <1>2, WriteOK
<1>4. Later
  BY <1>2 DEF Later
<1>5. /\ JobTypes' /\ JobsOK' /\ LockOK'
      /\ \A k \in Jobs \ {j} : pc'[k] = pc[k]
  <2>1. JobOK(o, p, S, rows, R, c, token', owner', sent', lost')
    BY <1>2 DEF JobOK
  <2>2. sent <= lost => sent <= lost'
    BY <1>1, <1>3 DEF ChainTypes, HistTypes
  <2> QED BY <1>1, <1>2, <1>4, <2>1, <2>2, HoldOK
<1>6. TypeOK'
  BY <1>1, <1>2, <1>3, <1>5 DEF TypeOK, DBTypes, ChainTypes, JobTypes, HistTypes
<1>7. CashOK'
  <2>1. sent \in Nat /\ lost \in Nat
    BY <1>1 DEF ChainTypes, HistTypes
  <2>2. CASE sent <= lost \/ lost' = lost + 1
    BY <1>1, <1>2, <1>3, <2>1, <2>2 DEF CashOK
  <2>3. CASE ~(sent <= lost) /\ lost' = lost
    <3>1. sent <= 1 + lost /\ (AllPaidBack(row) \/ Unrecorded # {})
      BY <1>1, <2>3 DEF CashOK
    <3>2. CASE AllPaidBack(row)
      BY <1>2, <1>3, <2>3, <3>1, <3>2 DEF CashOK
    <3>3. CASE Unrecorded # {}
      <4>1. PICK k \in Jobs : pc[k] = "save_usdc"
        BY <3>3 DEF Unrecorded
      <4>2. CASE k = j
        <5>1. AllPaidBack(row')
          BY <1>3, <4>1, <4>2
        <5> QED BY <1>2, <2>3, <3>1, <5>1 DEF CashOK
      <4>3. CASE k # j
        <5>1. k \in Unrecorded'
          BY <1>5, <4>1, <4>3 DEF Unrecorded
        <5> QED BY <1>2, <2>3, <3>1, <5>1 DEF CashOK
      <4> QED BY <4>2, <4>3
    <3> QED BY <3>1, <3>2, <3>3
  <2> QED BY <1>3, <2>2, <2>3
<1> QED BY <1>3, <1>5, <1>6, <1>7 DEF IInv

-----------------------------------------------------------------------------
(* Init, and the handlers                                                  *)

LEMMA InitOK == Init => IInv
<1> SUFFICES ASSUME Init PROVE IInv
  OBVIOUS
<1>1. TypeOK
  BY PaidRowType DEF Init, TypeOK, Ops, Pcs
<1>2. JobsOK
  <2>1. ASSUME NEW j \in Jobs
        PROVE  JobOK(op[j], pc[j], part[j], snap[j], rest[j], at[j],
                     token, owner, sent, lost)
    <3>1. pc[j] = "idle" /\ part[j] = {}
      BY DEF Init
    <3> QED BY <3>1, EasyJob
  <2> QED BY <2>1 DEF JobsOK
<1>3. LockOK /\ RowsOK
  BY PaidRowType DEF Init, LockOK, InRefund, RowsOK, NoRows
<1>4. CashOK
  BY DEF Init, CashOK
<1> QED BY <1>1, <1>2, <1>3, <1>4 DEF IInv

LEMMA EditOK ==
  ASSUME IInv, NEW j \in Jobs, NEW S \in SUBSET Cards,
         NEW rows \in [Cards -> Rows], Edit(j, S, rows),
         \A c \in S : rows[c].status \in Blocked => token[c] = "burned"
  PROVE  IInv'
<1>1. JobOK("edit", "edit", S, rows, {}, NoCard, token, owner, sent, lost)
  BY DEF JobOK, AtCard, Burning, Gone
<1>2. /\ Hold(j, "edit", "edit", S, rows, {}, {}, NoCard)
      /\ UNCHANGED <<db, chain, lost>> /\ faults' \in Nat
  BY DEF Edit, IInv, TypeOK
<1>3. pc[j] # "save_usdc" /\ used' \in Nat
  BY StartsOK DEF Edit
<1> QED BY <1>1, <1>2, <1>3, MoveOK DEF Ops, Pcs, Paying

LEMMA UpdateMemoOK ==
  ASSUME IInv, NEW j \in Slots, NEW S \in SUBSET Cards, UpdateMemo(j, S)
  PROVE  IInv'
<1>1. Edit(j, S, row) /\ row \in [Cards -> Rows] /\ j \in Jobs
  BY DEF UpdateMemo, IInv, TypeOK, Jobs
<1>2. \A c \in S : row[c].status \in Blocked => token[c] = "burned"
  BY DEF IInv, RowsOK
<1> QED BY <1>1, <1>2, EditOK

LEMMA UpdateTrackingOK ==
  ASSUME IInv, NEW j \in Slots, NEW S \in SUBSET Cards, UpdateTracking(j, S)
  PROVE  IInv'
<1> DEFINE rows == [c \in Cards |-> [row[c] EXCEPT !.tracked = TRUE]]
<1>1. Edit(j, S, rows) /\ row \in [Cards -> Rows] /\ j \in Jobs
  BY DEF UpdateTracking, IInv, TypeOK, Jobs
<1>2. rows \in [Cards -> Rows]
  BY <1>1 DEF Rows
<1>3. \A c \in S : rows[c].status \in Blocked => token[c] = "burned"
  BY <1>1 DEF IInv, RowsOK, Rows
<1> HIDE DEF rows
<1> QED BY <1>1, <1>2, <1>3, EditOK

LEMMA ConfirmVaultReleaseOK ==
  ASSUME IInv, NEW j \in Slots, NEW c \in Cards, ConfirmVaultRelease(j, c)
  PROVE  IInv'
<1> DEFINE rows == [row EXCEPT ![c].status = "completed"]
<1>1. /\ Edit(j, {c}, rows) /\ row \in [Cards -> Rows] /\ j \in Jobs
      /\ row[c].status = "burned"
  BY DEF ConfirmVaultRelease, IInv, TypeOK, Jobs
<1>2. rows \in [Cards -> Rows]
  BY <1>1 DEF Rows, Statuses
<1>3. \A d \in {c} : rows[d].status \in Blocked => token[d] = "burned"
  BY <1>1 DEF IInv, RowsOK, Blocked
<1> HIDE DEF rows
<1> QED BY <1>1, <1>2, <1>3, EditOK

LEMMA StampDeliveredOK ==
  ASSUME IInv, NEW S \in SUBSET Cards, StampDelivered(S)
  PROVE  IInv'
<1> DEFINE rows == [c \in Cards |-> [row[c] EXCEPT !.delivered = TRUE]]
<1>1. Edit(Poll, S, rows) /\ row \in [Cards -> Rows] /\ Poll \in Jobs
  BY DEF StampDelivered, IInv, TypeOK, Jobs
<1>2. rows \in [Cards -> Rows]
  BY <1>1 DEF Rows
<1>3. \A c \in S : rows[c].status \in Blocked => token[c] = "burned"
  BY <1>1 DEF IInv, RowsOK, Rows
<1> HIDE DEF rows
<1> QED BY <1>1, <1>2, <1>3, EditOK

LEMMA SaveEditOK ==
  ASSUME IInv, NEW j \in Jobs, SaveEdit(j)
  PROVE  IInv'
<1>1. JobOK("none", "idle", {}, NoRows, {}, NoCard, token, owner, sent, lost)
  BY EasyJob
<1> QED BY <1>1, SaveOK, PaidRowType DEF SaveEdit, Stop, Ops, Pcs, Paying

\* The invariant, part by part, and what it says of job j.
LEMMA Parts ==
  ASSUME IInv, NEW j \in Jobs
  PROVE  /\ DBTypes /\ ChainTypes /\ JobTypes /\ HistTypes /\ JobsOK /\ LockOK
         /\ RowsOK /\ CashOK
         /\ JobOK(op[j], pc[j], part[j], snap[j], rest[j], at[j],
                  token, owner, sent, lost)
         /\ op[j] \in Ops /\ part[j] \in SUBSET Cards
         /\ snap[j] \in [Cards -> Rows] /\ rest[j] \in SUBSET Cards
         /\ todo[j] \in SUBSET Cards /\ at[j] \in Cards \cup {NoCard}
         /\ row \in [Cards -> Rows] /\ used \in Nat /\ faults \in Nat
         /\ sent \in Nat /\ lost \in Nat
         /\ op[j] \in Paying => InRefund(j)
<1>1. TypeOK /\ JobsOK
  BY DEF IInv
<1>2. JobOK(op[j], pc[j], part[j], snap[j], rest[j], at[j],
            token, owner, sent, lost)
  BY <1>1 DEF JobsOK
<1> QED BY <1>1, <1>2, TypesSplit DEF IInv, TypeOK, InRefund, Paying

LEMMA UsdcRefundedType ==
  ASSUME NEW r \in Rows
  PROVE  /\ UsdcRefunded(r) \in Rows /\ UsdcRefunded(r).refund \in PaidBack
         /\ UsdcRefunded(r).status \in Blocked => r.status \in Blocked
BY DEF UsdcRefunded, Rows, Statuses, Refunds, PaidBack, Blocked

LEMMA ReturnedType ==
  ASSUME NEW r \in Rows
  PROVE  /\ Returned(r) \in Rows
         /\ Returned(r).status \in Blocked => r.status \in Blocked
BY DEF Returned, Rows, Statuses, Refunds, Blocked

LEMMA BurnedType ==
  ASSUME NEW r \in Rows
  PROVE  Burned(r) \in Rows /\ Completed(r) \in Rows
BY DEF Burned, Completed, Rows, Statuses

LEMMA RefundReadOK ==
  ASSUME IInv, NEW j \in Slots, NEW o \in {"usdc", "full"}, RefundRead(j, o)
  PROVE  IInv'
<1>0. j \in Jobs
  BY DEF Jobs
<1>1. /\ RowsOK /\ CashOK /\ JobsOK /\ row \in [Cards -> Rows]
      /\ sent \in Nat /\ lost \in Nat
  BY <1>0, Parts
<1>2. pc[j] # "save_usdc" /\ used' \in Nat
  BY <1>0, StartsOK DEF RefundRead
<1>3. /\ UNCHANGED <<db, chain, lost>> /\ faults' \in Nat /\ LockFree
  BY <1>0, Parts DEF RefundRead
<1>4. CASE AlreadyRefunded(row)
  <2>1. Hold(j, "returns", "list", {}, NoRows, {}, {}, NoCard)
    BY <1>4 DEF RefundRead
  <2>2. JobOK("returns", "list", {}, NoRows, {}, NoCard, token, owner, sent, lost)
    BY EasyJob
  <2> QED BY <1>0, <1>2, <1>3, <2>1, <2>2, PaidRowType, MoveOK DEF Ops, Pcs, Paying
<1>5. CASE ~AlreadyRefunded(row)
  <2>1. Hold(j, o, "send_usdc", Cards, row, {}, {}, NoCard)
    BY <1>5 DEF RefundRead
  <2>2. Unrecorded = {}
    BY <1>1, <1>3 DEF Unrecorded, JobsOK, JobOK, LockFree, InRefund, Paying
  <2>3. sent <= lost
    BY <1>1, <1>5, <2>2 DEF CashOK, AlreadyRefunded
  <2>4. JobOK(o, "send_usdc", Cards, row, {}, NoCard, token, owner, sent, lost)
    BY <1>1, <2>3 DEF JobOK, AtCard, Burning, Gone, RowsOK, Paying
  <2> QED BY <1>0, <1>1, <1>2, <1>3, <2>1, <2>4, MoveOK DEF Ops, Pcs
<1> QED BY <1>4, <1>5

LEMMA RefundSendOK ==
  ASSUME IInv, NEW j \in Jobs, RefundSend(j)
  PROVE  IInv'
<1> DEFINE rows == [c \in Cards |-> UsdcRefunded(snap[j][c])]
<1>1. /\ DBTypes /\ ChainTypes /\ JobTypes /\ HistTypes /\ JobsOK /\ LockOK
      /\ RowsOK /\ op[j] \in Ops /\ part[j] \in SUBSET Cards
      /\ snap[j] \in [Cards -> Rows] /\ rest[j] \in SUBSET Cards
      /\ at[j] \in Cards \cup {NoCard} /\ sent \in Nat /\ lost \in Nat
      /\ JobOK(op[j], pc[j], part[j], snap[j], rest[j], at[j],
               token, owner, sent, lost)
  BY Parts
<1>2. /\ pc[j] = "send_usdc" /\ sent' = sent + 1
      /\ Hold(j, op[j], "save_usdc", part[j], rows, rest[j], {}, at[j])
      /\ row' = row /\ token' = token /\ cycle' = cycle /\ owner' = owner
      /\ used' = used /\ lost' = lost /\ faults' = faults
  BY DEF RefundSend, WillSave, db, hist
<1>3. part[j] = Cards /\ op[j] \in Paying /\ sent <= lost
  BY <1>1, <1>2 DEF JobOK
<1>4. /\ rows \in [Cards -> Rows] /\ AllPaidBack(rows)
      /\ \A c \in Cards : rows[c].status \in Blocked => snap[j][c].status \in Blocked
  BY <1>1, UsdcRefundedType DEF AllPaidBack
<1> HIDE DEF rows
<1>5. JobOK(op[j], "save_usdc", part[j], rows, rest[j], at[j],
            token', owner', sent', lost')
  BY <1>1, <1>2, <1>3, <1>4 DEF JobOK, AtCard, Burning, Gone
<1>6. Later /\ InRefund(j)
  BY <1>2, <1>3 DEF Later, InRefund, Paying
<1>7. /\ JobTypes' /\ JobsOK' /\ LockOK' /\ pc'[j] = "save_usdc"
  BY <1>1, <1>2, <1>4, <1>5, <1>6, HoldOK DEF Pcs
<1>8. TypeOK'
  BY <1>1, <1>2, <1>7 DEF TypeOK, DBTypes, ChainTypes, JobTypes, HistTypes
<1>9. RowsOK'
  BY <1>1, <1>2 DEF RowsOK
<1>10. CashOK'
  BY <1>1, <1>2, <1>3, <1>7 DEF CashOK, Unrecorded
<1> QED BY <1>7, <1>8, <1>9, <1>10 DEF IInv

LEMMA SaveRefundOK ==
  ASSUME IInv, NEW j \in Jobs, SaveRefund(j)
  PROVE  IInv'
<1>1. /\ op[j] \in Ops /\ part[j] \in SUBSET Cards /\ snap[j] \in [Cards -> Rows]
      /\ rest[j] \in SUBSET Cards /\ todo[j] \in SUBSET Cards
      /\ at[j] \in Cards \cup {NoCard} /\ (op[j] \in Paying => InRefund(j))
      /\ JobOK(op[j], pc[j], part[j], snap[j], rest[j], at[j],
               token, owner, sent, lost)
  BY Parts
<1>2. JobOK(op[j], "cycles", part[j], snap[j], rest[j], at[j],
            token, owner, sent, lost)
  BY <1>1 DEF JobOK, AtCard, Burning, Gone
<1>3. /\ Hold(j, op[j], "cycles", part[j], snap[j], rest[j], todo[j], at[j])
      /\ Write(j) /\ UNCHANGED <<token, cycle, chain, used, faults>>
  BY DEF SaveRefund, GoTo
<1>4. pc[j] = "save_usdc" => part[j] = Cards /\ AllPaidBack(snap[j])
  BY <1>1 DEF JobOK
<1> QED BY <1>1, <1>2, <1>3, <1>4, SaveOK DEF Pcs

LEMMA FindCyclesOK ==
  ASSUME IInv, NEW j \in Jobs, FindCycles(j)
  PROVE  IInv'
<1> DEFINE T == {c \in part[j] : /\ snap[j][c].status = "refunded"
                                 /\ cycle[c] = "redemption_requested"}
<1>1. /\ op[j] \in Ops /\ part[j] \in SUBSET Cards /\ rest[j] \in SUBSET Cards
      /\ (op[j] \in Paying => InRefund(j)) /\ used \in Nat /\ faults \in Nat
  BY Parts
<1>2. JobOK(op[j], "reset", {}, NoRows, rest[j], NoCard, token, owner, sent, lost)
  BY EasyJob
<1>3. /\ Hold(j, op[j], "reset", {}, NoRows, rest[j], T, NoCard)
      /\ UNCHANGED <<db, chain, lost>> /\ used' = used /\ faults' = faults
      /\ pc[j] # "save_usdc"
  BY DEF FindCycles, hist
<1>4. T \in SUBSET Cards
  BY <1>1
<1> HIDE DEF T
<1> QED BY <1>1, <1>2, <1>3, <1>4, PaidRowType, MoveOK DEF Pcs

LEMMA ResetCycleOK ==
  ASSUME IInv, NEW j \in Jobs, NEW c \in Cards, ResetCycle(j, c)
  PROVE  IInv'
<1>1. /\ DBTypes /\ ChainTypes /\ JobTypes /\ HistTypes /\ JobsOK /\ LockOK
      /\ RowsOK /\ CashOK
  BY Parts
<1>2. /\ cycle' = [cycle EXCEPT ![c] = "minted"]
      /\ todo' = [todo EXCEPT ![j] = @ \ {c}]
      /\ row' = row /\ token' = token /\ owner' = owner /\ sent' = sent
      /\ op' = op /\ pc' = pc /\ snap' = snap /\ part' = part /\ rest' = rest
      /\ at' = at /\ used' = used /\ lost' = lost /\ faults' = faults
  BY DEF ResetCycle, chain, hist
<1>3. TypeOK'
  BY <1>1, <1>2 DEF TypeOK, DBTypes, ChainTypes, JobTypes, HistTypes
<1>4. JobsOK'
  BY <1>1, <1>2 DEF JobsOK
<1>5. LockOK' /\ CashOK'
  BY <1>1, <1>2 DEF LockOK, InRefund, CashOK, Unrecorded, AllPaidBack
<1>6. RowsOK'
  BY <1>1, <1>2 DEF RowsOK, DBTypes
<1> QED BY <1>3, <1>4, <1>5, <1>6 DEF IInv

LEMMA ResetDoneOK ==
  ASSUME IInv, NEW j \in Jobs, ResetDone(j)
  PROVE  IInv'
<1>1. /\ UNCHANGED <<db, chain, lost>> /\ used' \in Nat /\ faults' \in Nat
      /\ pc[j] # "save_usdc" /\ rest[j] \in SUBSET Cards
  BY Parts DEF ResetDone, hist
<1>2. CASE op[j] = "full"
  <2>1. Hold(j, "returns", "list", {}, NoRows, {}, {}, NoCard)
    BY <1>2 DEF ResetDone
  <2>2. JobOK("returns", "list", {}, NoRows, {}, NoCard, token, owner, sent, lost)
    BY EasyJob
  <2> QED BY <1>1, <2>1, <2>2, PaidRowType, MoveOK DEF Ops, Pcs, Paying
<1>3. CASE op[j] = "returns"
  <2>1. Loop(j, "returns", rest[j])
    BY <1>3 DEF ResetDone
  <2> QED BY <1>1, <2>1, LoopOK
<1>4. CASE op[j] # "full" /\ op[j] # "returns"
  <2>1. Stop(j)
    BY <1>4 DEF ResetDone
  <2> QED BY <1>1, <2>1, StopOK
<1> QED BY <1>2, <1>3, <1>4

LEMMA ListReturnsOK ==
  ASSUME IInv, NEW j \in Jobs, ListReturns(j) \/ ReturnsDone(j)
  PROVE  IInv'
<1> DEFINE R == {c \in Cards : ~row[c].returned /\ WasEverInCustody(row[c])}
<1>1. /\ UNCHANGED <<db, chain, lost>> /\ used' \in Nat /\ faults' \in Nat
      /\ pc[j] # "save_usdc" /\ R \in SUBSET Cards
      /\ Loop(j, "returns", R) \/ Stop(j)
  BY Parts DEF ListReturns, ReturnsDone, hist
<1> HIDE DEF R
<1> QED BY <1>1, StopOK, LoopOK

LEMMA ReturnNftOK ==
  ASSUME IInv, NEW j \in Slots, NEW c \in Cards, ReturnNft(j, c)
  PROVE  IInv'
<1>1. j \in Jobs
  BY DEF Jobs
<1>2. /\ UNCHANGED <<db, chain, lost>> /\ used' \in Nat /\ faults' \in Nat
      /\ pc[j] # "save_usdc" /\ row \in [Cards -> Rows] /\ RowsOK
      /\ Hold(j, "nft", "send_nft", {c}, row, {}, {}, c)
  BY <1>1, Parts, StartsOK DEF ReturnNft
<1>3. JobOK("nft", "send_nft", {c}, row, {}, c, token, owner, sent, lost)
  BY <1>2 DEF JobOK, AtCard, Burning, Gone, RowsOK
<1> QED BY <1>1, <1>2, <1>3, MoveOK DEF Ops, Pcs, Paying

LEMMA ReturnNextOK ==
  ASSUME IInv, NEW j \in Jobs, NEW c \in Cards, ReturnNext(j, c)
  PROVE  IInv'
<1>1. /\ UNCHANGED <<db, chain, lost>> /\ used' \in Nat /\ faults' \in Nat
      /\ pc[j] # "save_usdc" /\ row \in [Cards -> Rows] /\ RowsOK
      /\ rest[j] \ {c} \in SUBSET Cards
  BY Parts DEF ReturnNext, hist
<1>2. CASE Returnable(row[c])
  <2>1. Hold(j, "returns", "send_nft", {c}, row, rest[j] \ {c}, {}, c)
    BY <1>2 DEF ReturnNext
  <2>2. JobOK("returns", "send_nft", {c}, row, rest[j] \ {c}, c,
              token, owner, sent, lost)
    BY <1>1 DEF JobOK, AtCard, Burning, Gone, RowsOK
  <2> QED BY <1>1, <2>1, <2>2, MoveOK DEF Ops, Pcs, Paying
<1>3. CASE ~Returnable(row[c])
  BY <1>1, <1>3, LoopOK DEF ReturnNext
<1> QED BY <1>2, <1>3

\* A step of job j that changes a token, a cycle or an owner.
LEMMA ChangeOK ==
  ASSUME IInv, NEW j \in Jobs, NEW o \in Ops, NEW p \in Pcs,
         NEW S \in SUBSET Cards, NEW rows \in [Cards -> Rows],
         NEW R \in SUBSET Cards, NEW T \in SUBSET Cards,
         NEW c \in Cards \cup {NoCard},
         Hold(j, o, p, S, rows, R, T, c), UNCHANGED <<row, sent, hist>>,
         token' \in [Cards -> {"active", "burned"}],
         cycle' \in [Cards -> {"redemption_requested", "minted", "redeemed"}],
         owner' \in [Cards -> {"user", "custody", "none"}], Later, RowsOK',
         JobOK(o, p, S, rows, R, c, token', owner', sent, lost),
         o \in Paying => InRefund(j), pc[j] # "save_usdc"
  PROVE  IInv'
<1>1. /\ DBTypes /\ ChainTypes /\ JobTypes /\ HistTypes /\ JobsOK /\ LockOK
      /\ CashOK
  BY Parts
<1>2. /\ row' = row /\ sent' = sent /\ used' = used /\ lost' = lost
      /\ faults' = faults
  BY DEF hist
<1>3. /\ JobTypes' /\ JobsOK' /\ LockOK'
      /\ \A k \in Jobs \ {j} : pc'[k] = pc[k]
  <2>1. JobOK(o, p, S, rows, R, c, token', owner', sent', lost')
    BY <1>2
  <2> QED BY <1>1, <1>2, <2>1, HoldOK
<1>4. TypeOK'
  BY <1>1, <1>2, <1>3 DEF TypeOK, DBTypes, ChainTypes, JobTypes, HistTypes
<1>5. CashOK'
  BY <1>1, <1>2, <1>3 DEF CashOK, Unrecorded, AllPaidBack
<1> QED BY <1>3, <1>4, <1>5 DEF IInv

LEMMA ReturnSendOK ==
  ASSUME IInv, NEW j \in Jobs, ReturnSend(j)
  PROVE  IInv'
<1> DEFINE rows == [c \in Cards |-> Returned(snap[j][c])]
<1>1. /\ DBTypes /\ ChainTypes /\ RowsOK /\ op[j] \in Ops
      /\ part[j] \in SUBSET Cards /\ snap[j] \in [Cards -> Rows]
      /\ rest[j] \in SUBSET Cards /\ at[j] \in Cards \cup {NoCard}
      /\ (op[j] \in Paying => InRefund(j)) /\ used \in Nat /\ faults \in Nat
      /\ JobOK(op[j], pc[j], part[j], snap[j], rest[j], at[j],
               token, owner, sent, lost)
  BY Parts
<1>2. pc[j] = "send_nft" /\ UNCHANGED <<db, sent, hist>>
  BY DEF ReturnSend
<1>3. at[j] \in Cards
  BY <1>1, <1>2 DEF JobOK, AtCard
<1>4. CASE owner[at[j]] = "custody"
  <2>1. /\ Hold(j, op[j], "save_nft", part[j], rows, rest[j], {}, at[j])
        /\ owner' = [owner EXCEPT ![at[j]] = "user"]
        /\ row' = row /\ token' = token /\ cycle' = cycle /\ sent' = sent
        /\ UNCHANGED hist
    BY <1>2, <1>4 DEF ReturnSend, WillSave, db
  <2>2. /\ rows \in [Cards -> Rows]
        /\ \A c \in Cards : rows[c].status \in Blocked =>
                              snap[j][c].status \in Blocked
    BY <1>1, ReturnedType
  <2> HIDE DEF rows
  <2>3. JobOK(op[j], "save_nft", part[j], rows, rest[j], at[j],
              token', owner', sent, lost)
    BY <1>1, <1>3, <2>1, <2>2 DEF JobOK, AtCard, Burning, Gone
  <2>4. Later /\ RowsOK'
    BY <1>1, <1>3, <1>4, <2>1 DEF Later, RowsOK, ChainTypes
  <2>5. /\ token' \in [Cards -> {"active", "burned"}]
        /\ cycle' \in [Cards -> {"redemption_requested", "minted", "redeemed"}]
        /\ owner' \in [Cards -> {"user", "custody", "none"}]
    BY <1>1, <2>1 DEF DBTypes, ChainTypes
  <2> QED BY <1>1, <1>2, <2>1, <2>2, <2>3, <2>4, <2>5, ChangeOK DEF Pcs
<1>5. CASE owner[at[j]] # "custody"
  <2>1. Throw(j) /\ UNCHANGED <<db, chain, lost>> /\ used' \in Nat /\ faults' \in Nat
    BY <1>1, <1>2, <1>5 DEF ReturnSend, chain, hist
  <2> QED BY <1>2, <2>1, ThrowOK
<1> QED BY <1>4, <1>5

LEMMA ConfirmCustodyOK ==
  ASSUME IInv, NEW j \in Slots, ConfirmCustody(j)
  PROVE  IInv'
<1> DEFINE pending == {c \in Cards : row[c].status = "ownership_verified"}
<1>1. j \in Jobs
  BY DEF Jobs
<1>2. /\ UNCHANGED <<db, chain, lost>> /\ used' \in Nat /\ faults' \in Nat
      /\ pc[j] # "save_usdc"
      /\ Hold(j, "custody", "custody", {}, NoRows, pending, {}, NoCard)
  BY <1>1, Parts, StartsOK DEF ConfirmCustody
<1>3. JobOK("custody", "custody", {}, NoRows, pending, NoCard,
            token, owner, sent, lost)
  BY EasyJob
<1>4. pending \in SUBSET Cards
  OBVIOUS
<1> HIDE DEF pending
<1> QED BY <1>1, <1>2, <1>3, <1>4, PaidRowType, MoveOK DEF Ops, Pcs, Paying

LEMMA LookAtOwnerOK ==
  ASSUME IInv, NEW j \in Jobs, NEW c \in Cards, LookAtOwner(j, c)
  PROVE  IInv'
<1>1. /\ UNCHANGED <<db, chain, lost>> /\ used' \in Nat /\ faults' \in Nat
      /\ pc[j] # "save_usdc" /\ rest[j] \ {c} \in SUBSET Cards
      /\ \/ Hold(j, "custody", "mark", {}, NoRows, rest[j] \ {c}, {}, c)
         \/ Stop(j)
  BY Parts DEF LookAtOwner, hist
<1>2. JobOK("custody", "mark", {}, NoRows, rest[j] \ {c}, c,
            token, owner, sent, lost)
  BY DEF JobOK, AtCard, Burning, Gone
<1>3. CASE Stop(j)
  BY <1>1, <1>3, StopOK
<1>4. CASE ~Stop(j)
  BY <1>1, <1>2, <1>4, PaidRowType, MoveOK DEF Ops, Pcs, Paying
<1> QED BY <1>3, <1>4

LEMMA MarkReadOK ==
  ASSUME IInv, NEW j \in Jobs, MarkRead(j)
  PROVE  IInv'
<1> DEFINE rows == [row EXCEPT ![at[j]].status = "in_custody",
                               ![at[j]].custody = TRUE]
<1>1. /\ op[j] \in Ops /\ rest[j] \in SUBSET Cards
      /\ at[j] \in Cards \cup {NoCard} /\ row \in [Cards -> Rows]
      /\ (op[j] \in Paying => InRefund(j)) /\ used \in Nat /\ faults \in Nat
      /\ JobOK(op[j], pc[j], part[j], snap[j], rest[j], at[j],
               token, owner, sent, lost)
  BY Parts
<1>2. /\ UNCHANGED <<db, chain, lost>> /\ used' = used /\ faults' = faults
      /\ pc[j] = "mark"
      /\ \/ Loop(j, "custody", rest[j])
         \/ Hold(j, op[j], "save_mark", {at[j]}, rows, rest[j], {}, at[j])
         \/ Stop(j)
  <2>1. CASE row[at[j]].status = "in_custody" /\ row[at[j]].custody
    BY <2>1 DEF MarkRead, hist
  <2>2. CASE row[at[j]].status = "ownership_verified"
    BY <2>2 DEF MarkRead, WillSave, hist
  <2>3. CASE ~(row[at[j]].status = "in_custody" /\ row[at[j]].custody)
             /\ row[at[j]].status # "ownership_verified"
    BY <2>3 DEF MarkRead, hist
  <2> QED BY <2>1, <2>2, <2>3
<1>3. at[j] \in Cards
  BY <1>1, <1>2 DEF JobOK, AtCard
<1>4. /\ rows \in [Cards -> Rows] /\ rows[at[j]].status \notin Blocked
  BY <1>1, <1>3 DEF Rows, Statuses, Blocked
<1> HIDE DEF rows
<1>5. JobOK(op[j], "save_mark", {at[j]}, rows, rest[j], at[j],
            token, owner, sent, lost)
  BY <1>3, <1>4 DEF JobOK, AtCard, Burning, Gone
<1>6. CASE Loop(j, "custody", rest[j])
  BY <1>1, <1>2, <1>6, LoopOK
<1>7. CASE Stop(j)
  BY <1>1, <1>2, <1>7, StopOK
<1>8. CASE Hold(j, op[j], "save_mark", {at[j]}, rows, rest[j], {}, at[j])
  BY <1>1, <1>2, <1>3, <1>4, <1>5, <1>8, MoveOK DEF Pcs
<1> QED BY <1>2, <1>6, <1>7, <1>8

LEMMA SaveMarkOK ==
  ASSUME IInv, NEW j \in Jobs, SaveMark(j)
  PROVE  IInv'
<1>1. /\ op[j] \in Ops /\ rest[j] \in SUBSET Cards
      /\ (op[j] \in Paying => InRefund(j))
  BY Parts
<1>2. JobOK(op[j], "custody", {}, NoRows, rest[j], NoCard,
            token, owner, sent, lost)
  BY EasyJob
<1>3. /\ Hold(j, op[j], "custody", {}, NoRows, rest[j], {}, NoCard)
      /\ Write(j) /\ UNCHANGED <<token, cycle, chain, used, faults>>
      /\ pc[j] # "save_usdc"
  BY DEF SaveMark, Loop
<1> QED BY <1>1, <1>2, <1>3, PaidRowType, SaveOK DEF Pcs

LEMMA CustodyDoneOK ==
  ASSUME IInv, NEW j \in Jobs, CustodyDone(j)
  PROVE  IInv'
BY Parts, StopOK DEF CustodyDone, hist

LEMMA ConfirmReceiptOK ==
  ASSUME IInv, NEW j \in Jobs, NEW R \in SUBSET Cards, Starts(j),
         Hold(j, "receipt", "burns", {}, NoRows, R, {}, NoCard),
         \A d \in Cards \ R : token[d] = "burned",
         UNCHANGED <<db, chain, lost, faults>>
  PROVE  IInv'
<1>1. /\ UNCHANGED <<db, chain, lost>> /\ used' \in Nat /\ faults' \in Nat
      /\ pc[j] # "save_usdc"
  BY Parts, StartsOK
<1>2. JobOK("receipt", "burns", {}, NoRows, R, NoCard, token, owner, sent, lost)
  BY DEF JobOK, AtCard, Burning, Gone
<1> QED BY <1>1, <1>2, PaidRowType, MoveOK DEF Ops, Pcs, Paying

LEMMA AutoConfirmOK ==
  ASSUME IInv, AutoConfirm
  PROVE  IInv'
<1>1. Poll \in Jobs
  BY DEF Jobs
<1>2. \A d \in Cards \ Incomplete(row) : token[d] = "burned"
  BY DEF IInv, RowsOK, Incomplete, Blocked
<1>3. Incomplete(row) \in SUBSET Cards
  BY DEF Incomplete
<1> QED BY <1>1, <1>2, <1>3, ConfirmReceiptOK DEF AutoConfirm

LEMMA AdminBurnOK ==
  ASSUME IInv, NEW j \in Slots, NEW c \in Cards, AdminBurn(j, c)
  PROVE  IInv'
<1>1. j \in Jobs
  BY DEF Jobs
<1>2. /\ UNCHANGED <<db, chain, lost>> /\ used' \in Nat /\ faults' \in Nat
      /\ pc[j] # "save_usdc"
      /\ Hold(j, "burn", "check", {}, NoRows, {}, {}, c)
  BY <1>1, Parts, StartsOK DEF AdminBurn
<1>3. JobOK("burn", "check", {}, NoRows, {}, c, token, owner, sent, lost)
  BY DEF JobOK, AtCard, Burning, Gone
<1> QED BY <1>1, <1>2, <1>3, PaidRowType, MoveOK DEF Ops, Pcs, Paying

LEMMA BurnNextOK ==
  ASSUME IInv, NEW j \in Jobs, NEW c \in Cards, BurnNext(j, c)
  PROVE  IInv'
<1>1. /\ UNCHANGED <<db, chain, lost>> /\ used' \in Nat /\ faults' \in Nat
      /\ pc[j] # "save_usdc" /\ rest[j] \ {c} \in SUBSET Cards
      /\ op[j] = "receipt" /\ \A d \in Cards \ rest[j] : token[d] = "burned"
  BY Parts DEF BurnNext, hist, JobOK
<1>2. CASE token[c] = "burned"
  <2>1. Loop(j, "burns", rest[j] \ {c})
    BY <1>2 DEF BurnNext
  <2> QED BY <1>1, <1>2, <2>1, LoopOK
<1>3. CASE token[c] # "burned"
  <2>1. Hold(j, op[j], "check", {}, NoRows, rest[j] \ {c}, {}, c)
    BY <1>3 DEF BurnNext
  <2>2. JobOK(op[j], "check", {}, NoRows, rest[j] \ {c}, c,
              token, owner, sent, lost)
    BY <1>1 DEF JobOK, AtCard, Burning, Gone
  <2> QED BY <1>1, <2>1, <2>2, PaidRowType, MoveOK DEF Ops, Pcs, Paying
<1> QED BY <1>2, <1>3

LEMMA CheckRedemptionOK ==
  ASSUME IInv, NEW j \in Jobs, CheckRedemption(j)
  PROVE  IInv'
<1>1. /\ UNCHANGED <<db, chain, lost>> /\ used' \in Nat /\ faults' \in Nat
      /\ pc[j] = "check"
      /\ JobOK(op[j], pc[j], part[j], snap[j], rest[j], at[j],
               token, owner, sent, lost)
      /\ GoTo(j, "burn") \/ Throw(j)
  BY Parts DEF CheckRedemption, hist
<1>2. JobOK(op[j], "burn", part[j], snap[j], rest[j], at[j],
            token, owner, sent, lost)
  BY <1>1 DEF JobOK, AtCard, Burning, Gone
<1>3. CASE Throw(j)
  BY <1>1, <1>3, ThrowOK
<1>4. CASE GoTo(j, "burn")
  BY <1>1, <1>2, <1>4, GoToOK DEF Pcs
<1> QED BY <1>1, <1>3, <1>4

LEMMA BurnOK ==
  ASSUME IInv, NEW j \in Jobs, Burn(j)
  PROVE  IInv'
<1>1. /\ DBTypes /\ ChainTypes /\ RowsOK /\ op[j] \in Ops
      /\ part[j] \in SUBSET Cards /\ snap[j] \in [Cards -> Rows]
      /\ rest[j] \in SUBSET Cards /\ todo[j] \in SUBSET Cards
      /\ at[j] \in Cards \cup {NoCard}
      /\ (op[j] \in Paying => InRefund(j)) /\ used \in Nat /\ faults \in Nat
      /\ JobOK(op[j], pc[j], part[j], snap[j], rest[j], at[j],
               token, owner, sent, lost)
  BY Parts
<1>2. pc[j] = "burn" /\ UNCHANGED <<db, sent, hist>>
  BY DEF Burn
<1>3. at[j] \in Cards
  BY <1>1, <1>2 DEF JobOK, Burning
<1>4. CASE owner[at[j]] = "custody"
  <2>1. /\ Hold(j, op[j], "record", part[j], snap[j], rest[j], todo[j], at[j])
        /\ owner' = [owner EXCEPT ![at[j]] = "none"]
        /\ row' = row /\ token' = token /\ cycle' = cycle /\ sent' = sent
        /\ UNCHANGED hist
    BY <1>2, <1>4 DEF Burn, GoTo, db
  <2>2. /\ token' \in [Cards -> {"active", "burned"}]
        /\ cycle' \in [Cards -> {"redemption_requested", "minted", "redeemed"}]
        /\ owner' \in [Cards -> {"user", "custody", "none"}]
        /\ owner'[at[j]] = "none"
    BY <1>1, <1>3, <2>1 DEF DBTypes, ChainTypes
  <2>3. JobOK(op[j], "record", part[j], snap[j], rest[j], at[j],
              token', owner', sent, lost)
    BY <1>1, <1>2, <1>3, <2>1, <2>2 DEF JobOK, AtCard, Burning, Gone
  <2>4. Later /\ RowsOK'
    BY <1>1, <1>3, <1>4, <2>1 DEF Later, RowsOK, ChainTypes
  <2> QED BY <1>1, <1>2, <2>1, <2>2, <2>3, <2>4, ChangeOK DEF Pcs
<1>5. CASE owner[at[j]] # "custody"
  <2>1. Throw(j) /\ UNCHANGED <<db, chain, lost>> /\ used' \in Nat /\ faults' \in Nat
    BY <1>1, <1>2, <1>5 DEF Burn, chain, hist
  <2> QED BY <1>2, <2>1, ThrowOK
<1> QED BY <1>4, <1>5

LEMMA RecordBurnOK ==
  ASSUME IInv, NEW j \in Jobs, RecordBurn(j)
  PROVE  IInv'
<1>1. /\ DBTypes /\ ChainTypes /\ RowsOK /\ op[j] \in Ops
      /\ part[j] \in SUBSET Cards /\ snap[j] \in [Cards -> Rows]
      /\ rest[j] \in SUBSET Cards /\ todo[j] \in SUBSET Cards
      /\ at[j] \in Cards \cup {NoCard} /\ (op[j] \in Paying => InRefund(j))
      /\ JobOK(op[j], pc[j], part[j], snap[j], rest[j], at[j],
               token, owner, sent, lost)
  BY Parts
<1>2. /\ pc[j] = "record" /\ token' = [token EXCEPT ![at[j]] = "burned"]
      /\ Hold(j, op[j], "redeem", part[j], snap[j], rest[j], todo[j], at[j])
      /\ row' = row /\ cycle' = cycle /\ owner' = owner /\ sent' = sent
      /\ UNCHANGED hist
  BY DEF RecordBurn, GoTo, chain
<1>3. at[j] \in Cards /\ owner[at[j]] = "none"
  BY <1>1, <1>2 DEF JobOK, Burning
<1>4. /\ token' \in [Cards -> {"active", "burned"}] /\ token'[at[j]] = "burned"
      /\ cycle' \in [Cards -> {"redemption_requested", "minted", "redeemed"}]
      /\ owner' \in [Cards -> {"user", "custody", "none"}]
  BY <1>1, <1>2, <1>3 DEF DBTypes, ChainTypes
<1>5. Later /\ RowsOK'
  BY <1>1, <1>2, <1>3 DEF Later, RowsOK, DBTypes
<1>6. JobOK(op[j], "redeem", part[j], snap[j], rest[j], at[j],
            token', owner', sent, lost)
  BY <1>1, <1>2, <1>3, <1>4, <1>5 DEF JobOK, AtCard, Burning, Gone, Later
<1> QED BY <1>1, <1>2, <1>4, <1>5, <1>6, ChangeOK DEF Pcs

LEMMA RedeemCycleOK ==
  ASSUME IInv, NEW j \in Jobs, RedeemCycle(j)
  PROVE  IInv'
<1>1. /\ DBTypes /\ ChainTypes /\ RowsOK /\ op[j] \in Ops
      /\ part[j] \in SUBSET Cards /\ snap[j] \in [Cards -> Rows]
      /\ rest[j] \in SUBSET Cards /\ todo[j] \in SUBSET Cards
      /\ at[j] \in Cards \cup {NoCard} /\ (op[j] \in Paying => InRefund(j))
      /\ JobOK(op[j], pc[j], part[j], snap[j], rest[j], at[j],
               token, owner, sent, lost)
  BY Parts
<1>2. /\ pc[j] = "redeem" /\ cycle' = [cycle EXCEPT ![at[j]] = "redeemed"]
      /\ Hold(j, op[j], "find", part[j], snap[j], rest[j], todo[j], at[j])
      /\ row' = row /\ token' = token /\ owner' = owner /\ sent' = sent
      /\ UNCHANGED hist
  BY DEF RedeemCycle, GoTo, chain
<1>3. at[j] \in Cards /\ token[at[j]] = "burned"
  BY <1>1, <1>2 DEF JobOK, Gone
<1>4. /\ token' \in [Cards -> {"active", "burned"}]
      /\ cycle' \in [Cards -> {"redemption_requested", "minted", "redeemed"}]
      /\ owner' \in [Cards -> {"user", "custody", "none"}]
  BY <1>1, <1>2 DEF DBTypes, ChainTypes
<1>5. Later /\ RowsOK'
  BY <1>1, <1>2, <1>3 DEF Later, RowsOK, DBTypes
<1>6. JobOK(op[j], "find", part[j], snap[j], rest[j], at[j],
            token', owner', sent, lost)
  BY <1>1, <1>2 DEF JobOK, AtCard, Burning, Gone
<1> QED BY <1>1, <1>2, <1>4, <1>5, <1>6, ChangeOK DEF Pcs

\* What a job knows after a burn, whichever way it goes on.
LEMMA AfterBurnKnows ==
  ASSUME IInv, NEW j \in Jobs, pc[j] \in {"find", "save_burn"}
  PROVE  /\ at[j] \in Cards /\ token[at[j]] = "burned"
         /\ op[j] \in {"receipt", "burn"}
         /\ op[j] # "burn" => /\ op[j] = "receipt"
                              /\ \A d \in Cards \ rest[j] : token[d] = "burned"
<1>1. JobOK(op[j], pc[j], part[j], snap[j], rest[j], at[j],
            token, owner, sent, lost)
  BY Parts
<1>2. /\ at[j] \in Cards /\ token[at[j]] = "burned"
      /\ op[j] \in {"receipt", "burn"}
  BY <1>1 DEF JobOK, Gone
<1>3. ASSUME op[j] = "receipt", NEW d \in Cards \ rest[j]
      PROVE  token[d] = "burned"
  BY <1>1, <1>2, <1>3 DEF JobOK, Gone
<1> QED BY <1>2, <1>3

LEMMA FindRedemptionOK ==
  ASSUME IInv, NEW j \in Jobs, FindRedemption(j)
  PROVE  IInv'
<1> DEFINE rows == [row EXCEPT ![at[j]] = Burned(@)]
<1>1. /\ op[j] \in Ops /\ rest[j] \in SUBSET Cards /\ row \in [Cards -> Rows]
      /\ (op[j] \in Paying => InRefund(j))
      /\ JobOK(op[j], pc[j], part[j], snap[j], rest[j], at[j],
               token, owner, sent, lost)
  BY Parts
<1>2. /\ UNCHANGED <<db, chain, lost>> /\ used' \in Nat /\ faults' \in Nat
      /\ pc[j] = "find"
      /\ \/ AfterBurn(j)
         \/ Hold(j, op[j], "save_burn", {at[j]}, rows, rest[j], {}, at[j])
  BY Parts DEF FindRedemption, WillSave, hist
<1>3. /\ at[j] \in Cards /\ token[at[j]] = "burned"
      /\ op[j] # "burn" => /\ op[j] = "receipt"
                           /\ \A d \in Cards \ rest[j] : token[d] = "burned"
  BY <1>2, AfterBurnKnows
<1>4. rows \in [Cards -> Rows]
  BY <1>1, <1>3, BurnedType
<1> HIDE DEF rows
<1>5. JobOK(op[j], "save_burn", {at[j]}, rows, rest[j], at[j],
            token, owner, sent, lost)
  BY <1>1, <1>2, <1>3 DEF JobOK, AtCard, Burning, Gone
<1>6. CASE AfterBurn(j)
  BY <1>1, <1>2, <1>3, <1>6, StopOK, LoopOK DEF AfterBurn
<1>7. CASE Hold(j, op[j], "save_burn", {at[j]}, rows, rest[j], {}, at[j])
  BY <1>1, <1>2, <1>3, <1>4, <1>5, <1>7, MoveOK DEF Pcs
<1> QED BY <1>2, <1>6, <1>7

LEMMA SaveBurnedOK ==
  ASSUME IInv, NEW j \in Jobs, SaveBurned(j)
  PROVE  IInv'
<1>1. op[j] \in Ops /\ rest[j] \in SUBSET Cards /\ (op[j] \in Paying => InRefund(j))
  BY Parts
<1>2. /\ Write(j) /\ UNCHANGED <<token, cycle, chain, used, faults>>
      /\ pc[j] = "save_burn" /\ AfterBurn(j)
  BY DEF SaveBurned
<1>3. CASE op[j] = "burn"
  <2>1. Hold(j, "none", "idle", {}, NoRows, {}, {}, NoCard)
    BY <1>2, <1>3 DEF AfterBurn, Stop
  <2>2. JobOK("none", "idle", {}, NoRows, {}, NoCard, token, owner, sent, lost)
    BY EasyJob
  <2> QED BY <1>2, <2>1, <2>2, PaidRowType, SaveOK DEF Ops, Pcs, Paying
<1>4. CASE op[j] # "burn"
  <2>1. Hold(j, op[j], "burns", {}, NoRows, rest[j], {}, NoCard)
    BY <1>2, <1>4 DEF AfterBurn, Loop
  <2>2. JobOK(op[j], "burns", {}, NoRows, rest[j], NoCard,
              token, owner, sent, lost)
    BY <1>2, <1>4, AfterBurnKnows DEF JobOK, AtCard, Burning, Gone
  <2> QED BY <1>1, <1>2, <2>1, <2>2, PaidRowType, SaveOK DEF Pcs
<1> QED BY <1>3, <1>4

LEMMA BurnsDoneOK ==
  ASSUME IInv, NEW j \in Jobs, BurnsDone(j)
  PROVE  IInv'
<1>1. /\ UNCHANGED <<db, chain, lost>> /\ used' \in Nat /\ faults' \in Nat
      /\ pc[j] = "burns" /\ rest[j] = {} /\ GoTo(j, "reload")
      /\ JobOK(op[j], pc[j], part[j], snap[j], rest[j], at[j],
               token, owner, sent, lost)
  BY Parts DEF BurnsDone, hist
<1>2. JobOK(op[j], "reload", part[j], snap[j], rest[j], at[j],
            token, owner, sent, lost)
  BY <1>1 DEF JobOK, AtCard, Burning, Gone
<1> QED BY <1>1, <1>2, GoToOK DEF Pcs

LEMMA ReloadOK ==
  ASSUME IInv, NEW j \in Jobs, Reload(j)
  PROVE  IInv'
<1> DEFINE S == IF Incomplete(row) = {} THEN Cards ELSE Incomplete(row)
           rows == [c \in Cards |-> Completed(row[c])]
<1>1. /\ op[j] \in Ops /\ rest[j] \in SUBSET Cards
      /\ at[j] \in Cards \cup {NoCard} /\ row \in [Cards -> Rows]
      /\ (op[j] \in Paying => InRefund(j))
      /\ JobOK(op[j], pc[j], part[j], snap[j], rest[j], at[j],
               token, owner, sent, lost)
  BY Parts
<1>2. /\ UNCHANGED <<db, chain, lost>> /\ used' \in Nat /\ faults' \in Nat
      /\ pc[j] = "reload"
      /\ Hold(j, op[j], "edit", S, rows, rest[j], {}, at[j])
  BY Parts DEF Reload, WillSave, hist
<1>3. \A d \in Cards : token[d] = "burned"
  BY <1>1, <1>2 DEF JobOK
<1>4. S \in SUBSET Cards /\ rows \in [Cards -> Rows]
  BY <1>1, BurnedType DEF Incomplete
<1> HIDE DEF S, rows
<1>5. JobOK(op[j], "edit", S, rows, rest[j], at[j], token, owner, sent, lost)
  BY <1>3, <1>4 DEF JobOK, AtCard, Burning, Gone
<1> QED BY <1>1, <1>2, <1>4, <1>5, MoveOK DEF Pcs

-----------------------------------------------------------------------------
(* Outside the handlers                                                    *)

LEMMA OutsideOK ==
  ASSUME IInv, UNCHANGED <<row, cycle, sent, jobs, hist>>,
         token' \in [Cards -> {"active", "burned"}],
         owner' \in [Cards -> {"user", "custody", "none"}], Later, RowsOK'
  PROVE  IInv'
<1>1. TypeOK /\ JobsOK /\ LockOK /\ CashOK /\ JobTypes
  BY TypesSplit DEF IInv
<1>2. /\ row' = row /\ cycle' = cycle /\ sent' = sent
      /\ op' = op /\ pc' = pc /\ snap' = snap /\ part' = part /\ rest' = rest
      /\ todo' = todo /\ at' = at /\ used' = used /\ lost' = lost
      /\ faults' = faults
  BY DEF jobs, hist
<1>3. TypeOK'
  BY <1>1, <1>2 DEF TypeOK
<1>4. JobsOK'
  <2>1. ASSUME NEW j \in Jobs
        PROVE  JobOK(op[j], pc[j], part[j], snap[j], rest[j], at[j],
                     token', owner', sent', lost')
    <3>1. /\ part[j] \in SUBSET Cards
          /\ JobOK(op[j], pc[j], part[j], snap[j], rest[j], at[j],
                   token, owner, sent, lost)
      BY <1>1 DEF JobTypes, JobsOK
    <3> QED BY <1>2, <3>1, OtherJob
  <2> QED BY <1>2, <2>1 DEF JobsOK
<1>5. LockOK' /\ CashOK'
  BY <1>1, <1>2 DEF LockOK, InRefund, CashOK, Unrecorded, AllPaidBack
<1> QED BY <1>3, <1>4, <1>5 DEF IInv

LEMMA UserTransfersOK ==
  ASSUME IInv, NEW c \in Cards, UserTransfers(c)
  PROVE  IInv'
<1>1. TypeOK /\ RowsOK
  BY DEF IInv
<1>2. /\ owner[c] = "user" /\ owner' = [owner EXCEPT ![c] = "custody"]
      /\ row' = row /\ token' = token /\ cycle' = cycle
      /\ UNCHANGED <<row, cycle, sent, jobs, hist>>
  BY DEF UserTransfers, db
<1>3. Later /\ RowsOK'
  BY <1>1, <1>2 DEF TypeOK, Later, RowsOK
<1> QED BY <1>1, <1>2, <1>3, OutsideOK DEF TypeOK

LEMMA ObserveBurnOK ==
  ASSUME IInv, NEW c \in Cards, ObserveBurn(c)
  PROVE  IInv'
<1>1. TypeOK /\ RowsOK
  BY DEF IInv
<1>2. /\ owner[c] = "none" /\ token' = [token EXCEPT ![c] = "burned"]
      /\ owner' = owner /\ row' = row /\ cycle' = cycle
      /\ UNCHANGED <<row, cycle, sent, jobs, hist>>
  BY DEF ObserveBurn, chain
<1>3. Later /\ RowsOK'
  BY <1>1, <1>2 DEF TypeOK, Later, RowsOK
<1> QED BY <1>1, <1>2, <1>3, OutsideOK DEF TypeOK

LEMMA FailOK ==
  ASSUME IInv, NEW j \in Jobs, Fail(j)
  PROVE  IInv'
<1>1. /\ DBTypes /\ ChainTypes /\ JobTypes /\ HistTypes /\ JobsOK /\ LockOK
      /\ RowsOK /\ CashOK /\ sent \in Nat /\ lost \in Nat
      /\ faults \in Nat /\ used \in Nat
      /\ JobOK(op[j], pc[j], part[j], snap[j], rest[j], at[j],
               token, owner, sent, lost)
  BY Parts
<1>2. /\ Throw(j) /\ used' = used /\ UNCHANGED <<db, chain>>
      /\ faults' \in Nat
  BY <1>1 DEF Fail
<1>3. CASE pc[j] # "save_usdc"
  <2>1. lost' = lost
    BY <1>3 DEF Fail, Unrecorded
  <2> QED BY <1>1, <1>2, <1>3, <2>1, ThrowOK
<1>4. CASE pc[j] = "save_usdc"
  <2>1. lost' = lost + 1
    BY <1>4 DEF Fail, Unrecorded
  <2>2. Hold(j, "none", "idle", {}, NoRows, {}, {}, NoCard)
    BY <1>1, <1>2, <1>4 DEF JobOK, Throw, Stop, Paying
  <2>3. JobOK("none", "idle", {}, NoRows, {}, NoCard,
              token', owner', sent', lost')
    BY EasyJob
  <2>4. /\ row' = row /\ token' = token /\ cycle' = cycle /\ owner' = owner
        /\ sent' = sent
    BY <1>2 DEF db, chain
  <2>5. Later
    BY <2>4 DEF Later
  <2>6. sent <= lost => sent <= lost'
    BY <1>1, <2>1
  <2>7. /\ JobTypes' /\ JobsOK' /\ LockOK'
    BY <1>1, <2>2, <2>3, <2>4, <2>5, <2>6, PaidRowType, HoldOK
       DEF Ops, Pcs, Paying
  <2>8. TypeOK'
    BY <1>1, <1>2, <2>1, <2>4, <2>7
       DEF TypeOK, DBTypes, ChainTypes, JobTypes, HistTypes
  <2>9. RowsOK'
    BY <1>1, <2>4 DEF RowsOK
  <2>10. CashOK'
    BY <1>1, <2>1, <2>4 DEF CashOK
  <2> QED BY <2>7, <2>8, <2>9, <2>10 DEF IInv
<1> QED BY <1>3, <1>4

LEMMA CrashOK ==
  ASSUME IInv, Crash
  PROVE  IInv'
<1>1. TypeOK /\ RowsOK /\ CashOK
  BY DEF IInv
<1>2. /\ row' = row /\ token' = token /\ cycle' = cycle /\ owner' = owner
      /\ sent' = sent /\ used' = used /\ faults' = faults + 1
      /\ lost' = IF Unrecorded # {} THEN lost + 1 ELSE lost
      /\ op'   = [j \in Jobs |-> "none"]
      /\ pc'   = [j \in Jobs |-> "idle"]
      /\ snap' = [j \in Jobs |-> NoRows]
      /\ part' = [j \in Jobs |-> {}]
      /\ rest' = [j \in Jobs |-> {}]
      /\ todo' = [j \in Jobs |-> {}]
      /\ at'   = [j \in Jobs |-> NoCard]
  BY DEF Crash, db, chain
<1>3. TypeOK'
  BY <1>1, <1>2, PaidRowType DEF TypeOK, Ops, Pcs
<1>4. JobsOK'
  BY <1>2, EasyJob DEF JobsOK
<1>5. LockOK' /\ RowsOK'
  BY <1>1, <1>2 DEF LockOK, InRefund, RowsOK
<1>6. CashOK'
  BY <1>1, <1>2 DEF CashOK, TypeOK, AllPaidBack
<1> QED BY <1>3, <1>4, <1>5, <1>6 DEF IInv

LEMMA RequestOK ==
  ASSUME IInv, NEW j \in Slots, Request(j)
  PROVE  IInv'
<1>0. j \in Jobs
  BY DEF Jobs
<1>1. CASE \E S \in SUBSET Cards : UpdateMemo(j, S) \/ UpdateTracking(j, S)
  BY <1>1, UpdateMemoOK, UpdateTrackingOK
<1>2. CASE \E c \in Cards : \/ ConfirmVaultRelease(j, c)
                            \/ ReturnNft(j, c)
                            \/ AdminBurn(j, c)
  BY <1>2, ConfirmVaultReleaseOK, ReturnNftOK, AdminBurnOK
<1>3. CASE \E o \in {"usdc", "full"} : RefundRead(j, o)
  BY <1>3, RefundReadOK
<1>4. CASE ConfirmCustody(j)
  BY <1>4, ConfirmCustodyOK
<1>5. CASE ConfirmReceipt(j)
  <2>1. /\ Starts(j) /\ UNCHANGED <<db, chain, lost, faults>>
        /\ Hold(j, "receipt", "burns", {}, NoRows, Cards, {}, NoCard)
    BY <1>5 DEF ConfirmReceipt
  <2>2. \A d \in Cards \ Cards : token[d] = "burned"
    OBVIOUS
  <2>3. Cards \in SUBSET Cards
    OBVIOUS
  <2> QED BY <1>0, <2>1, <2>2, <2>3, ConfirmReceiptOK
<1> QED BY <1>1, <1>2, <1>3, <1>4, <1>5 DEF Request

LEMMA ProceedOK ==
  ASSUME IInv, NEW j \in Jobs, Proceed(j)
  PROVE  IInv'
<1>1. CASE \/ SaveEdit(j) \/ RefundSend(j) \/ SaveRefund(j) \/ FindCycles(j)
           \/ ResetDone(j) \/ ListReturns(j) \/ ReturnsDone(j) \/ ReturnSend(j)
  BY <1>1, SaveEditOK, RefundSendOK, SaveRefundOK, FindCyclesOK, ResetDoneOK,
     ListReturnsOK, ReturnSendOK
<1>2. CASE \/ MarkRead(j) \/ SaveMark(j) \/ CustodyDone(j)
           \/ CheckRedemption(j) \/ Burn(j) \/ RecordBurn(j) \/ RedeemCycle(j)
           \/ FindRedemption(j) \/ SaveBurned(j) \/ BurnsDone(j) \/ Reload(j)
  BY <1>2, MarkReadOK, SaveMarkOK, CustodyDoneOK, CheckRedemptionOK, BurnOK,
     RecordBurnOK, RedeemCycleOK, FindRedemptionOK, SaveBurnedOK, BurnsDoneOK,
     ReloadOK
<1>3. CASE \E c \in Cards : \/ ResetCycle(j, c) \/ ReturnNext(j, c)
                            \/ LookAtOwner(j, c) \/ BurnNext(j, c)
  BY <1>3, ResetCycleOK, ReturnNextOK, LookAtOwnerOK, BurnNextOK
<1> QED BY <1>1, <1>2, <1>3 DEF Proceed

LEMMA StutterOK ==
  ASSUME IInv, UNCHANGED vars
  PROVE  IInv'
<1>1. UNCHANGED <<row, cycle, sent, jobs, hist>> /\ token' = token /\ owner' = owner
  BY DEF vars, db, chain
<1>2. TypeOK /\ RowsOK
  BY DEF IInv
<1>3. row' = row /\ cycle' = cycle
  BY <1>1
<1>4. Later /\ RowsOK'
  BY <1>1, <1>2, <1>3 DEF Later, RowsOK
<1> QED BY <1>1, <1>2, <1>4, OutsideOK DEF TypeOK

LEMMA NextOK == IInv /\ [Next]_vars => IInv'
<1> SUFFICES ASSUME IInv, [Next]_vars PROVE IInv'
  OBVIOUS
<1>1. CASE \E j \in Slots : Request(j)
  BY <1>1, RequestOK
<1>2. CASE Cron
  BY <1>2, AutoConfirmOK, StampDeliveredOK DEF Cron
<1>3. CASE \E j \in Jobs : Proceed(j) \/ Fail(j)
  BY <1>3, ProceedOK, FailOK
<1>4. CASE Crash
  BY <1>4, CrashOK
<1>5. CASE \E c \in Cards : UserTransfers(c) \/ ObserveBurn(c)
  BY <1>5, UserTransfersOK, ObserveBurnOK
<1>6. CASE UNCHANGED vars
  BY <1>6, StutterOK
<1> QED BY <1>1, <1>2, <1>3, <1>4, <1>5, <1>6 DEF Next

-----------------------------------------------------------------------------
(* The theorems                                                            *)

\* The invariant holds throughout, for any number of cards, requests and
\* failures, with the owner index on or off: what every handler of the batch
\* knows at each of its awaits is still true there.
THEOREM Invariant == Spec => []IInv
BY InitOK, NextOK, PTL DEF Spec

\* Rows, tokens, cycles and jobs keep their types in every handler.
THEOREM TypeCorrect == Spec => []TypeOK
<1>1. IInv => TypeOK
  BY DEF IInv
<1> QED BY <1>1, Invariant, PTL

\* completeRedemptionBurn and finalizeReceiptWithBurn under the stale saves of
\* every other handler: a row is "burned" or "completed", in the table or in
\* the hands of a job, only when its token is recorded as burned, and a token
\* recorded as burned or a redeemed cycle is gone on chain.
THEOREM FinishedCardsBurned == Spec => []FinishedCardsAreBurned
<1>1. IInv => FinishedCardsAreBurned
  <2> SUFFICES ASSUME IInv PROVE FinishedCardsAreBurned
    OBVIOUS
  <2>1. JobsOK /\ RowsOK
    BY DEF IInv
  <2>2. ASSUME NEW j \in Jobs, NEW c \in part[j], snap[j][c].status \in Blocked
        PROVE  token[c] = "burned"
    BY <2>1, <2>2 DEF JobsOK, JobOK
  <2> QED BY <2>1, <2>2 DEF FinishedCardsAreBurned, RowsOK
<1> QED BY <1>1, Invariant, PTL

\* refundUsdcBatch under withBatchLock: the USDC of the batch is sent once, and
\* once more at most for every time its record was lost to a crash, a failed
\* call or a stale save.
THEOREM RefundsAreAccounted == Spec => []RefundsAccounted
<1>1. IInv => RefundsAccounted
  BY DEF IInv, TypeOK, CashOK, RefundsAccounted
<1> QED BY <1>1, Invariant, PTL
=============================================================================
