----------------------------- MODULE SealedBox -----------------------------
(***************************************************************************)
(* SealedBoxMintService.mintForPartner: the mint of one sealed box, under  *)
(* the client's request id.  The client may send the request again at any  *)
(* time: every attempt works on its own copy of the row and saves all of   *)
(* it.                                                                     *)
(*                                                                         *)
(* Transactions are numbered; the token of a mined transaction carries its *)
(* number.                                                                 *)
(***************************************************************************)
EXTENDS Naturals, Sequences

CONSTANTS
  Attempts,      \* mintForPartner calls in flight with the request id
  MaxAttempts,   \* bound on the calls
  MaxBoxFaults   \* bound on failing calls and restarts

ASSUME BoxAssumption == MaxAttempts \in Nat /\ MaxBoxFaults \in Nat

VARIABLES
  boxRow,      \* sealed_box_mints: status, mint_tx_hash, token_id (0: null)
  boxTx,       \* the chain: transactions sent, mined, reverted
  registered,  \* tokens with a rwa_tokens row
  attempt,     \* place of an attempt, and its copy of the row
  overlapped,  \* history: two attempts were past the claim together,
  unsaved,     \*   a transaction was sent and its hash not saved,
  resent,      \*   a rate-limited wait sent it again,
  attempts,    \*   calls
  boxFaults    \*   and failures so far

boxHistory == <<overlapped, unsaved, resent>>
boxVars == <<boxRow, boxTx, registered, attempt, boxHistory, attempts, boxFaults>>

NoRow == [status |-> "none", hash |-> 0, token |-> 0]
Away  == [pc |-> "idle", row |-> NoRow]

BoxInit ==
  /\ boxRow = NoRow /\ boxTx = << >> /\ registered = {}
  /\ attempt = [a \in Attempts |-> Away]
  /\ overlapped = FALSE /\ unsaved = FALSE /\ resent = FALSE
  /\ attempts = 0 /\ boxFaults = 0

\* Places between the claim and the end of the try block.
InTryBlock == {"photo", "minting", "send", "resend", "submitted", "wait",
               "token", "registry", "minted"}

Moves(a, pc, row) == attempt' = [attempt EXCEPT ![a] = [pc |-> pc, row |-> row]]
-----------------------------------------------------------------------------
FreeAttempt == CHOOSE a \in Attempts : attempt[a].pc = "idle"

BeginAttempt(a) ==
  /\ attempt[a].pc = "idle" /\ a = FreeAttempt
  /\ attempts < MaxAttempts
  /\ attempts' = attempts + 1
  /\ Moves(a, "claim", NoRow)
  /\ UNCHANGED <<boxRow, boxTx, registered, boxHistory, boxFaults>>

\* reuse: nothing has been sent for the request.
Fresh(row) == row.status # "minted" /\ row.token = 0 /\ row.hash = 0

\* claimRow: insert, or read what the unique request id has.
ClaimRow(a) ==
  LET row == IF Fresh(boxRow) THEN [NoRow EXCEPT !.status = "pending"]
                              ELSE boxRow IN
  /\ attempt[a].pc = "claim"
  /\ boxRow' = IF boxRow.status = "none" THEN row ELSE boxRow
  /\ IF row.status = "minted"                         \* the result again
     THEN attempt' = [attempt EXCEPT ![a] = Away] /\ UNCHANGED overlapped
     ELSE IF row.token # 0                            \* only the registry
     THEN Moves(a, "rewrite", row) /\ UNCHANGED overlapped
     ELSE IF row.status = "minting" /\ row.hash # 0   \* 409
     THEN attempt' = [attempt EXCEPT ![a] = Away] /\ UNCHANGED overlapped
     ELSE /\ Moves(a, "photo", row)
          /\ overlapped' = (overlapped \/ \E b \in Attempts :
                              attempt[b].pc \in InTryBlock \cup {"fail"})
  /\ UNCHANGED <<boxTx, registered, unsaved, resent, attempts, boxFaults>>

Saves(a, pc, row) ==
  /\ boxRow' = row
  /\ IF pc = "idle" THEN attempt' = [attempt EXCEPT ![a] = Away]
                    ELSE Moves(a, pc, row)

\* The row is saved with the photo, again with the token URI, ...
SavePhoto(a) ==
  /\ attempt[a].pc = "photo"
  /\ Saves(a, "minting", attempt[a].row)
  /\ UNCHANGED <<boxTx, registered, boxHistory, attempts, boxFaults>>

\* ... and as "minting".
SaveMinting(a) ==
  /\ attempt[a].pc = "minting"
  /\ Saves(a, "send", [attempt[a].row EXCEPT !.status = "minting"])
  /\ UNCHANGED <<boxTx, registered, boxHistory, attempts, boxFaults>>

\* mintTo holds the signer's lock from the broadcast to the receipt.
SendMint(a) ==
  LET n == Len(boxTx) + 1 IN
  /\ attempt[a].pc \in {"send", "resend"}
  /\ \A b \in Attempts \ {a} : attempt[b].pc \notin {"resend", "submitted", "wait"}
  /\ boxTx' = Append(boxTx, "sent")
  /\ Moves(a, "submitted", [attempt[a].row EXCEPT !.hash = n])
  /\ UNCHANGED <<boxRow, registered, boxHistory, attempts, boxFaults>>

\* onSubmitted
SaveHash(a) ==
  /\ attempt[a].pc = "submitted"
  /\ Saves(a, "wait", attempt[a].row)
  /\ UNCHANGED <<boxTx, registered, boxHistory, attempts, boxFaults>>

\* The chain.
Settle(n, how) ==
  /\ n \in DOMAIN boxTx /\ boxTx[n] = "sent"
  /\ boxTx' = [boxTx EXCEPT ![n] = how]
  /\ UNCHANGED <<boxRow, registered, attempt, boxHistory, attempts, boxFaults>>

\* tx.wait: a receipt, or an error of a reverted transaction.
AwaitReceipt(a) ==
  LET row == attempt[a].row IN
  /\ attempt[a].pc = "wait"
  /\ \/ /\ boxTx[row.hash] = "mined"
        /\ Moves(a, "token", [row EXCEPT !.token = row.hash])
     \/ boxTx[row.hash] = "reverted" /\ Moves(a, "fail", row)
  /\ UNCHANGED <<boxRow, boxTx, registered, boxHistory, attempts, boxFaults>>

\* A 429 while waiting: withRpcRateLimitRetry runs the broadcast again.
Throttled(a) ==
  /\ attempt[a].pc = "wait" /\ boxFaults < MaxBoxFaults
  /\ boxFaults' = boxFaults + 1
  /\ Moves(a, "resend", attempt[a].row)
  /\ resent' = TRUE
  /\ UNCHANGED <<boxRow, boxTx, registered, overlapped, unsaved, attempts>>

SaveToken(a) ==
  /\ attempt[a].pc = "token"
  /\ Saves(a, "registry", attempt[a].row)
  /\ UNCHANGED <<boxTx, registered, boxHistory, attempts, boxFaults>>

\* Bug: the registry is left to the transfer listener.
NotWritten(row) == {}

Written(row) == {row.token}

\* writeRegistry, of an attempt's own mint or of an earlier one's.
WriteRegistry(a) ==
  LET row == attempt[a].row IN
  /\ attempt[a].pc \in {"registry", "rewrite"}
  /\ registered' = registered \cup Written(row)
  /\ Moves(a, IF attempt[a].pc = "registry" THEN "minted" ELSE "resave", row)
  /\ UNCHANGED <<boxRow, boxTx, boxHistory, attempts, boxFaults>>

SaveMinted(a) ==
  /\ attempt[a].pc \in {"minted", "resave"}
  /\ Saves(a, "idle", [attempt[a].row EXCEPT !.status = "minted"])
  /\ UNCHANGED <<boxTx, registered, boxHistory, attempts, boxFaults>>

\* Bug: every error is a failure the client may retry.
AlwaysFailed(row) == "failed"

\* fail: what was sent stays "minting".
FailedStatus(row) == IF row.hash # 0 THEN "minting" ELSE "failed"

SaveFailed(a) ==
  LET row == attempt[a].row IN
  /\ attempt[a].pc = "fail"
  /\ Saves(a, "idle", [row EXCEPT !.status = FailedStatus(row)])
  /\ UNCHANGED <<boxTx, registered, boxHistory, attempts, boxFaults>>

\* The attempt has a hash the row does not show.
OnlyInMemory(a) == attempt[a].row.hash # 0 /\ boxRow.hash # attempt[a].row.hash

AttemptFails(a) ==
  /\ attempt[a].pc # "idle" /\ boxFaults < MaxBoxFaults
  /\ boxFaults' = boxFaults + 1
  /\ IF attempt[a].pc \in InTryBlock
     THEN Moves(a, "fail", attempt[a].row) /\ UNCHANGED unsaved
     ELSE /\ attempt' = [attempt EXCEPT ![a] = Away]
          /\ unsaved' = (unsaved \/ OnlyInMemory(a))
  /\ UNCHANGED <<boxRow, boxTx, registered, overlapped, resent, attempts>>

BoxRestart ==
  /\ boxFaults < MaxBoxFaults
  /\ boxFaults' = boxFaults + 1
  /\ attempt' = [a \in Attempts |-> Away]
  /\ unsaved' = (unsaved \/ \E a \in Attempts : OnlyInMemory(a))
  /\ UNCHANGED <<boxRow, boxTx, registered, overlapped, resent, attempts>>

BoxNext ==
  \/ \E a \in Attempts :
       \/ BeginAttempt(a) \/ ClaimRow(a) \/ SavePhoto(a) \/ SaveMinting(a)
       \/ SendMint(a) \/ SaveHash(a) \/ AwaitReceipt(a) \/ Throttled(a)
       \/ SaveToken(a)
       \/ WriteRegistry(a) \/ SaveMinted(a) \/ SaveFailed(a) \/ AttemptFails(a)
  \/ \E n \in DOMAIN boxTx : Settle(n, "mined") \/ Settle(n, "reverted")
  \/ BoxRestart

BoxSpec == BoxInit /\ [][BoxNext]_boxVars
-----------------------------------------------------------------------------
(* Properties                                                              *)

BoxRows == [status : {"none", "pending", "minting", "minted", "failed"},
            hash : Nat, token : Nat]

Places == {"idle", "claim", "rewrite", "resave", "fail"} \cup InTryBlock

BoxTypeOK ==
  /\ boxRow \in BoxRows
  /\ boxTx \in Seq({"sent", "mined", "reverted"})
  /\ registered \in SUBSET Nat
  /\ attempt \in [Attempts -> [pc : Places, row : BoxRows]]
  /\ overlapped \in BOOLEAN /\ unsaved \in BOOLEAN /\ resent \in BOOLEAN
  /\ attempts \in Nat /\ boxFaults \in Nat

\* A request id is sent to the chain once, however often the client retries,
\* except when two attempts overlap, the hash could not be saved, or the RPC
\* provider throttled the wait for the receipt.
OneMintPerRequest == Len(boxTx) > 1 => overlapped \/ unsaved \/ resent

\* A "minted" row names one mint: its hash, the token of that hash, which the
\* chain has mined and the registry lists - also when attempts overlap.
MintedRowTruthful ==
  boxRow.status = "minted" =>
    /\ boxRow.token = boxRow.hash /\ boxRow.token \in registered
    /\ boxTx[boxRow.token] = "mined"
=============================================================================
