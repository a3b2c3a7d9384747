----------------------------- MODULE VaultMint -----------------------------
(***************************************************************************)
(* Minting one physical card on one chain: the reservation of a vault      *)
(* cycle, the mint on chain and the registry row (RwaMintService           *)
(* .mintForUser, VaultService), with the recovery that heals cycles left   *)
(* in `minting` (VaultMintRecoveryService, the cron and the interactive    *)
(* check that runs before every mint and availability request).            *)
(*                                                                         *)
(* Each VaultService method reads the cycle row, checks its status and     *)
(* saves the row it read: the save may overwrite what another handler      *)
(* stored in between.  A job is one handler in flight, standing at its     *)
(* next database or chain call.                                            *)
(***************************************************************************)
EXTENDS Naturals, FiniteSets

CONSTANTS
  Slots,      \* requests that may be in flight together
  Cron,       \* recoverPass: one at a time (its running flag)
  MaxCycles,  \* bound on the cycles ever reserved
  MaxFaults   \* bound on restarts, failing calls and rate-limited waits

ASSUME CronAssumption  == Cron \notin Slots
ASSUME BoundAssumption == MaxCycles \in Nat /\ MaxFaults \in Nat

Jobs   == Slots \cup {Cron}
Cycles == 1..MaxCycles
Txs    == 1..(MaxCycles + MaxFaults)  \* mint transactions, and their tokens
None   == 0                           \* no cycle, transaction or token

Statuses == {"none", "deposit_verified", "minting", "minted", "cancelled"}
Open     == {"deposit_verified", "minting", "minted"}
Rows     == [status : Statuses, txHash : Txs \cup {None},
             tokenId : Txs \cup {None}]
Row(s)   == [status |-> s, txHash |-> None, tokenId |-> None]

VARIABLES
  cycle,    \* vault_cycles of the card: status and mint_attempt
  age,      \* time since updated_at: 0 fresh, 1 past the interactive limits,
            \* 2 past STALE_NO_CHAIN_MS
  registry, \* rwa_tokens: the vault_cycle_id of each token
  tx,       \* the chain: the mint transactions
  op,       \* jobs: the handler each one runs,
  pc,       \* the call it stands at,
  at,       \* its cycle,
  snap,     \* the row it read or will save,
  seen,     \* the age of that row,
  token,    \* and the transaction whose token it is to record
  mintOf,   \* history: the cycle each transaction minted for,
  spoiled,  \* cycles ever cancelled, or refused by the registry,
  torn,     \* cycles whose registry write was cut off,
  gaps,     \* failures while a token was on no record,
  faults    \* and failures in all

db   == <<cycle, age, registry>>
jobs == <<op, pc, at, snap, seen, token>>
hist == <<mintOf, spoiled, torn, gaps, faults>>
vars == <<db, tx, jobs, hist>>

Pcs == {"idle", "heal", "cancel", "save_cancel", "reserve", "begin",
        "save_begin", "mint", "send", "hook", "save_hook", "wait", "note",
        "save_note", "record", "save_record", "upsert"}

TypeOK ==
  /\ cycle    \in [Cycles -> Rows]
  /\ age      \in [Cycles -> 0..2]
  /\ registry \in [Txs -> Cycles \cup {None}]
  /\ tx       \in [Txs -> {"unsent", "pending", "mined", "reverted"}]
  /\ op       \in [Jobs -> {"none", "request", "check", "mint", "recover"}]
  /\ pc       \in [Jobs -> Pcs]
  /\ at       \in [Jobs -> Cycles \cup {None}]
  /\ snap     \in [Jobs -> Rows]
  /\ seen     \in [Jobs -> 0..2]
  /\ token    \in [Jobs -> Txs \cup {None}]
  /\ mintOf   \in [Txs -> Cycles \cup {None}]
  /\ spoiled  \in SUBSET Cycles
  /\ torn     \in SUBSET Cycles
  /\ gaps \in Nat /\ faults \in Nat

Init ==
  /\ cycle    = [c \in Cycles |-> Row("none")]
  /\ age      = [c \in Cycles |-> 0]
  /\ registry = [t \in Txs |-> None]
  /\ tx       = [t \in Txs |-> "unsent"]
  /\ op    = [j \in Jobs |-> "none"]
  /\ pc    = [j \in Jobs |-> "idle"]
  /\ at    = [j \in Jobs |-> None]
  /\ snap  = [j \in Jobs |-> Row("none")]
  /\ seen  = [j \in Jobs |-> 0]
  /\ token = [j \in Jobs |-> None]
  /\ mintOf = [t \in Txs |-> None]
  /\ spoiled = {} /\ torn = {} /\ gaps = 0 /\ faults = 0

-----------------------------------------------------------------------------
(* Jobs                                                                    *)

\* Job j goes to call p for cycle c, with row r of age a and token t.
Hold(j, o, p, c, r, a, t) ==
  /\ op'    = [op    EXCEPT ![j] = o]
  /\ pc'    = [pc    EXCEPT ![j] = p]
  /\ at'    = [at    EXCEPT ![j] = c]
  /\ snap'  = [snap  EXCEPT ![j] = r]
  /\ seen'  = [seen  EXCEPT ![j] = a]
  /\ token' = [token EXCEPT ![j] = t]

Stop(j)         == Hold(j, "none", "idle", None, Row("none"), 0, None)
GoTo(j, p)      == Hold(j, op[j], p, at[j], Row("none"), 0, token[j])
WillSave(j, p, r) == Hold(j, op[j], p, at[j], r, 0, token[j])

\* After the interactive check mintForUser goes on to reserve a cycle; the
\* availability request and the cron are done.
Resume(j) ==
  IF op[j] = "request"
  THEN Hold(j, "request", "reserve", None, Row("none"), 0, None)
  ELSE Stop(j)

\* The calls inside mintForUser's try block; all but the first are made
\* under the signer's lock.
Locked == {"send", "hook", "save_hook", "wait"}
InTry  == {"mint"} \cup Locked

\* What an error does: mintForUser cancels its cycle when the mint threw, and
\* every other handler ends.
Throw(j) == IF pc[j] \in InTry THEN GoTo(j, "cancel") ELSE Stop(j)

\* A failure of jobs S is a gap when a token of theirs is on no record: the
\* hash is not in the row yet, or the row has been cleared for the registry.
Gap(S) == IF \E j \in S : pc[j] \in {"hook", "save_hook", "upsert"} THEN 1 ELSE 0

\* The cycles whose registry write goes with the jobs S.
CutOff(S) == {at[j] : j \in {k \in S : pc[k] = "upsert"}}

\* repo.save of the row a job holds: the partial unique index refuses a
\* second open cycle of the card.
OneOpen(c, r) ==
  r.status \in Open => \A d \in Cycles \ {c} : cycle[d].status \notin Open
Save(j) ==
  /\ OneOpen(at[j], snap[j])
  /\ cycle' = [cycle EXCEPT ![at[j]] = snap[j]]
  /\ age'   = [age   EXCEPT ![at[j]] = 0]
SaveRefused(j) ==
  /\ pc[j] \in {"save_begin", "save_hook", "save_note", "save_record"}
  /\ ~OneOpen(at[j], snap[j])
  /\ Throw(j)
  /\ UNCHANGED <<db, tx, hist>>

-----------------------------------------------------------------------------
(* VaultMintRecoveryService                                                *)

\* Job j, running o, takes the open row c to healOne.
TakeRow(j, o, c) == Hold(j, o, "heal", c, cycle[c], age[c], None)

Reserved == Cardinality({c \in Cycles : cycle[c].status # "none"})

\* A request: reconcileBlockingOpenCycle reads the card's open row.
Request(j, o) ==
  /\ j \in Slots /\ pc[j] = "idle"
  /\ o = "request" => Reserved + Cardinality({k \in Slots : op[k] = o}) < MaxCycles
  /\ LET open == {c \in Cycles : cycle[c].status \in Open}
     IN  \/ \E c \in open :
              \/ /\ cycle[c].status = "minting"
                 /\ TakeRow(j, o, c)
              \/ /\ cycle[c].status = "deposit_verified" /\ age[c] >= 1
                 /\ Hold(j, o, "cancel", c, Row("none"), 0, None)
              \/ /\ cycle[c].status = "minted" \/ age[c] = 0
                 /\ cycle[c].status # "minting"
                 /\ o = "request"
                 /\ Hold(j, o, "reserve", None, Row("none"), 0, None)
         \/ /\ open = {} /\ o = "request"
            /\ Hold(j, o, "reserve", None, Row("none"), 0, None)
  /\ UNCHANGED <<db, tx, hist>>

\* A mutated form of the next: the rows with a stamped token are left out.
Unstamped(r) == r.status = "minting" /\ r.tokenId = None

\* listMintingCyclesForRecovery
Listed(r) == r.status = "minting"

\* recoverPass, for each row listed
RecoverPass ==
  /\ pc[Cron] = "idle"
  /\ \E c \in Cycles : Listed(cycle[c]) /\ TakeRow(Cron, "recover", c)
  /\ UNCHANGED <<db, tx, hist>>

\* A mutated form of the next: a submitted transaction counts.
Submitted(r) == IF r.tokenId # None THEN r.tokenId ELSE r.txHash

\* The token stamped on the attempt, or the one the receipt of its
\* transaction shows.
Minted(r) ==
  IF r.tokenId # None THEN r.tokenId
  ELSE IF r.txHash # None /\ tx[r.txHash] = "mined" THEN r.txHash
  ELSE None

\* A mutated form of the next: only the interactive check gives up.
GivesUpOnRequest(j) ==
  op[j] # "recover" /\ snap[j].txHash = None /\ seen[j] >= 1

\* healOne cancels after half an hour without a token; the interactive check
\* sooner when no transaction was submitted.
GivesUp(j) ==
  \/ seen[j] = 2
  \/ op[j] # "recover" /\ snap[j].txHash = None /\ seen[j] >= 1

HealOne(j) ==
  /\ pc[j] = "heal"
  /\ LET t == Minted(snap[j])
     IN  \/ /\ t # None
            /\ Hold(j, op[j], "record", at[j], Row("none"), 0, t)
         \/ t = None /\ GivesUp(j)  /\ GoTo(j, "cancel")
         \/ t = None /\ ~GivesUp(j) /\ Resume(j)
  /\ UNCHANGED <<db, tx, hist>>

-----------------------------------------------------------------------------
(* VaultService                                                            *)

Deposited == Row("deposit_verified")

\* reserveCycleForDeposit: one transaction, with the asset row locked.
Reserve(j) ==
  /\ pc[j] = "reserve"
  /\ IF \E c \in Cycles : cycle[c].status \in Open
     THEN Stop(j) /\ UNCHANGED db
     ELSE \E c \in Cycles :
            /\ cycle[c].status = "none"
            /\ \A d \in 1..(c - 1) : cycle[d].status # "none"
            /\ cycle' = [cycle EXCEPT ![c] = Deposited]
            /\ age'   = [age EXCEPT ![c] = 0]
            /\ UNCHANGED registry
            /\ Hold(j, "mint", "begin", c, Row("none"), 0, None)
  /\ UNCHANGED <<tx, hist>>

\* beginMintAttempt
BeginMintAttempt(j) ==
  /\ pc[j] = "begin"
  /\ IF cycle[at[j]].status \in {"deposit_verified", "minting"}
     THEN WillSave(j, "save_begin", Row("minting"))
     ELSE Stop(j)
  /\ UNCHANGED <<db, tx, hist>>

\* A mutated form of the next: the hash is not kept when it is submitted.
TokenOnly(r, t, p) ==
  IF p = "hook" THEN r ELSE [r EXCEPT !.txHash = t, !.tokenId = t]

\* The hash once submitted, the token once mined.
Stamped(r, t, p) ==
  IF p = "hook" THEN [r EXCEPT !.txHash = t]
  ELSE [r EXCEPT !.txHash = t, !.tokenId = t]

\* noteMintAttemptTx, called with the hash and again with the token
NoteMintAttemptTx(j) ==
  /\ pc[j] \in {"hook", "note"}
  /\ LET r == cycle[at[j]]
     IN  IF r.status # "minting"
         THEN GoTo(j, IF pc[j] = "hook" THEN "wait" ELSE "record")
         ELSE WillSave(j, IF pc[j] = "hook" THEN "save_hook" ELSE "save_note",
                       Stamped(r, token[j], pc[j]))
  /\ UNCHANGED <<db, tx, hist>>

Cancellable(r) == r.status \in {"deposit_verified", "minting"}

\* cancelCycle
CancelCycle(j) ==
  /\ pc[j] = "cancel"
  /\ IF Cancellable(cycle[at[j]])
     THEN WillSave(j, "save_cancel", Row("cancelled"))
     ELSE Resume(j)
  /\ UNCHANGED <<db, tx, hist>>

\* recordMintResult, up to its save of the cycle
RecordMintResult(j) ==
  /\ pc[j] = "record"
  /\ IF cycle[at[j]].status \in Open
     THEN WillSave(j, "save_record", Row("minted"))
     ELSE Stop(j)
  /\ UNCHANGED <<db, tx, hist>>

\* The saves these end with.
SaveRow(j) ==
  /\ \/ pc[j] = "save_begin"  /\ GoTo(j, "mint")
     \/ pc[j] = "save_hook"   /\ GoTo(j, "wait")
     \/ pc[j] = "save_note"   /\ GoTo(j, "record")
     \/ pc[j] = "save_record" /\ GoTo(j, "upsert")
     \/ pc[j] = "save_cancel" /\ Resume(j)
  /\ Save(j)
  /\ spoiled' = IF pc[j] = "save_cancel" THEN spoiled \cup {at[j]} ELSE spoiled
  /\ UNCHANGED <<registry, tx, mintOf, torn, gaps, faults>>

\* The rwa_tokens upsert of recordMintResult: one live token per cert and
\* one per cycle.
Upsert(j) ==
  /\ pc[j] = "upsert"
  /\ IF \A t \in Txs \ {token[j]} : registry[t] = None
     THEN /\ registry' = [registry EXCEPT ![token[j]] = at[j]]
          /\ Resume(j)
          /\ UNCHANGED spoiled
     ELSE /\ spoiled' = spoiled \cup {at[j]}
          /\ Stop(j)
          /\ UNCHANGED registry
  /\ UNCHANGED <<cycle, age, tx, mintOf, torn, gaps, faults>>

-----------------------------------------------------------------------------
(* RwaChainWriterService.mintTo                                            *)

\* The signer's lock is taken to send, and held until the transaction is mined.
Broadcast(j) ==
  /\ \/ pc[j] = "mint" /\ \A k \in Jobs : pc[k] \notin Locked
     \/ pc[j] = "send"
  /\ \E t \in Txs :
       /\ tx[t] = "unsent"
       /\ \A u \in 1..(t - 1) : tx[u] # "unsent"
       /\ tx' = [tx EXCEPT ![t] = "pending"]
       /\ mintOf' = [mintOf EXCEPT ![t] = at[j]]
       /\ Hold(j, op[j], "hook", at[j], Row("none"), 0, t)
  /\ UNCHANGED <<db, spoiled, torn, gaps, faults>>

\* tx.wait
Wait(j) ==
  /\ pc[j] = "wait"
  /\ \/ tx[token[j]] = "mined"    /\ GoTo(j, "note")
     \/ tx[token[j]] = "reverted" /\ Throw(j)
  /\ UNCHANGED <<db, tx, hist>>

\* The provider answers the wait with 429: withRpcRateLimitRetry runs the
\* whole callback again, which sends a second transaction.
RateLimited(j) ==
  /\ pc[j] = "wait" /\ faults < MaxFaults
  /\ Hold(j, op[j], "send", at[j], Row("none"), 0, None)
  /\ gaps' = gaps + 1 /\ faults' = faults + 1
  /\ UNCHANGED <<db, tx, mintOf, spoiled, torn>>

Mine(t) ==
  /\ tx[t] = "pending"
  /\ tx' \in {[tx EXCEPT ![t] = "mined"], [tx EXCEPT ![t] = "reverted"]}
  /\ UNCHANGED <<db, jobs, hist>>

-----------------------------------------------------------------------------
(* Time and failures                                                       *)

\* A row that nobody saves gets older, the copy healOne took of it too.
Age(c) ==
  /\ cycle[c].status \in {"deposit_verified", "minting"} /\ age[c] < 2
  /\ age'  = [age EXCEPT ![c] = @ + 1]
  /\ seen' = [j \in Jobs |-> IF at[j] = c /\ pc[j] = "heal" /\ seen[j] < 2
                             THEN seen[j] + 1 ELSE seen[j]]
  /\ UNCHANGED <<cycle, registry, tx, op, pc, at, snap, token, hist>>

\* A call fails.
Fail(j) ==
  /\ pc[j] # "idle" /\ faults < MaxFaults
  /\ Throw(j)
  /\ torn' = torn \cup CutOff({j})
  /\ gaps' = gaps + Gap({j}) /\ faults' = faults + 1
  /\ UNCHANGED <<db, tx, mintOf, spoiled>>

\* The process restarts.
Crash ==
  /\ faults < MaxFaults
  /\ op'    = [j \in Jobs |-> "none"]
  /\ pc'    = [j \in Jobs |-> "idle"]
  /\ at'    = [j \in Jobs |-> None]
  /\ snap'  = [j \in Jobs |-> Row("none")]
  /\ seen'  = [j \in Jobs |-> 0]
  /\ token' = [j \in Jobs |-> None]
  /\ torn' = torn \cup CutOff(Jobs)
  /\ gaps' = gaps + Gap(Jobs) /\ faults' = faults + 1
  /\ UNCHANGED <<db, tx, mintOf, spoiled>>

-----------------------------------------------------------------------------
Step(j) ==
  \/ HealOne(j) \/ Reserve(j) \/ BeginMintAttempt(j) \/ NoteMintAttemptTx(j)
  \/ CancelCycle(j) \/ RecordMintResult(j) \/ SaveRow(j) \/ SaveRefused(j)
  \/ Upsert(j) \/ Broadcast(j) \/ Wait(j)

Next ==
  \/ \E j \in Slots : \E o \in {"request", "check"} : Request(j, o)
  \/ RecoverPass
  \/ \E j \in Jobs : Step(j) \/ RateLimited(j) \/ Fail(j)
  \/ Crash
  \/ \E t \in Txs : Mine(t)
  \/ \E c \in Cycles : Age(c)

Spec == Init /\ [][Next]_vars

\* Handlers in flight go on, the cron polls, and time passes.  Nothing makes
\* the chain mine a transaction.
Fairness ==
  /\ \A j \in Jobs : WF_vars(Step(j))
  /\ WF_vars(RecoverPass)
  /\ \A c \in Cycles : WF_vars(Age(c))
FairSpec == Spec /\ Fairness

-----------------------------------------------------------------------------
(* Properties                                                              *)

\* The registry never lies about the chain: the token it links to a cycle was
\* minted, and minted for that cycle, whichever of the mint request, the
\* interactive check and the cron recorded it, and from however old a copy of
\* the attempt (recordMintResult, healOne).
RegistryTruthful ==
  \A t \in Txs : registry[t] # None =>
                   tx[t] = "mined" /\ mintOf[t] = registry[t]

\* An NFT on chain with no registry row, that no row in `minting` names and no
\* handler holds: vault-lifecycle.md calls it a ghost.
Ghost(t) ==
  /\ tx[t] = "mined" /\ registry[t] = None
  /\ \A c \in Cycles : cycle[c].status = "minting" =>
                         t \notin {cycle[c].txHash, cycle[c].tokenId}
  /\ \A j \in Jobs : token[j] # t

\* A failure makes a ghost only in two gaps, between the broadcast of the mint
\* and the save of its hash and between the save of the cycle and its registry
\* row, or where a rate-limited wait sends again: one each at most.  Nothing
\* else does, whatever fails, as long as no handler cancels the cycle and the
\* registry takes its row (beginMintAttempt, noteMintAttemptTx, healOne).
GhostsAccounted ==
  Cardinality({t \in Txs : Ghost(t) /\ mintOf[t] \notin spoiled}) <= gaps

\* No cycle stays in `minting`: it is healed or cancelled, across restarts,
\* failing calls and transactions that are never mined (recoverPass).
AttemptsEnd ==
  \A c \in Cycles : cycle[c].status = "minting" ~> cycle[c].status # "minting"

\* Once the token is stamped on the attempt, the cycle gets its registry row,
\* whatever crashes, unless a stale save cancels it, the registry refuses the
\* row or the very last write is the one cut off.
StampedTokensRegistered ==
  \A c \in Cycles :
    cycle[c].status = "minting" /\ cycle[c].tokenId # None
    ~> (\E t \in Txs : registry[t] = c) \/ c \in spoiled \cup torn

\* vault-lifecycle.md: a cycle is cancelled only if it has no token on chain.
CancelledWithoutToken ==
  [][\A c \in Cycles :
       cycle[c].status # "cancelled" /\ cycle'[c].status = "cancelled"
       => \A t \in Txs : mintOf[t] = c => tx[t] # "mined"]_vars
=============================================================================
