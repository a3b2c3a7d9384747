------------------------ MODULE SelfVaultSettlement ------------------------
(***************************************************************************)
(* The ledger of self-vault sales and its payouts                          *)
(* (marketplace/settlement/self-vault-settlement.service.ts), with the     *)
(* company wallet that sends the USDC                                      *)
(* (blockchain/platform-fee-wallet.service.ts).                            *)
(*                                                                         *)
(* One row per ask.  The row is read and saved whole: TypeORM's            *)
(* repo.save(row) writes back every column of the row as it was read, so a *)
(* handler that read before a payout and saves after it erases the payout. *)
(* A payout is a locked section with four awaits: read, save 'confirmed',  *)
(* transfer (broadcast, then wait), save 'paid'.  Both locks are promise   *)
(* chains of ONE backend instance; several instances share the database    *)
(* and the chain.                                                          *)
(***************************************************************************)
EXTENDS Naturals, Sequences, FiniteSets

CONSTANTS
  Asks,        \* fulfilled self_vault_hold asks (the row's order_hash)
  Instances,   \* backend processes
  CronSlots,   \* runs of autoPayoutCron that may overlap in one process
  AdminSlots,  \* execute-payout requests in flight in one process
  Reqs,        \* create, confirm, reject and record requests, each used once
  SelfAsks,    \* asks whose seller is the fee wallet itself
  Poison,      \* asks whose transfer is refused for ever (blocked recipient)
  Take,        \* page of the cron's query (20 in the code)
  MaxFaults    \* bound on crashes and failed RPC calls

ASSUME TakeAssumption   == Take \in Nat \ {0}
ASSUME FaultsAssumption == MaxFaults \in Nat
ASSUME AsksAssumption   == IsFiniteSet(Asks) /\ Asks # {}
ASSUME InstAssumption   == Instances # {}
ASSUME SlotsAssumption  == CronSlots \cap AdminSlots = {}

Payers == Instances \X (CronSlots \cup AdminSlots)

Statuses == {"none", "pending_confirm", "confirmed", "paid", "rejected"}
Open     == {"pending_confirm", "confirmed"}
Txs      == {"none", "self", "oob", "chain"}
Rows     == [status : Statuses, tx : Txs]

AnyAsk == CHOOSE a \in Asks : TRUE
NoRow == [status |-> "none", tx |-> "none"]

VARIABLES
  row,     \* the table self_vault_settlements
  born,    \* created_at: 0 while there is no row, then its rank
  aged,    \* rows of rank at most aged are older than the payout delay
  queue,   \* payoutLocks of each instance: the chain of callers per ask
  signer,  \* writeLocks of each instance: the chain of transfers
  pc,      \* executePayout calls: between which two awaits each one is,
  ask,     \* the ask it pays,
  snap,    \* the row it read (as it will save it),
  rest,    \* and, in a cron run, the rows of its page still to come
  req,     \* the other requests: where each one stands
  sent,    \* the chain: USDC transfers broadcast per instance and ask
  erased,  \* history: times the record of a payout was lost
  faults   \* history: crashes and RPC failures so far

vars == <<row, born, aged, queue, signer, pc, ask, snap, rest, req, sent,
          erased, faults>>
calls == <<pc, ask, snap, rest>>

\* The points of executePayout between two awaits.  "loop" is the cron
\* between two rows.
Idle    == {"idle", "loop"}
Before  == {"confirm", "pay", "signer"}   \* in the lock, nothing sent yet
After   == {"wait", "save"}               \* in the lock, transfer broadcast
InLock  == Before \cup After
AtSigner == {"signer", "wait"}

TypeOK ==
  /\ row    \in [Asks -> Rows]
  /\ born   \in [Asks -> Nat]
  /\ aged   \in Nat
  /\ queue  \in [Instances -> [Asks -> Seq(Payers)]]
  /\ signer \in [Instances -> Seq(Payers)]
  /\ pc     \in [Payers -> {"queued"} \cup Idle \cup InLock]
  /\ ask    \in [Payers -> Asks]
  /\ snap   \in [Payers -> Rows]
  /\ rest   \in [Payers -> SUBSET Asks]
  /\ req    \in [Reqs -> [pc : {"new", "read", "done"}, inst : Instances,
                          ask : Asks, new : Rows]]
  /\ sent   \in [Instances -> [Asks -> Nat]]
  /\ erased \in [Asks -> Nat]
  /\ faults \in Nat

Init ==
  /\ row    = [a \in Asks |-> NoRow]
  /\ born   = [a \in Asks |-> 0]
  /\ aged   = 0
  /\ queue  = [i \in Instances |-> [a \in Asks |-> << >>]]
  /\ signer = [i \in Instances |-> << >>]
  /\ pc     = [p \in Payers |-> "idle"]
  /\ ask    = [p \in Payers |-> AnyAsk]
  /\ snap   = [p \in Payers |-> NoRow]
  /\ rest   = [p \in Payers |-> {}]
  /\ \E i \in Instances :
       req = [r \in Reqs |-> [pc |-> "new", inst |-> i,
                              ask |-> AnyAsk, new |-> NoRow]]
  /\ sent   = [i \in Instances |-> [a \in Asks |-> 0]]
  /\ erased = [a \in Asks |-> 0]
  /\ faults = 0

-----------------------------------------------------------------------------
(* Mutated forms of definitions below, each a plausible bug in the code.   *)

UpsertAllowed(a)        == TRUE
PayableUnlessRejected(r) == r.status # "rejected"
LockWithoutWaiting(p)   == pc[p] = "queued"
PageBeforeFilter ==
  {a \in Asks : /\ row[a].status \in Open /\ born[a] <= aged
                /\ Cardinality({b \in Asks : row[b].status # "none"
                                          /\ born[b] < born[a]}) < Take}

-----------------------------------------------------------------------------
(* The table: repo.save writes the whole row.                              *)

Erases(a, new) == row[a].status = "paid" /\ new.status # "paid"

Save(a, new) ==
  /\ row' = [row EXCEPT ![a] = new]
  /\ erased' = IF Erases(a, new) THEN [erased EXCEPT ![a] = @ + 1] ELSE erased

-----------------------------------------------------------------------------
(* Requests that read the row, decide, and save it later.                  *)

\* Requests are alike until they come: the next one has a fixed name.
NextRequest == CHOOSE r \in Reqs : req[r].pc = "new"

\* A request that has returned keeps nothing.
Answered(q) == [q EXCEPT !.pc = "done", !.ask = AnyAsk, !.new = NoRow]

\* A handler's findOne and its checks: it goes on only from the statuses it
\* accepts, and keeps the row it will save.
Read(r, i, a, accepts, new) ==
  /\ req[r].pc = "new" /\ r = NextRequest
  /\ row[a].status \in accepts
  /\ req' = [req EXCEPT ![r] = [pc |-> "read", inst |-> i, ask |-> a,
                                new |-> new]]
  /\ UNCHANGED <<row, born, aged, queue, signer, calls, sent, erased, faults>>

\* A mutated form of adminReject below.
CancelledReject(r, i, a) ==
  Read(r, i, a, Open, [row[a] EXCEPT !.status = "cancelled"])

\* Fulfil, match, reconcile and backfill all come here; an existing row is
\* returned as it is.
CreateFromFulfilledAsk(r, i, a) ==
  Read(r, i, a, {"none"}, [status |-> "pending_confirm", tx |-> "none"])

\* An already confirmed row is returned without a save.
ConfirmByBuyer(r, i, a) ==
  Read(r, i, a, {"pending_confirm"}, [row[a] EXCEPT !.status = "confirmed"])

\* An already confirmed row is saved again.
AdminConfirm(r, i, a) ==
  Read(r, i, a, Open, [row[a] EXCEPT !.status = "confirmed"])

AdminReject(r, i, a) ==
  Read(r, i, a, Open \cup {"rejected"}, [row[a] EXCEPT !.status = "rejected"])

\* The transfer itself was made outside the backend.
RecordPayout(r, i, a) ==
  Read(r, i, a, {"confirmed"}, [status |-> "paid", tx |-> "oob"])

\* The insert of a new row, refused by UNIQUE(order_hash) when another
\* request inserted first; the row found then is returned.
InsertAllowed(a) == row[a].status = "none"

InsertRow(r) ==
  /\ req[r].pc = "read"
  /\ req[r].new.status = "pending_confirm"
  /\ IF InsertAllowed(req[r].ask)
     THEN /\ Save(req[r].ask, req[r].new)
          /\ born' = [born EXCEPT ![req[r].ask] =
                        1 + Cardinality({a \in Asks : born[a] # 0})]
     ELSE UNCHANGED <<row, erased, born>>
  /\ req' = [req EXCEPT ![r] = Answered(@)]
  /\ UNCHANGED <<aged, queue, signer, calls, sent, faults>>

\* The save of every other request, over whatever the row is by now.
SaveRow(r) ==
  /\ req[r].pc = "read"
  /\ req[r].new.status # "pending_confirm"
  /\ Save(req[r].ask, req[r].new)
  /\ req' = [req EXCEPT ![r] = Answered(@)]
  /\ UNCHANGED <<born, aged, queue, signer, calls, sent, faults>>

-----------------------------------------------------------------------------
(* Payouts.  p[1] is the instance that runs payer p.                       *)

\* The promise chain: a caller joins the chain of its ask and runs when all
\* callers before it have settled.
Enqueue(p, a) ==
  /\ pc' = [pc EXCEPT ![p] = "queued"]
  /\ ask' = [ask EXCEPT ![p] = a]
  /\ queue' = [queue EXCEPT ![p[1]][a] = Append(@, p)]
HasLock(p) == /\ queue[p[1]][ask[p]] # << >>
              /\ Head(queue[p[1]][ask[p]]) = p
HasSigner(p) == signer[p[1]] # << >> /\ Head(signer[p[1]]) = p

\* A payout call returns or throws: its chain moves on; the cron's loop
\* catches the error and takes its next row.
Return(p) ==
  /\ queue' = [queue EXCEPT ![p[1]][ask[p]] = Tail(@)]
  /\ pc' = [pc EXCEPT ![p] = IF p[2] \in CronSlots THEN "loop" ELSE "idle"]
  /\ snap' = [snap EXCEPT ![p] = NoRow]
  /\ UNCHANGED <<ask, rest>>

LeaveSigner(p) == signer' = [signer EXCEPT ![p[1]] = Tail(@)]

\* The oldest Take rows that are open and past the delay.
Due == {a \in Asks : row[a].status \in Open /\ born[a] <= aged}
DuePage == {a \in Due : Cardinality({b \in Due : born[b] < born[a]}) < Take}

CronStart(p) ==
  /\ p[2] \in CronSlots
  /\ pc[p] = "idle"
  /\ DuePage # {}
  /\ pc' = [pc EXCEPT ![p] = "loop"]
  /\ rest' = [rest EXCEPT ![p] = DuePage]
  /\ UNCHANGED <<row, born, aged, queue, signer, ask, snap, req, sent,
                 erased, faults>>

CronNext(p) ==
  /\ pc[p] = "loop"
  /\ \E a \in rest[p] :
       /\ \A b \in rest[p] : born[a] <= born[b]
       /\ rest' = [rest EXCEPT ![p] = @ \ {a}]
       /\ Enqueue(p, a)
  /\ UNCHANGED <<row, born, aged, signer, snap, req, sent, erased, faults>>

CronEnd(p) ==
  /\ pc[p] = "loop"
  /\ rest[p] = {}
  /\ pc' = [pc EXCEPT ![p] = "idle"]
  /\ UNCHANGED <<row, born, aged, queue, signer, ask, snap, rest, req, sent,
                 erased, faults>>

\* POST execute-payout
AdminStart(p, a) ==
  /\ p[2] \in AdminSlots
  /\ pc[p] = "idle"
  /\ row[a].status # "none"
  /\ Enqueue(p, a)
  /\ UNCHANGED <<row, born, aged, signer, snap, rest, req, sent, erased,
                 faults>>

Payable(r) == r.status \in Open

\* The read under the lock: 'paid' returns, 'rejected' throws.
LockedRead(p) ==
  LET r == row[ask[p]]
  IN
  /\ pc[p] = "queued"
  /\ HasLock(p)
  /\ IF Payable(r)
     THEN /\ snap' = [snap EXCEPT ![p] = [r EXCEPT !.status = "confirmed"]]
          /\ pc' = [pc EXCEPT ![p] = IF r.status = "pending_confirm"
                                     THEN "confirm" ELSE "pay"]
          /\ UNCHANGED <<queue, ask, rest>>
     ELSE Return(p)
  /\ UNCHANGED <<row, born, aged, signer, req, sent, erased, faults>>

SaveConfirmed(p) ==
  /\ pc[p] = "confirm"
  /\ Save(ask[p], snap[p])
  /\ pc' = [pc EXCEPT ![p] = "pay"]
  /\ UNCHANGED <<born, aged, queue, signer, ask, snap, rest, req, sent,
                 faults>>

\* transferUsdc joins the chain of the signer.
EnterSigner(p) ==
  /\ pc[p] = "pay"
  /\ pc' = [pc EXCEPT ![p] = "signer"]
  /\ signer' = [signer EXCEPT ![p[1]] = Append(@, p)]
  /\ UNCHANGED <<row, born, aged, queue, ask, snap, rest, req, sent, erased,
                 faults>>

\* The seller is the fee wallet: nothing to transfer.
SkipSelfTransfer(p) ==
  /\ pc[p] = "signer" /\ HasSigner(p)
  /\ ask[p] \in SelfAsks
  /\ pc' = [pc EXCEPT ![p] = "save"]
  /\ snap' = [snap EXCEPT ![p] = [status |-> "paid", tx |-> "self"]]
  /\ LeaveSigner(p)
  /\ UNCHANGED <<row, born, aged, queue, ask, rest, req, sent, erased,
                 faults>>

Broadcast(p) ==
  /\ pc[p] = "signer" /\ HasSigner(p)
  /\ ask[p] \notin SelfAsks \cup Poison
  /\ sent' = [sent EXCEPT ![p[1]][ask[p]] = @ + 1]
  /\ pc' = [pc EXCEPT ![p] = "wait"]
  /\ UNCHANGED <<row, born, aged, queue, signer, ask, snap, rest, req,
                 erased, faults>>

\* Balance too low, RPC error before the broadcast, or the transfer reverts:
\* no money moved, the call throws.
TransferFails(p) ==
  /\ pc[p] = "signer" /\ HasSigner(p)
  /\ ask[p] \notin SelfAsks
  /\ \/ ask[p] \in Poison /\ UNCHANGED faults
     \/ faults < MaxFaults /\ faults' = faults + 1
  /\ Return(p)
  /\ LeaveSigner(p)
  /\ UNCHANGED <<row, born, aged, req, sent, erased>>

Mined(p) ==
  /\ pc[p] = "wait"
  /\ pc' = [pc EXCEPT ![p] = "save"]
  /\ snap' = [snap EXCEPT ![p] = [status |-> "paid", tx |-> "chain"]]
  /\ LeaveSigner(p)
  /\ UNCHANGED <<row, born, aged, queue, ask, rest, req, sent, erased,
                 faults>>

\* tx.wait() throws (RPC error, timeout) although the transfer is mined.
WaitFails(p) ==
  /\ pc[p] = "wait"
  /\ faults < MaxFaults
  /\ faults' = faults + 1
  /\ erased' = [erased EXCEPT ![ask[p]] = @ + 1]
  /\ Return(p)
  /\ LeaveSigner(p)
  /\ UNCHANGED <<row, born, aged, req, sent>>

SavePaid(p) ==
  /\ pc[p] = "save"
  /\ Save(ask[p], snap[p])
  /\ Return(p)
  /\ UNCHANGED <<born, aged, signer, req, sent, faults>>

-----------------------------------------------------------------------------
(* Time and crashes                                                        *)

AgePast ==
  /\ \E a \in Asks : born[a] > aged
  /\ aged' = aged + 1
  /\ UNCHANGED <<row, born, queue, signer, calls, req, sent, erased, faults>>

\* Instance i stops and restarts: its calls and its two maps of promises are
\* gone.  A payout that was broadcast and not yet saved leaves no trace.
Crash(i) ==
  /\ faults < MaxFaults
  /\ faults' = faults + 1
  /\ pc'   = [p \in Payers |-> IF p[1] = i THEN "idle" ELSE pc[p]]
  /\ snap' = [p \in Payers |-> IF p[1] = i THEN NoRow ELSE snap[p]]
  /\ rest' = [p \in Payers |-> IF p[1] = i THEN {} ELSE rest[p]]
  /\ req' = [r \in Reqs |-> IF req[r].pc = "read" /\ req[r].inst = i
                            THEN Answered(req[r]) ELSE req[r]]
  /\ queue'  = [queue EXCEPT ![i] = [a \in Asks |-> << >>]]
  /\ signer' = [signer EXCEPT ![i] = << >>]
  /\ erased' = [a \in Asks |->
                  erased[a] + IF \E p \in Payers : /\ p[1] = i
                                                   /\ ask[p] = a
                                                   /\ pc[p] \in After
                              THEN 1 ELSE 0]
  /\ UNCHANGED <<row, born, aged, ask, sent>>

-----------------------------------------------------------------------------
Request(r) ==
  \/ \E i \in Instances, a \in Asks :
       \/ CreateFromFulfilledAsk(r, i, a)
       \/ ConfirmByBuyer(r, i, a)
       \/ AdminConfirm(r, i, a)
       \/ AdminReject(r, i, a)
       \/ RecordPayout(r, i, a)
  \/ InsertRow(r)
  \/ SaveRow(r)

\* What a payout does once its process has started it.
Proceed(p) ==
  \/ CronStart(p)
  \/ CronNext(p)
  \/ CronEnd(p)
  \/ LockedRead(p)
  \/ SaveConfirmed(p)
  \/ EnterSigner(p)
  \/ SkipSelfTransfer(p)
  \/ Broadcast(p)
  \/ TransferFails(p)
  \/ Mined(p)
  \/ WaitFails(p)
  \/ SavePaid(p)

Next ==
  \/ \E r \in Reqs : Request(r)
  \/ \E p \in Payers : Proceed(p)
  \/ \E p \in Payers, a \in Asks : AdminStart(p, a)
  \/ AgePast
  \/ \E i \in Instances : Crash(i)

Spec == Init /\ [][Next]_vars

\* The cron fires every minute and started calls run on; nobody has to send
\* a request, and nothing has to fail.
Fairness ==
  /\ \A p \in Payers : WF_vars(Proceed(p))
  /\ WF_vars(AgePast)

FairSpec == Spec /\ Fairness

-----------------------------------------------------------------------------
(* Properties                                                              *)

\* A payout call between its locked read and its return is the head of its
\* instance's chain for that ask, and a transfer in flight is the head of the
\* signer's chain.
LocksHeld ==
  \A p \in Payers :
    /\ pc[p] \in InLock => HasLock(p)
    /\ pc[p] = "wait" => HasSigner(p)

\* withPayoutLock and withSignerLock let one call in: in one instance two
\* payouts of one row are never between read and return together, and two
\* transfers of the fee wallet are never in flight together.
PayoutExclusion ==
  \A p, q \in Payers :
    p # q /\ p[1] = q[1] =>
      /\ ~(pc[p] \in InLock /\ pc[q] \in InLock /\ ask[p] = ask[q])
      /\ ~(pc[p] = "wait" /\ pc[q] = "wait")

\* Money: one instance sends at most one transfer for a sale, and one more for
\* each time the record of a payout was lost (a stale save over 'paid', a
\* failed wait, a crash before the save).  Cron runs, admin payouts and their
\* overlaps alone never pay twice.
TransfersAccounted ==
  \A i \in Instances, a \in Asks : sent[i][a] <= 1 + erased[a]

\* No request and no payout ever takes a row back to 'pending_confirm', nor
\* deletes it: two creations of one ask meet in the unique index.
LedgerNeverReopens ==
  [][\A a \in Asks :
       /\ row[a].status # "none" => row'[a].status # "none"
       /\ row'[a].status = "pending_confirm" =>
            row[a].status \in {"none", "pending_confirm"}]_vars

\* The cron's promise: an open row is paid or rejected in the end, whatever
\* failed before, as long as fewer than a page of rows can never be paid.
OpenRowsSettle ==
  \A a \in Asks \ Poison :
    (row[a].status \in Open) ~> (row[a].status \in {"paid", "rejected"})

\* A claim that the code does not keep.

\* self-vault-hold-settlement.md:18 "Skip if `rejected` or already `paid`": a
\* sale that was marked paid is not paid again.
PaidOnce == \A a \in Asks : \A i \in Instances : sent[i][a] <= 1
=============================================================================
