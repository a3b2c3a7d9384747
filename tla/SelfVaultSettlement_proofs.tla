--------------------- MODULE SelfVaultSettlement_proofs ---------------------
(***************************************************************************)
(* Proofs about SelfVaultSettlement: types, the two locks, the account of  *)
(* transfers, and that no row goes back to wait for its buyer, for any     *)
(* number of asks, instances, payers and requests.                         *)
(***************************************************************************)
EXTENDS SelfVaultSettlement, FiniteSetTheorems, TLAPS

-----------------------------------------------------------------------------
\* A payer is a pair of an instance and a slot of that instance.
LEMMA PayerInstance ==
  ASSUME NEW p \in Payers
  PROVE  /\ p[1] \in Instances
         /\ p[2] \in CronSlots \cup AdminSlots
BY DEF Payers

\* The values kept when no row is meant are rows and asks.
LEMMA Defaults == AnyAsk \in Asks /\ NoRow \in Rows
BY AsksAssumption DEF AnyAsk, NoRow, Rows, Statuses, Txs

\* A request that has returned is a request.
LEMMA AnsweredType ==
  ASSUME TypeOK, NEW r \in Reqs
  PROVE  Answered(req[r]) \in [pc : {"new", "read", "done"},
                               inst : Instances, ask : Asks, new : Rows]
BY Defaults DEF Answered, TypeOK

\* repo.save keeps the table a table of rows and the count a count.
LEMMA SaveType ==
  ASSUME TypeOK, NEW a \in Asks, NEW new \in Rows, Save(a, new)
  PROVE  /\ row' \in [Asks -> Rows]
         /\ erased' \in [Asks -> Nat]
         /\ \A b \in Asks : erased'[b] >= erased[b]
         /\ Erases(a, new) => erased'[a] = erased[a] + 1
         /\ row'[a] = new
         /\ \A b \in Asks : b # a => row'[b] = row[b]
BY DEF TypeOK, Save

\* A call that returns leaves the chains and the calls well-typed.
LEMMA ReturnType ==
  ASSUME TypeOK, NEW p \in Payers, Return(p),
         queue[p[1]][ask[p]] # << >>
  PROVE  /\ queue' \in [Instances -> [Asks -> Seq(Payers)]]
         /\ pc' \in [Payers -> {"queued"} \cup Idle \cup InLock]
         /\ ask' \in [Payers -> Asks]
         /\ snap' \in [Payers -> Rows]
         /\ rest' \in [Payers -> SUBSET Asks]
<1> p[1] \in Instances /\ ask[p] \in Asks
  BY PayerInstance DEF TypeOK
<1>1. Tail(queue[p[1]][ask[p]]) \in Seq(Payers)
  BY DEF TypeOK
<1> QED
  BY <1>1, Defaults DEF TypeOK, Return, Idle

\* A transfer that ends leaves the signer's chain well-typed.
LEMMA LeaveSignerType ==
  ASSUME TypeOK, NEW p \in Payers, LeaveSigner(p), signer[p[1]] # << >>
  PROVE  signer' \in [Instances -> Seq(Payers)]
<1> p[1] \in Instances
  BY PayerInstance
<1>1. Tail(signer[p[1]]) \in Seq(Payers)
  BY DEF TypeOK
<1> QED
  BY <1>1 DEF TypeOK, LeaveSigner

\* A call that joins a chain leaves the chains well-typed.
LEMMA EnqueueType ==
  ASSUME TypeOK, NEW p \in Payers, NEW a \in Asks, Enqueue(p, a)
  PROVE  /\ queue' \in [Instances -> [Asks -> Seq(Payers)]]
         /\ pc' \in [Payers -> {"queued"} \cup Idle \cup InLock]
         /\ ask' \in [Payers -> Asks]
<1> p[1] \in Instances
  BY PayerInstance
<1>1. Append(queue[p[1]][a], p) \in Seq(Payers)
  BY DEF TypeOK
<1> QED
  BY <1>1 DEF TypeOK, Enqueue

-----------------------------------------------------------------------------
\* Type correctness is inductive given that the lock holders are the heads of
\* their chains.
LEMMA TypeStep ==
  ASSUME TypeOK, LocksHeld, Next
  PROVE  TypeOK'
<1> USE DEF TypeOK, calls
<1>1. ASSUME NEW r \in Reqs, Request(r)
      PROVE  TypeOK'
  <2>1. ASSUME NEW i \in Instances, NEW a \in Asks, NEW new \in Rows,
               NEW accepts, Read(r, i, a, accepts, new)
        PROVE  TypeOK'
    BY <2>1 DEF Read
  <2>2. ASSUME NEW i \in Instances, NEW a \in Asks,
               \/ CreateFromFulfilledAsk(r, i, a)
               \/ ConfirmByBuyer(r, i, a)
               \/ AdminConfirm(r, i, a)
               \/ AdminReject(r, i, a)
               \/ RecordPayout(r, i, a)
        PROVE  TypeOK'
    <3>1. row[a] \in Rows
      OBVIOUS
    <3>2. /\ [status |-> "pending_confirm", tx |-> "none"] \in Rows
          /\ [status |-> "paid", tx |-> "oob"] \in Rows
      BY DEF Rows, Statuses, Txs
    <3>3. /\ [row[a] EXCEPT !.status = "confirmed"] \in Rows
          /\ [row[a] EXCEPT !.status = "rejected"] \in Rows
      BY <3>1 DEF Rows, Statuses
    <3> QED
      BY <2>1, <2>2, <3>2, <3>3 DEF CreateFromFulfilledAsk, ConfirmByBuyer,
                              AdminConfirm, AdminReject, RecordPayout
  <2>3. CASE InsertRow(r)
    <3> DEFINE a == req[r].ask
               old == {b \in Asks : born[b] # 0}
    <3>1. a \in Asks /\ req[r].new \in Rows
      OBVIOUS
    <3>2. Cardinality(old) \in Nat
      BY AsksAssumption, FS_Subset, FS_CardinalityType
    <3>3. born' \in [Asks -> Nat]
      <4>1. born' = born \/ born' = [born EXCEPT ![a] = 1 + Cardinality(old)]
        BY <2>3 DEF InsertRow
      <4> HIDE DEF old, a
      <4> QED
        BY <3>1, <3>2, <4>1
    <3>4. row' \in [Asks -> Rows] /\ erased' \in [Asks -> Nat]
      BY <2>3, <3>1, SaveType DEF InsertRow
    <3>5. req' = [req EXCEPT ![r] = Answered(req[r])]
      BY <2>3 DEF InsertRow
    <3> QED
      BY <2>3, <3>3, <3>4, <3>5, AnsweredType DEF InsertRow
  <2>4. CASE SaveRow(r)
    <3>1. req[r].ask \in Asks /\ req[r].new \in Rows
      OBVIOUS
    <3>2. row' \in [Asks -> Rows] /\ erased' \in [Asks -> Nat]
      BY <2>4, <3>1, SaveType DEF SaveRow
    <3>3. req' = [req EXCEPT ![r] = Answered(req[r])]
      BY <2>4 DEF SaveRow
    <3> QED
      BY <2>4, <3>2, <3>3, AnsweredType DEF SaveRow
  <2> QED
    BY <1>1, <2>2, <2>3, <2>4 DEF Request
<1>2. ASSUME NEW p \in Payers, Proceed(p)
      PROVE  TypeOK'
  <2> p[1] \in Instances /\ ask[p] \in Asks /\ snap[p] \in Rows
    BY PayerInstance
  <2>1. CASE CronStart(p)
    BY <2>1 DEF CronStart, DuePage, Due, Idle
  <2>2. CASE CronNext(p)
    <3> PICK a \in Asks : /\ rest' = [rest EXCEPT ![p] = @ \ {a}]
                          /\ Enqueue(p, a)
      BY <2>2 DEF CronNext
    <3> QED
      BY <2>2, EnqueueType DEF CronNext
  <2>3. CASE CronEnd(p)
    BY <2>3 DEF CronEnd, Idle
  <2>4. CASE LockedRead(p)
    <3> DEFINE r == row[ask[p]]
    <3>1. [r EXCEPT !.status = "confirmed"] \in Rows
      BY DEF Rows, Statuses
    <3>2. CASE r.status \in Open
      BY <2>4, <3>1, <3>2 DEF LockedRead, Payable, InLock, Before
    <3>3. CASE r.status \notin Open
      BY <2>4, <3>3, ReturnType DEF LockedRead, Payable, HasLock
    <3> QED
      BY <3>2, <3>3
  <2>5. CASE SaveConfirmed(p)
    BY <2>5, SaveType DEF SaveConfirmed, InLock, Before
  <2>6. CASE EnterSigner(p)
    BY <2>6 DEF EnterSigner, InLock, Before
  <2>7. CASE SkipSelfTransfer(p)
    BY <2>7, LeaveSignerType
       DEF SkipSelfTransfer, HasSigner, InLock, After, Rows, Statuses, Txs
  <2>8. CASE Broadcast(p)
    BY <2>8 DEF Broadcast, InLock, After
  <2>9. CASE TransferFails(p)
    <3>1. HasLock(p)
      BY <2>9 DEF TransferFails, LocksHeld, InLock, Before
    <3> QED
      <4>1. /\ queue' \in [Instances -> [Asks -> Seq(Payers)]]
            /\ pc' \in [Payers -> {"queued"} \cup Idle \cup InLock]
            /\ ask' \in [Payers -> Asks]
            /\ snap' \in [Payers -> Rows]
            /\ rest' \in [Payers -> SUBSET Asks]
        BY <2>9, <3>1, ReturnType DEF TransferFails, HasLock
      <4>2. signer' \in [Instances -> Seq(Payers)]
        BY <2>9, <3>1, LeaveSignerType DEF TransferFails, HasSigner
      <4>3. erased' \in [Asks -> Nat]
        BY <2>9 DEF TransferFails
      <4>4. faults' \in Nat
        BY <2>9 DEF TransferFails
      <4> QED
        BY <2>9, <4>1, <4>2, <4>3, <4>4 DEF TransferFails
  <2>10. CASE Mined(p)
    BY <2>10, LeaveSignerType
       DEF Mined, LocksHeld, HasSigner, InLock, After, Rows, Statuses, Txs
  <2>11. CASE WaitFails(p)
    <3>1. HasLock(p) /\ HasSigner(p)
      BY <2>11 DEF WaitFails, LocksHeld, InLock, After
    <3> QED
      <4>1. /\ queue' \in [Instances -> [Asks -> Seq(Payers)]]
            /\ pc' \in [Payers -> {"queued"} \cup Idle \cup InLock]
            /\ ask' \in [Payers -> Asks]
            /\ snap' \in [Payers -> Rows]
            /\ rest' \in [Payers -> SUBSET Asks]
        BY <2>11, <3>1, ReturnType DEF WaitFails, HasLock
      <4>2. signer' \in [Instances -> Seq(Payers)]
        BY <2>11, <3>1, LeaveSignerType DEF WaitFails, HasSigner
      <4>3. erased' \in [Asks -> Nat]
        BY <2>11 DEF WaitFails
      <4> QED
        BY <2>11, <4>1, <4>2, <4>3 DEF WaitFails
  <2>12. CASE SavePaid(p)
    <3>1. HasLock(p)
      BY <2>12 DEF SavePaid, LocksHeld, InLock, After
    <3> QED
      BY <2>12, <3>1, ReturnType, SaveType DEF SavePaid, HasLock
  <2> QED
    BY <1>2, <2>1, <2>2, <2>3, <2>4, <2>5, <2>6, <2>7, <2>8, <2>9, <2>10,
       <2>11, <2>12 DEF Proceed
<1>3. ASSUME NEW p \in Payers, NEW a \in Asks, AdminStart(p, a)
      PROVE  TypeOK'
  BY <1>3, EnqueueType DEF AdminStart
<1>4. CASE AgePast
  BY <1>4 DEF AgePast
<1>5. ASSUME NEW i \in Instances, Crash(i)
      PROVE  TypeOK'
  <2>1. /\ pc' \in [Payers -> {"queued"} \cup Idle \cup InLock]
        /\ snap' \in [Payers -> Rows]
        /\ rest' \in [Payers -> SUBSET Asks]
    BY <1>5, Defaults DEF Crash, Idle
  <2>2. ASSUME NEW r \in Reqs
        PROVE  Answered(req[r]) \in
                 [pc : {"new", "read", "done"}, inst : Instances,
                  ask : Asks, new : Rows]
    BY AnsweredType
  <2>3. req' \in [Reqs -> [pc : {"new", "read", "done"}, inst : Instances,
                           ask : Asks, new : Rows]]
    BY <1>5, <2>2 DEF Crash
  <2>4. /\ queue' \in [Instances -> [Asks -> Seq(Payers)]]
        /\ signer' \in [Instances -> Seq(Payers)]
    BY <1>5 DEF Crash
  <2>5. erased' \in [Asks -> Nat]
    BY <1>5 DEF Crash
  <2> QED
    BY <1>5, <2>1, <2>3, <2>4, <2>5 DEF Crash
<1> QED
  BY <1>1, <1>2, <1>3, <1>4, <1>5 DEF Next
-----------------------------------------------------------------------------
(* The two promise chains are locks.                                       *)

\* The points of a call are distinct.
LEMMA Points ==
  /\ Idle \cap InLock = {} /\ "queued" \notin InLock /\ "wait" \in InLock
  /\ "wait" \notin Idle /\ InLock = Before \cup After
  /\ Before \cap After = {}
BY DEF Idle, InLock, Before, After

\* A call that holds its lock and returns passes it on without taking it from
\* anyone else.
LEMMA ReturnLocks ==
  ASSUME TypeOK, LocksHeld, NEW p \in Payers, HasLock(p), Return(p),
         NEW q \in Payers, pc'[q] \in InLock
  PROVE  q # p /\ pc[q] \in InLock /\ pc'[q] = pc[q] /\ HasLock(q)'
<1> p[1] \in Instances /\ q[1] \in Instances /\ ask[p] \in Asks /\ ask[q] \in Asks
  BY PayerInstance DEF TypeOK
<1>1. q # p
  BY Points DEF TypeOK, Return, Idle
<1>2. pc'[q] = pc[q] /\ HasLock(q)
  BY <1>1 DEF TypeOK, Return, LocksHeld
<1>3. q[1] # p[1] \/ ask[q] # ask[p]
  BY <1>1, <1>2 DEF HasLock
<1>4. queue'[q[1]][ask[q]] = queue[q[1]][ask[q]]
  BY <1>3 DEF TypeOK, Return
<1> QED
  BY <1>1, <1>2, <1>4 DEF HasLock, Return

\* A call that joins a chain takes the lock from nobody.
LEMMA EnqueueLocks ==
  ASSUME TypeOK, LocksHeld, NEW p \in Payers, NEW a \in Asks, Enqueue(p, a),
         NEW q \in Payers, pc'[q] \in InLock
  PROVE  pc'[q] = pc[q] /\ HasLock(q)'
<1> p[1] \in Instances /\ q[1] \in Instances /\ ask[q] \in Asks
  BY PayerInstance DEF TypeOK
<1>1. q # p
  BY Points DEF TypeOK, Enqueue
<1>2. pc'[q] = pc[q] /\ ask'[q] = ask[q] /\ HasLock(q)
  BY <1>1 DEF TypeOK, Enqueue, LocksHeld
<1> DEFINE s == queue[q[1]][ask[q]]
<1>3. s \in Seq(Payers)
  BY DEF TypeOK
<1>4. queue'[q[1]][ask[q]] = s \/ queue'[q[1]][ask[q]] = Append(s, p)
  BY DEF TypeOK, Enqueue
<1>5. s # << >> /\ Head(s) = q
  BY <1>2 DEF HasLock
<1>6. Append(s, p) # << >> /\ Head(Append(s, p)) = q
  BY <1>3, <1>5
<1> QED
  BY <1>2, <1>4, <1>5, <1>6 DEF HasLock

\* A transfer that ends passes the signer on without taking it from anyone.
LEMMA LeaveSignerLocks ==
  ASSUME TypeOK, LocksHeld, NEW p \in Payers, HasSigner(p), LeaveSigner(p),
         NEW q \in Payers, q # p, pc[q] = "wait"
  PROVE  HasSigner(q)'
<1> p[1] \in Instances /\ q[1] \in Instances
  BY PayerInstance
<1>1. HasSigner(q)
  BY DEF LocksHeld
<1>2. q[1] # p[1]
  BY <1>1 DEF HasSigner
<1>3. signer'[q[1]] = signer[q[1]]
  BY <1>2 DEF TypeOK, LeaveSigner
<1> QED
  BY <1>1, <1>3 DEF HasSigner

\* Steps outside the payouts leave the chains alone.
LEMMA RequestFrame ==
  ASSUME NEW r \in Reqs, Request(r)
  PROVE  UNCHANGED <<pc, ask, snap, rest, queue, signer, sent>>
BY DEF Request, CreateFromFulfilledAsk, ConfirmByBuyer, AdminConfirm,
       AdminReject, RecordPayout, InsertRow, SaveRow, Read, calls

\* A step that moves one call within its lock keeps the chains' heads.
LEMMA LocksStep ==
  ASSUME TypeOK, LocksHeld, Next
  PROVE  LocksHeld'
<1>1. ASSUME UNCHANGED <<pc, ask, queue, signer>>
      PROVE  LocksHeld'
  BY <1>1 DEF LocksHeld, HasLock, HasSigner
<1>2. ASSUME NEW r \in Reqs, Request(r)
      PROVE  LocksHeld'
  BY <1>1, <1>2, RequestFrame
<1>3. ASSUME NEW p \in Payers, Proceed(p)
      PROVE  LocksHeld'
  <2> SUFFICES ASSUME NEW q \in Payers
               PROVE  /\ pc'[q] \in InLock => HasLock(q)'
                      /\ pc'[q] = "wait" => HasSigner(q)'
    BY DEF LocksHeld
  <2>0. /\ pc[q] \in InLock => HasLock(q)
        /\ pc[q] = "wait" => HasSigner(q)
    BY DEF LocksHeld
  <2>1. CASE CronStart(p)
    BY <2>0, <2>1, Points DEF CronStart, Idle, TypeOK, HasLock, HasSigner
  <2>2. CASE CronNext(p)
    <3> PICK a \in Asks : Enqueue(p, a)
      BY <2>2 DEF CronNext, TypeOK
    <3>1. signer' = signer
      BY <2>2 DEF CronNext
    <3>2. pc'[q] = "wait" => pc[q] = "wait"
      BY DEF Enqueue, TypeOK
    <3> QED
      BY <2>0, <3>1, <3>2, EnqueueLocks DEF HasSigner
  <2>3. CASE CronEnd(p)
    BY <2>0, <2>3, Points DEF CronEnd, Idle, TypeOK, HasLock, HasSigner
  <2>4. CASE LockedRead(p)
    <3>1. signer' = signer /\ HasLock(p)
      BY <2>4 DEF LockedRead
    <3>2. CASE Return(p)
      <4>1. pc'[q] = "wait" => pc[q] = "wait"
        BY <3>2 DEF Return, TypeOK
      <4> QED
        BY <2>0, <3>1, <3>2, <4>1, ReturnLocks DEF HasSigner
    <3>3. CASE ~Return(p)
      <4>1. /\ UNCHANGED <<queue, ask>>
            /\ pc'[q] = pc[q] \/ (q = p /\ pc'[q] \in {"confirm", "pay"})
        BY <2>4, <3>3 DEF LockedRead, TypeOK
      <4> QED
        BY <2>0, <3>1, <4>1 DEF HasLock, HasSigner
    <3> QED
      BY <3>2, <3>3
  <2>5. CASE SaveConfirmed(p)
    BY <2>0, <2>5 DEF SaveConfirmed, TypeOK, HasLock, HasSigner, InLock, Before
  <2>6. CASE EnterSigner(p)
    <3>1. /\ UNCHANGED <<queue, ask>>
          /\ pc[p] = "pay"
          /\ q = p => pc'[q] = "signer"
          /\ q # p => pc'[q] = pc[q]
      BY <2>6 DEF EnterSigner, TypeOK
    <3>2. pc'[q] \in InLock => HasLock(q)'
      BY <2>0, <3>1 DEF HasLock, InLock, Before
    <3>3. ASSUME pc'[q] = "wait"
          PROVE  HasSigner(q)'
      <4> DEFINE s == signer[q[1]]
      <4>1. s \in Seq(Payers) /\ s # << >> /\ Head(s) = q
        BY <2>0, <3>1, <3>3, PayerInstance DEF HasSigner, TypeOK
      <4>2. Append(s, p) # << >> /\ Head(Append(s, p)) = q
        BY <4>1
      <4>3. signer'[q[1]] = s \/ signer'[q[1]] = Append(s, p)
        BY <2>6, PayerInstance DEF EnterSigner, TypeOK
      <4> QED
        BY <4>1, <4>2, <4>3 DEF HasSigner
    <3> QED
      BY <3>2, <3>3
  <2>7. CASE SkipSelfTransfer(p)
    <3>1. /\ UNCHANGED <<queue, ask>>
          /\ HasSigner(p) /\ LeaveSigner(p)
          /\ pc[p] \in InLock
          /\ q = p => pc'[q] = "save"
          /\ q # p => pc'[q] = pc[q]
      BY <2>7 DEF SkipSelfTransfer, TypeOK, InLock, Before
    <3> QED
      BY <2>0, <3>1, LeaveSignerLocks DEF HasLock
  <2>8. CASE Broadcast(p)
    BY <2>0, <2>8 DEF Broadcast, TypeOK, HasLock, HasSigner, InLock, Before
  <2>9. CASE TransferFails(p)
    <3>1. /\ HasSigner(p) /\ LeaveSigner(p) /\ Return(p)
          /\ pc[p] \in InLock
      BY <2>9 DEF TransferFails, InLock, Before
    <3>2. HasLock(p)
      BY <3>1 DEF LocksHeld
    <3>3. pc'[q] = "wait" => q # p /\ pc[q] = "wait"
      BY <3>1 DEF Return, TypeOK
    <3> QED
      BY <3>1, <3>2, <3>3, ReturnLocks, LeaveSignerLocks
  <2>10. CASE Mined(p)
    <3>1. /\ UNCHANGED <<queue, ask>>
          /\ LeaveSigner(p) /\ pc[p] = "wait"
          /\ q = p => pc'[q] = "save"
          /\ q # p => pc'[q] = pc[q]
      BY <2>10 DEF Mined, TypeOK
    <3>2. HasSigner(p)
      BY <3>1 DEF LocksHeld
    <3> QED
      BY <2>0, <3>1, <3>2, Points, LeaveSignerLocks DEF HasLock
  <2>11. CASE WaitFails(p)
    <3>1. LeaveSigner(p) /\ Return(p) /\ pc[p] = "wait"
      BY <2>11 DEF WaitFails
    <3>2. HasLock(p) /\ HasSigner(p)
      BY <3>1, Points DEF LocksHeld
    <3>3. pc'[q] = "wait" => q # p /\ pc[q] = "wait"
      BY <3>1 DEF Return, TypeOK
    <3> QED
      BY <3>1, <3>2, <3>3, ReturnLocks, LeaveSignerLocks
  <2>12. CASE SavePaid(p)
    <3>1. Return(p) /\ pc[p] \in InLock /\ signer' = signer
      BY <2>12 DEF SavePaid, InLock, After
    <3>2. HasLock(p)
      BY <3>1 DEF LocksHeld
    <3>3. pc'[q] = "wait" => pc[q] = "wait"
      BY <3>1 DEF Return, TypeOK
    <3> QED
      BY <2>0, <3>1, <3>2, <3>3, ReturnLocks DEF HasSigner
  <2> QED
    BY <1>3, <2>1, <2>2, <2>3, <2>4, <2>5, <2>6, <2>7, <2>8, <2>9, <2>10,
       <2>11, <2>12 DEF Proceed
<1>4. ASSUME NEW p \in Payers, NEW a \in Asks, AdminStart(p, a)
      PROVE  LocksHeld'
  <2>1. Enqueue(p, a) /\ signer' = signer
    BY <1>4 DEF AdminStart
  <2>2. \A q \in Payers : pc'[q] = "wait" => pc[q] = "wait"
    BY <2>1 DEF Enqueue, TypeOK
  <2> QED
    BY <2>1, <2>2, EnqueueLocks DEF LocksHeld, HasSigner
<1>5. CASE AgePast
  BY <1>1, <1>5 DEF AgePast, calls
<1>6. ASSUME NEW i \in Instances, Crash(i)
      PROVE  LocksHeld'
  <2> SUFFICES ASSUME NEW q \in Payers, pc'[q] \in InLock
               PROVE  /\ HasLock(q)'
                      /\ pc'[q] = "wait" => HasSigner(q)'
    BY Points DEF LocksHeld
  <2>1. q[1] # i /\ pc'[q] = pc[q] /\ ask' = ask
    BY <1>6 DEF Crash, InLock, Before, After
  <2>2. queue'[q[1]] = queue[q[1]] /\ signer'[q[1]] = signer[q[1]]
    BY <1>6, <2>1, PayerInstance DEF Crash, TypeOK
  <2> QED
    BY <2>1, <2>2, Points DEF LocksHeld, HasLock, HasSigner
<1> QED
  BY <1>2, <1>3, <1>4, <1>5, <1>6 DEF Next

-----------------------------------------------------------------------------
(* The account of transfers.  TransfersAccounted alone is not inductive: a *)
(* payout may only start when every transfer of its instance for that sale *)
(* has been forgotten, so the account must be settled whenever the row is  *)
(* not 'paid' and no transfer of the instance is in flight.                *)

InFlight(i, a) ==
  \E p \in Payers : p[1] = i /\ ask[p] = a /\ pc[p] \in After

Settled(i, a) == sent[i][a] <= erased[a]

SettledWhenUnpaid ==
  \A i \in Instances, a \in Asks :
    row[a].status # "paid" /\ ~InFlight(i, a) => Settled(i, a)

SettledBefore ==
  \A p \in Payers : pc[p] \in Before => Settled(p[1], ask[p])

\* What a payout saves at its end is a paid row.
SnapPaid == \A p \in Payers : pc[p] = "save" => snap[p].status = "paid"

IInv == TypeOK /\ LocksHeld /\ TransfersAccounted
               /\ SettledWhenUnpaid /\ SettledBefore /\ SnapPaid

Account == TransfersAccounted /\ SettledWhenUnpaid /\ SettledBefore

\* One call of an instance at a time is in the lock of an ask.
LEMMA OneInLock ==
  ASSUME LocksHeld, NEW p \in Payers, NEW q \in Payers,
         pc[p] \in InLock, HasLock(q), p[1] = q[1], ask[p] = ask[q]
  PROVE  p = q
BY DEF LocksHeld, HasLock

\* A save, of any row over any row, keeps the account as long as no call
\* leaves the lock and no transfer is sent.
LEMMA SaveAccount ==
  ASSUME IInv, NEW b \in Asks, NEW new \in Rows, Save(b, new),
         UNCHANGED <<ask, sent>>,
         \A q \in Payers : (pc'[q] \in After <=> pc[q] \in After)
                           /\ (pc'[q] \in Before => pc[q] \in Before)
  PROVE  Account'
<1>1. /\ row' \in [Asks -> Rows]
      /\ erased' \in [Asks -> Nat]
      /\ \A a \in Asks : erased'[a] >= erased[a]
      /\ Erases(b, new) => erased'[b] = erased[b] + 1
      /\ row'[b] = new
      /\ \A a \in Asks : a # b => row'[a] = row[a]
  BY SaveType DEF IInv
<1>2. sent \in [Instances -> [Asks -> Nat]] /\ erased \in [Asks -> Nat]
  BY DEF IInv, TypeOK
<1>3. TransfersAccounted'
  BY <1>1, <1>2 DEF IInv, TransfersAccounted
<1>4. SettledBefore'
  BY <1>1, <1>2, PayerInstance DEF IInv, TypeOK, SettledBefore, Settled
<1>5. ASSUME NEW i \in Instances, NEW a \in Asks,
             row'[a].status # "paid", ~InFlight(i, a)'
      PROVE  Settled(i, a)'
  <2>1. ~InFlight(i, a)
    BY <1>5 DEF InFlight
  <2>2. CASE row[a].status # "paid"
    BY <1>1, <1>2, <2>1, <2>2 DEF IInv, SettledWhenUnpaid, Settled
  <2>3. CASE row[a].status = "paid"
    <3>1. a = b /\ Erases(b, new)
      BY <1>1, <1>5, <2>3 DEF Erases
    <3>2. sent[i][a] <= 1 + erased[a]
      BY DEF IInv, TransfersAccounted
    <3> QED
      BY <1>1, <1>2, <3>1, <3>2 DEF Settled
  <2> QED
    BY <2>2, <2>3
<1> QED
  BY <1>3, <1>4, <1>5 DEF Account, SettledWhenUnpaid

\* Steps that touch neither table, count nor chain keep the account when no
\* transfer starts or ends and only settled calls come before the broadcast.
LEMMA FrameAccount ==
  ASSUME IInv, UNCHANGED <<row, sent, erased>>,
         \A q \in Payers :
           /\ pc'[q] \in After => pc[q] \in After /\ ask'[q] = ask[q]
           /\ pc[q] \in After => pc'[q] \in After /\ ask'[q] = ask[q]
           /\ pc'[q] \in Before => Settled(q[1], ask'[q])
  PROVE  Account'
<1>1. SettledBefore'
  BY DEF SettledBefore, Settled
<1>2. TransfersAccounted'
  BY DEF IInv, TransfersAccounted
<1>3. SettledWhenUnpaid'
  BY DEF IInv, SettledWhenUnpaid, Settled, InFlight
<1> QED
  BY <1>1, <1>2, <1>3 DEF Account

\* Every step keeps the account.
LEMMA AccountStep ==
  ASSUME IInv, Next
  PROVE  Account'
<1> TypeOK /\ LocksHeld
  BY DEF IInv
<1>0. \A p \in Payers : pc[p] \in Before => Settled(p[1], ask[p])
  BY DEF IInv, SettledBefore
<1>1. ASSUME NEW r \in Reqs, Request(r)
      PROVE  Account'
  <2>1. UNCHANGED <<pc, ask, snap, rest, queue, signer, sent>>
    BY <1>1, RequestFrame
  <2>2. CASE UNCHANGED <<row, erased>>
    BY <1>0, <2>1, <2>2, FrameAccount DEF TypeOK
  <2>3. CASE Save(req[r].ask, req[r].new)
    <3>1. req[r].ask \in Asks /\ req[r].new \in Rows
      BY DEF TypeOK
    <3> QED
      BY <2>1, <2>3, <3>1, SaveAccount
  <2> QED
    BY <1>1, <2>2, <2>3
       DEF Request, CreateFromFulfilledAsk, ConfirmByBuyer, AdminConfirm,
           AdminReject, RecordPayout, InsertRow, SaveRow, Read
<1>2. ASSUME NEW p \in Payers, Proceed(p)
      PROVE  Account'
  <2>0. p[1] \in Instances /\ ask[p] \in Asks /\ snap[p] \in Rows
    BY PayerInstance DEF TypeOK
  <2>1. CASE CronStart(p) \/ CronEnd(p)
    <3>1. UNCHANGED <<row, sent, erased, ask>>
      BY <2>1 DEF CronStart, CronEnd
    <3>2. \A q \in Payers : pc'[q] = pc[q] \/ (pc[q] \in Idle /\ pc'[q] \in Idle)
      BY <2>1 DEF CronStart, CronEnd, TypeOK, Idle
    <3> QED
      BY <1>0, <3>1, <3>2, Points, FrameAccount
  <2>2. CASE CronNext(p)
    <3>1. UNCHANGED <<row, sent, erased>> /\ pc[p] = "loop"
      BY <2>2 DEF CronNext
    <3>2. PICK a \in Asks : Enqueue(p, a)
      BY <2>2 DEF CronNext, TypeOK
    <3>3. \A q \in Payers : \/ pc'[q] = pc[q] /\ ask'[q] = ask[q]
                            \/ pc[q] = "loop" /\ pc'[q] = "queued"
      BY <3>1, <3>2 DEF Enqueue, TypeOK
    <3> QED
      BY <1>0, <3>1, <3>3, FrameAccount DEF Before, After
  <2>3. CASE LockedRead(p)
    <3>1. /\ UNCHANGED <<row, sent, erased, ask>>
          /\ pc[p] = "queued" /\ HasLock(p)
          /\ \A q \in Payers : q # p => pc'[q] = pc[q]
      BY <2>3 DEF LockedRead, Return, TypeOK
    <3>2. pc'[p] \notin After
      BY <2>3 DEF LockedRead, Return, TypeOK, After
    <3>3. ASSUME pc'[p] \in Before
          PROVE  Settled(p[1], ask[p])
      <4>1. row[ask[p]].status # "paid"
        BY <2>3, <3>3
           DEF LockedRead, Payable, Return, TypeOK, Before, Open
      <4>2. ~InFlight(p[1], ask[p])
        BY <3>1, OneInLock, Points DEF InFlight
      <4> QED
        BY <2>0, <4>1, <4>2 DEF IInv, SettledWhenUnpaid
    <3> QED
      BY <1>0, <3>1, <3>2, <3>3, FrameAccount DEF After
  <2>4. CASE SaveConfirmed(p)
    <3>1. /\ UNCHANGED <<ask, sent>> /\ Save(ask[p], snap[p])
          /\ pc[p] = "confirm" /\ pc'[p] = "pay"
          /\ \A q \in Payers : q # p => pc'[q] = pc[q]
      BY <2>4 DEF SaveConfirmed, TypeOK
    <3>2. \A q \in Payers : (pc'[q] \in After <=> pc[q] \in After)
                            /\ (pc'[q] \in Before => pc[q] \in Before)
      BY <3>1 DEF Before, After
    <3> QED
      BY <2>0, <3>1, <3>2, SaveAccount
  <2>5. CASE EnterSigner(p)
    <3>1. /\ UNCHANGED <<row, sent, erased, ask>>
          /\ pc[p] = "pay" /\ pc'[p] = "signer"
          /\ \A q \in Payers : q # p => pc'[q] = pc[q]
      BY <2>5 DEF EnterSigner, TypeOK
    <3> QED
      BY <1>0, <3>1, FrameAccount DEF Before, After
  <2>6. CASE Mined(p)
    <3>1. /\ UNCHANGED <<row, sent, erased, ask>>
          /\ pc[p] = "wait" /\ pc'[p] = "save"
          /\ \A q \in Payers : q # p => pc'[q] = pc[q]
      BY <2>6 DEF Mined, TypeOK
    <3> QED
      BY <1>0, <3>1, FrameAccount DEF Before, After
  <2>7. CASE SkipSelfTransfer(p)
    <3>1. /\ UNCHANGED <<row, sent, erased, ask>>
          /\ pc[p] = "signer" /\ pc'[p] = "save"
          /\ \A q \in Payers : q # p => pc'[q] = pc[q]
      BY <2>7 DEF SkipSelfTransfer, TypeOK
    <3>2. TransfersAccounted' /\ SettledBefore'
      BY <3>1 DEF IInv, TransfersAccounted, SettledBefore, Settled, Before
    <3>3. SettledWhenUnpaid'
      BY <3>1 DEF IInv, SettledWhenUnpaid, Settled, InFlight, After
    <3> QED
      BY <3>2, <3>3 DEF Account
  <2>8. CASE Broadcast(p)
    <3>1. /\ UNCHANGED <<row, erased, ask>>
          /\ pc[p] = "signer" /\ pc'[p] = "wait"
          /\ \A q \in Payers : q # p => pc'[q] = pc[q]
          /\ sent' = [sent EXCEPT ![p[1]][ask[p]] = @ + 1]
      BY <2>8 DEF Broadcast, TypeOK
    <3>2. sent[p[1]][ask[p]] <= erased[ask[p]]
      BY <1>0, <3>1 DEF Settled, Before
    <3>3. \A i \in Instances, a \in Asks :
            \/ i = p[1] /\ a = ask[p] /\ sent'[i][a] = sent[i][a] + 1
            \/ (i # p[1] \/ a # ask[p]) /\ sent'[i][a] = sent[i][a]
      BY <2>0, <3>1 DEF TypeOK
    <3>4. TransfersAccounted'
      BY <2>0, <3>1, <3>2, <3>3 DEF IInv, TransfersAccounted, TypeOK
    <3>5. HasLock(p)
      BY <3>1 DEF LocksHeld, InLock, Before
    <3>6. SettledBefore'
      <4> SUFFICES ASSUME NEW q \in Payers, pc'[q] \in Before
                   PROVE  Settled(q[1], ask[q])'
        BY DEF SettledBefore
      <4>1. q # p /\ pc[q] \in Before
        BY <3>1 DEF Before
      <4>2. q[1] # p[1] \/ ask[q] # ask[p]
        BY <3>5, <4>1, OneInLock, Points
      <4> QED
        BY <1>0, <3>1, <3>3, <4>1, <4>2, PayerInstance DEF Settled, TypeOK
    <3>7. InFlight(p[1], ask[p])'
      BY <3>1 DEF InFlight, After
    <3>8. \A i \in Instances, a \in Asks : InFlight(i, a) => InFlight(i, a)'
      BY <3>1 DEF InFlight, After
    <3>9. SettledWhenUnpaid'
      BY <3>1, <3>3, <3>7, <3>8 DEF IInv, SettledWhenUnpaid, Settled
    <3> QED
      BY <3>4, <3>6, <3>9 DEF Account
  <2>9. CASE TransferFails(p)
    <3>1. /\ UNCHANGED <<row, sent, erased, ask>>
          /\ pc[p] = "signer" /\ pc'[p] \in Idle
          /\ \A q \in Payers : q # p => pc'[q] = pc[q]
      BY <2>9 DEF TransferFails, Return, TypeOK, Idle
    <3>2. \A q \in Payers : \/ pc'[q] = pc[q]
                            \/ pc[q] \notin After /\ pc'[q] \in Idle
      BY <3>1 DEF After
    <3> QED
      BY <1>0, <3>1, <3>2, Points, FrameAccount
  <2>10. CASE WaitFails(p)
    <3>1. /\ UNCHANGED <<row, sent, ask>>
          /\ pc'[p] \in Idle
          /\ \A q \in Payers : q # p => pc'[q] = pc[q]
          /\ erased' = [erased EXCEPT ![ask[p]] = @ + 1]
      BY <2>10 DEF WaitFails, Return, TypeOK, Idle
    <3>2. \A a \in Asks : erased'[a] \in Nat /\ erased'[a] >= erased[a]
      BY <2>0, <3>1 DEF TypeOK
    <3>3. \A i \in Instances, a \in Asks : sent[i][a] \in Nat /\ erased[a] \in Nat
      BY DEF TypeOK
    <3>4. TransfersAccounted'
      BY <3>1, <3>2, <3>3 DEF IInv, TransfersAccounted
    <3>5. SettledBefore'
      <4> SUFFICES ASSUME NEW q \in Payers, pc'[q] \in Before
                   PROVE  Settled(q[1], ask[q])'
        BY DEF SettledBefore
      <4>1. pc[q] \in Before /\ ask'[q] = ask[q] /\ ask[q] \in Asks
        BY <3>1, Points DEF TypeOK
      <4>2. sent[q[1]][ask[q]] <= erased[ask[q]]
        BY <1>0, <4>1 DEF Settled
      <4> QED
        BY <3>1, <3>2, <3>3, <4>1, <4>2, PayerInstance DEF Settled
    <3>6. ASSUME NEW i \in Instances, NEW a \in Asks,
                 row'[a].status # "paid", ~InFlight(i, a)'
          PROVE  Settled(i, a)'
      <4>1. CASE a = ask[p]
        <5>1. sent[i][a] <= 1 + erased[a] /\ erased'[a] = erased[a] + 1
          BY <3>1, <4>1 DEF IInv, TransfersAccounted, TypeOK
        <5> QED
          BY <3>1, <3>3, <5>1 DEF Settled
      <4>2. CASE a # ask[p]
        <5>1. ~InFlight(i, a)
          BY <3>1, <3>6, <4>2 DEF InFlight
        <5> QED
          BY <3>1, <3>2, <3>3, <3>6, <5>1 DEF IInv, SettledWhenUnpaid, Settled
      <4> QED
        BY <4>1, <4>2
    <3> QED
      BY <3>4, <3>5, <3>6 DEF Account, SettledWhenUnpaid
  <2>11. CASE SavePaid(p)
    <3>1. /\ UNCHANGED <<sent, ask>> /\ pc[p] \in After
          /\ pc'[p] \in Idle
          /\ \A q \in Payers : q # p => pc'[q] = pc[q]
          /\ Save(ask[p], snap[p])
      BY <2>11 DEF SavePaid, Return, TypeOK, Idle, After
    <3>2. /\ \A a \in Asks : erased'[a] \in Nat /\ erased'[a] >= erased[a]
          /\ Erases(ask[p], snap[p]) => erased'[ask[p]] = erased[ask[p]] + 1
          /\ row'[ask[p]] = snap[p]
          /\ \A a \in Asks : a # ask[p] => row'[a] = row[a]
      BY <2>0, <3>1, SaveType
    <3>3. \A i \in Instances, a \in Asks : sent[i][a] \in Nat /\ erased[a] \in Nat
      BY DEF TypeOK
    <3>4. TransfersAccounted'
      BY <3>1, <3>2, <3>3 DEF IInv, TransfersAccounted
    <3>5. SettledBefore'
      <4> SUFFICES ASSUME NEW q \in Payers, pc'[q] \in Before
                   PROVE  Settled(q[1], ask[q])'
        BY DEF SettledBefore
      <4>1. pc[q] \in Before /\ ask'[q] = ask[q] /\ ask[q] \in Asks
        BY <3>1, Points DEF TypeOK
      <4>2. sent[q[1]][ask[q]] <= erased[ask[q]]
        BY <1>0, <4>1 DEF Settled
      <4> QED
        BY <3>1, <3>2, <3>3, <4>1, <4>2, PayerInstance DEF Settled
    <3>6. snap[p].status = "paid"
      BY <2>11 DEF SavePaid, IInv, SnapPaid
    <3>7. ASSUME NEW i \in Instances, NEW a \in Asks,
                 row'[a].status # "paid", ~InFlight(i, a)'
          PROVE  Settled(i, a)'
      <4>1. a # ask[p]
        BY <3>2, <3>6, <3>7
      <4>2. ~InFlight(i, a)
        BY <3>1, <3>7, <4>1 DEF InFlight
      <4> QED
        BY <3>1, <3>2, <3>3, <3>7, <4>1, <4>2
           DEF IInv, SettledWhenUnpaid, Settled
    <3> QED
      BY <3>4, <3>5, <3>7 DEF Account, SettledWhenUnpaid
  <2> QED
    BY <1>2, <2>1, <2>2, <2>3, <2>4, <2>5, <2>6, <2>7, <2>8, <2>9, <2>10,
       <2>11 DEF Proceed
<1>3. ASSUME NEW p \in Payers, NEW a \in Asks, AdminStart(p, a)
      PROVE  Account'
  <2>1. /\ UNCHANGED <<row, sent, erased>>
        /\ pc[p] = "idle" /\ pc'[p] = "queued"
        /\ \A q \in Payers : q # p => pc'[q] = pc[q] /\ ask'[q] = ask[q]
    BY <1>3 DEF AdminStart, Enqueue, TypeOK
  <2> QED
    BY <1>0, <2>1, FrameAccount DEF Before, After
<1>4. CASE AgePast
  BY <1>0, <1>4, FrameAccount DEF AgePast, calls
<1>5. ASSUME NEW i \in Instances, Crash(i)
      PROVE  Account'
  <2>1. /\ UNCHANGED <<row, sent, ask>>
        /\ \A q \in Payers : q[1] = i => pc'[q] = "idle"
        /\ \A q \in Payers : q[1] # i => pc'[q] = pc[q]
    BY <1>5 DEF Crash
  <2>2. \A a \in Asks : /\ erased'[a] \in Nat /\ erased'[a] >= erased[a]
                        /\ InFlight(i, a) => erased'[a] = erased[a] + 1
    BY <1>5 DEF Crash, TypeOK, InFlight
  <2>3. \A j \in Instances, a \in Asks : sent[j][a] \in Nat /\ erased[a] \in Nat
    BY DEF TypeOK
  <2>4. TransfersAccounted'
    BY <2>1, <2>2, <2>3 DEF IInv, TransfersAccounted
  <2>5. SettledBefore'
    <3> SUFFICES ASSUME NEW q \in Payers, pc'[q] \in Before
                 PROVE  Settled(q[1], ask[q])'
      BY DEF SettledBefore
    <3>1. pc[q] \in Before
      BY <2>1 DEF Before
    <3> QED
      BY <1>0, <2>1, <2>2, <2>3, <3>1, PayerInstance DEF Settled, TypeOK
  <2>6. ASSUME NEW j \in Instances, NEW a \in Asks,
               row'[a].status # "paid", ~InFlight(j, a)'
        PROVE  Settled(j, a)'
    <3>1. CASE InFlight(j, a)
      <4>1. j = i
        BY <2>1, <2>6, <3>1 DEF InFlight
      <4>2. sent[j][a] <= 1 + erased[a]
        BY DEF IInv, TransfersAccounted
      <4> QED
        BY <2>1, <2>2, <2>3, <3>1, <4>1, <4>2 DEF Settled
    <3>2. CASE ~InFlight(j, a)
      BY <2>1, <2>2, <2>3, <2>6, <3>2 DEF IInv, SettledWhenUnpaid, Settled
    <3> QED
      BY <3>1, <3>2
  <2> QED
    BY <2>4, <2>5, <2>6 DEF Account, SettledWhenUnpaid
<1> QED
  BY <1>1, <1>2, <1>3, <1>4, <1>5 DEF Next

-----------------------------------------------------------------------------
\* The row a payout saves last is written together with its last move.
LEMMA SnapStep ==
  ASSUME TypeOK, SnapPaid, Next
  PROVE  SnapPaid'
<1> SUFFICES ASSUME NEW q \in Payers, pc'[q] = "save"
             PROVE  snap'[q].status = "paid"
  BY DEF SnapPaid
<1> pc[q] = "save" => snap[q].status = "paid"
  BY DEF SnapPaid
<1> USE DEF TypeOK, calls
<1>1. ASSUME NEW r \in Reqs, Request(r)
      PROVE  snap'[q].status = "paid"
  BY <1>1, RequestFrame
<1>2. ASSUME NEW p \in Payers, Proceed(p)
      PROVE  snap'[q].status = "paid"
  <2>1. CASE SkipSelfTransfer(p) \/ Mined(p)
    BY <2>1 DEF SkipSelfTransfer, Mined
  <2>2. CASE LockedRead(p) \/ TransferFails(p) \/ WaitFails(p) \/ SavePaid(p)
    <3>1. q # p
      BY <2>2 DEF LockedRead, TransferFails, WaitFails, SavePaid, Return
    <3> QED
      BY <2>2, <3>1 DEF LockedRead, TransferFails, WaitFails, SavePaid, Return
  <2>3. CASE CronStart(p) \/ CronEnd(p) \/ SaveConfirmed(p) \/ EnterSigner(p)
                          \/ Broadcast(p)
    BY <2>3 DEF CronStart, CronEnd, SaveConfirmed, EnterSigner, Broadcast
  <2>4. CASE CronNext(p)
    BY <2>4 DEF CronNext, Enqueue
  <2> QED
    BY <1>2, <2>1, <2>2, <2>3, <2>4 DEF Proceed
<1>3. ASSUME NEW p \in Payers, NEW a \in Asks, AdminStart(p, a)
      PROVE  snap'[q].status = "paid"
  BY <1>3 DEF AdminStart, Enqueue
<1>4. CASE AgePast
  BY <1>4 DEF AgePast
<1>5. ASSUME NEW i \in Instances, Crash(i)
      PROVE  snap'[q].status = "paid"
  BY <1>5 DEF Crash
<1> QED
  BY <1>1, <1>2, <1>3, <1>4, <1>5 DEF Next

\* The invariant holds at the start.
LEMMA InitIInv == Init => IInv
<1> SUFFICES ASSUME Init PROVE IInv
  OBVIOUS
<1>1. TypeOK
  <2>1. \A i \in Instances : << >> \in Seq(Payers)
    OBVIOUS
  <2> QED
    BY <2>1, Defaults DEF Init, TypeOK, Idle
<1>2. LocksHeld /\ SnapPaid /\ SettledBefore
  BY DEF Init, LocksHeld, SnapPaid, SettledBefore, InLock, Before, After
<1>3. TransfersAccounted /\ SettledWhenUnpaid
  BY DEF Init, TransfersAccounted, SettledWhenUnpaid, Settled
<1> QED
  BY <1>1, <1>2, <1>3 DEF IInv

\* Every step keeps it.
LEMMA NextIInv == IInv /\ [Next]_vars => IInv'
<1>1. CASE Next
  BY <1>1, TypeStep, LocksStep, AccountStep, SnapStep DEF IInv, Account
<1>2. CASE UNCHANGED vars
  BY <1>2 DEF vars, calls, IInv, TypeOK, LocksHeld, HasLock, HasSigner,
              TransfersAccounted, SettledWhenUnpaid, Settled, InFlight,
              SettledBefore, SnapPaid
<1> QED
  BY <1>1, <1>2

\* The inductive invariant holds in every reachable state.
LEMMA Invariance == Spec => []IInv
BY InitIInv, NextIInv, PTL DEF Spec

\* The state stays within its types whatever interleaves: saves of stale rows,
\* overlapping cron runs, failed transfers and crashes.
THEOREM TypeCorrect == Spec => []TypeOK
<1>1. IInv => TypeOK
  BY DEF IInv
<1> QED
  BY <1>1, Invariance, PTL

\* withPayoutLock and withSignerLock are locks: in each instance one payout of
\* a row is between its read and its return, and one transfer is in flight.
THEOREM LocksExclude == Spec => []PayoutExclusion
<1>1. IInv => PayoutExclusion
  BY DEF IInv, LocksHeld, HasLock, HasSigner, PayoutExclusion
<1> QED
  BY <1>1, Invariance, PTL

\* An instance sends at most one transfer for a sale, plus one for each time
\* the record of a payout was lost.
THEOREM PayoutsAccounted == Spec => []TransfersAccounted
<1>1. IInv => TransfersAccounted
  BY DEF IInv
<1> QED
  BY <1>1, Invariance, PTL

-----------------------------------------------------------------------------
(* The table only goes forward.                                            *)

\* What a request or a payout will save ends neither in no row nor, but for the
\* insert, in one that waits for its buyer.
Verdicts == {"confirmed", "rejected", "paid"}
SavesKnown ==
  /\ \A r \in Reqs :
       req[r].pc = "read" => req[r].new.status \in Verdicts \cup {"pending_confirm"}
  /\ \A p \in Payers : pc[p] = "confirm" => snap[p].status = "confirmed"

LEMMA SavesStep ==
  ASSUME TypeOK, SavesKnown, Next
  PROVE  SavesKnown'
<1> USE DEF TypeOK, calls
<1>0. \A r \in Reqs : Answered(req[r]).pc = "done"
  BY DEF Answered
<1>1. ASSUME NEW q \in Reqs, req'[q].pc = "read"
      PROVE  req'[q].new.status \in Verdicts \cup {"pending_confirm"}
  <2>1. CASE req'[q] = req[q]
    BY <1>1, <2>1 DEF SavesKnown
  <2>2. CASE req'[q] # req[q]
    <3>1. CASE \E i \in Instances : Crash(i)
      <4>1. req'[q] = Answered(req[q])
        BY <2>2, <3>1 DEF Crash
      <4> QED BY <1>0, <1>1, <4>1
    <3>2. ASSUME NEW r \in Reqs, Request(r)
          PROVE  req'[q].new.status \in Verdicts \cup {"pending_confirm"}
      <4>1. CASE InsertRow(r) \/ SaveRow(r)
        <5>1. req' = [req EXCEPT ![r] = Answered(req[r])]
          BY <4>1 DEF InsertRow, SaveRow
        <5>2. req'[q] = Answered(req[q])
          BY <2>2, <5>1
        <5> QED BY <1>0, <1>1, <5>2
      <4>2. ASSUME NEW i \in Instances, NEW a \in Asks, NEW accepts, NEW new \in Rows,
                   Read(r, i, a, accepts, new),
                   new.status \in Verdicts \cup {"pending_confirm"}
            PROVE  req'[q].new.status \in Verdicts \cup {"pending_confirm"}
        BY <2>2, <4>2 DEF Read
      <4>3. ASSUME NEW i \in Instances, NEW a \in Asks,
                   \/ CreateFromFulfilledAsk(r, i, a) \/ ConfirmByBuyer(r, i, a)
                   \/ AdminConfirm(r, i, a) \/ AdminReject(r, i, a)
                   \/ RecordPayout(r, i, a)
            PROVE  req'[q].new.status \in Verdicts \cup {"pending_confirm"}
        <5>1. /\ [status |-> "pending_confirm", tx |-> "none"] \in Rows
              /\ [status |-> "paid", tx |-> "oob"] \in Rows
              /\ [row[a] EXCEPT !.status = "confirmed"] \in Rows
              /\ [row[a] EXCEPT !.status = "rejected"] \in Rows
          <6>1. row[a] \in Rows
            OBVIOUS
          <6>2. /\ [status |-> "pending_confirm", tx |-> "none"] \in Rows
                /\ [status |-> "paid", tx |-> "oob"] \in Rows
            BY DEF Rows, Statuses, Txs
          <6>3. /\ [row[a] EXCEPT !.status = "confirmed"] \in Rows
                /\ [row[a] EXCEPT !.status = "rejected"] \in Rows
            BY <6>1 DEF Rows, Statuses
          <6> QED BY <6>2, <6>3
        <5>2. /\ [row[a] EXCEPT !.status = "confirmed"].status = "confirmed"
              /\ [row[a] EXCEPT !.status = "rejected"].status = "rejected"
          BY DEF Rows
        <5> QED BY <4>2, <4>3, <5>1, <5>2
                   DEF CreateFromFulfilledAsk, ConfirmByBuyer, AdminConfirm, AdminReject,
                       RecordPayout, Verdicts
      <4> QED BY <3>2, <4>1, <4>3 DEF Request
    <3>3. ASSUME NEW p \in Payers, Proceed(p) PROVE UNCHANGED req
      BY <3>3 DEF Proceed, CronStart, CronNext, CronEnd, LockedRead, SaveConfirmed,
                  EnterSigner, SkipSelfTransfer, Broadcast, TransferFails, Mined,
                  WaitFails, SavePaid
    <3>4. (\E p \in Payers, a \in Asks : AdminStart(p, a)) \/ AgePast => UNCHANGED req
      BY DEF AdminStart, AgePast
    <3> QED BY <2>2, <3>1, <3>2, <3>3, <3>4 DEF Next
  <2> QED BY <2>1, <2>2
<1>2. ASSUME NEW q \in Payers, pc'[q] = "confirm"
      PROVE  snap'[q].status = "confirmed"
  <2>0. pc[q] = "confirm" => snap[q].status = "confirmed"
    BY DEF SavesKnown
  <2>1. ASSUME NEW r \in Reqs, Request(r) PROVE snap'[q].status = "confirmed"
    BY <1>2, <2>0, <2>1, RequestFrame
  <2>2. ASSUME NEW p \in Payers, Proceed(p) PROVE snap'[q].status = "confirmed"
    <3>1. CASE LockedRead(p) /\ Payable(row[ask[p]])
      <4>1. row[ask[p]] \in Rows
        OBVIOUS
      <4>2. [row[ask[p]] EXCEPT !.status = "confirmed"].status = "confirmed"
        BY <4>1 DEF Rows
      <4> QED BY <1>2, <2>0, <3>1, <4>2 DEF LockedRead
    <3>2. CASE \/ LockedRead(p) /\ ~Payable(row[ask[p]])
               \/ TransferFails(p) \/ WaitFails(p) \/ SavePaid(p)
      <4>1. Return(p)
        BY <3>2 DEF LockedRead, TransferFails, WaitFails, SavePaid
      <4> QED BY <1>2, <2>0, <4>1 DEF Return
    <3>3. CASE SkipSelfTransfer(p) \/ Mined(p)
      BY <1>2, <2>0, <3>3 DEF SkipSelfTransfer, Mined
    <3>4. CASE \/ CronStart(p) \/ CronEnd(p) \/ SaveConfirmed(p) \/ EnterSigner(p)
               \/ Broadcast(p)
      BY <1>2, <2>0, <3>4 DEF CronStart, CronEnd, SaveConfirmed, EnterSigner, Broadcast
    <3>5. CASE CronNext(p)
      BY <1>2, <2>0, <3>5 DEF CronNext, Enqueue
    <3> QED BY <2>2, <3>1, <3>2, <3>3, <3>4, <3>5 DEF Proceed
  <2>3. ASSUME NEW p \in Payers, NEW a \in Asks, AdminStart(p, a)
        PROVE  snap'[q].status = "confirmed"
    BY <1>2, <2>0, <2>3 DEF AdminStart, Enqueue
  <2>4. CASE AgePast
    BY <1>2, <2>0, <2>4 DEF AgePast
  <2>5. ASSUME NEW i \in Instances, Crash(i) PROVE snap'[q].status = "confirmed"
    BY <1>2, <2>0, <2>5 DEF Crash
  <2> QED BY <2>1, <2>2, <2>3, <2>4, <2>5 DEF Next
<1> QED BY <1>1, <1>2 DEF SavesKnown

\* What a step may do to a row.
Forward(a) ==
  /\ row[a].status # "none" => row'[a].status # "none"
  /\ row'[a].status = "pending_confirm" => row[a].status \in {"none", "pending_confirm"}

LEMMA RowsForward ==
  ASSUME IInv, SavesKnown, [Next]_vars, NEW a \in Asks
  PROVE  Forward(a)
<1> USE DEF IInv, TypeOK, calls
<1>1. CASE row' = row
  BY <1>1 DEF Forward
<1>2. ASSUME NEW b \in Asks, NEW new \in Rows, Save(b, new), new.status \in Verdicts
      PROVE  Forward(a)
  BY <1>2, SaveType DEF Forward, Verdicts
<1>3. ASSUME NEW r \in Reqs, Request(r) PROVE Forward(a)
  <2> DEFINE b == req[r].ask
             new == req[r].new
  <2>1. CASE InsertRow(r) /\ InsertAllowed(b)
    <3>1. Save(b, new) /\ row[b].status = "none" /\ new.status = "pending_confirm"
      BY <2>1 DEF InsertRow, InsertAllowed
    <3>2. row'[b] = new /\ \A c \in Asks : c # b => row'[c] = row[c]
      BY <3>1, SaveType
    <3> QED BY <3>1, <3>2 DEF Forward
  <2>2. CASE InsertRow(r) /\ ~InsertAllowed(b)
    BY <1>1, <2>2 DEF InsertRow
  <2>3. CASE SaveRow(r)
    BY <1>2, <2>3 DEF SaveRow, SavesKnown
  <2>4. CASE \E i \in Instances, c \in Asks :
               \/ CreateFromFulfilledAsk(r, i, c) \/ ConfirmByBuyer(r, i, c)
               \/ AdminConfirm(r, i, c) \/ AdminReject(r, i, c) \/ RecordPayout(r, i, c)
    BY <1>1, <2>4 DEF CreateFromFulfilledAsk, ConfirmByBuyer, AdminConfirm, AdminReject,
                      RecordPayout, Read
  <2> QED BY <1>3, <2>1, <2>2, <2>3, <2>4 DEF Request
<1>4. ASSUME NEW p \in Payers, Proceed(p) PROVE Forward(a)
  <2>1. CASE SaveConfirmed(p)
    BY <1>2, <2>1 DEF SaveConfirmed, SavesKnown, Verdicts
  <2>2. CASE SavePaid(p)
    BY <1>2, <2>2 DEF SavePaid, SnapPaid, Verdicts
  <2>3. CASE ~(SaveConfirmed(p) \/ SavePaid(p))
    BY <1>1, <1>4, <2>3 DEF Proceed, CronStart, CronNext, CronEnd, LockedRead,
                  EnterSigner, SkipSelfTransfer, Broadcast, TransferFails, Mined, WaitFails
  <2> QED BY <2>1, <2>2, <2>3
<1>5. ASSUME NEW p \in Payers, NEW b \in Asks, AdminStart(p, b) PROVE Forward(a)
  BY <1>1, <1>5 DEF AdminStart
<1>6. CASE AgePast \/ \E i \in Instances : Crash(i)
  BY <1>1, <1>6 DEF AgePast, Crash
<1>7. CASE UNCHANGED vars
  BY <1>1, <1>7 DEF vars
<1> QED BY <1>3, <1>4, <1>5, <1>6, <1>7 DEF Next

LEMMA SavesInvariance == Spec => []SavesKnown
<1>1. Init => SavesKnown
  BY DEF Init, SavesKnown
<1>2. TypeOK /\ SavesKnown /\ [Next]_vars => SavesKnown'
  <2>1. CASE Next
    BY <2>1, SavesStep
  <2>2. CASE UNCHANGED vars
    BY <2>2 DEF vars, calls, SavesKnown
  <2> QED BY <2>1, <2>2
<1> QED BY <1>1, <1>2, TypeCorrect, PTL DEF Spec

\* A row is not deleted and never waits for its buyer a second time, whatever
\* copies requests and payouts save over each other: the creation that lost to
\* another is refused by the unique index and does not reset the row.
THEOREM RowsNeverReopen == Spec => LedgerNeverReopens
<1>1. IInv /\ SavesKnown /\ [Next]_vars =>
        [\A a \in Asks :
           /\ row[a].status # "none" => row'[a].status # "none"
           /\ row'[a].status = "pending_confirm" =>
                row[a].status \in {"none", "pending_confirm"}]_vars
  BY RowsForward DEF Forward
<1> QED BY <1>1, Invariance, SavesInvariance, PTL DEF Spec, LedgerNeverReopens
=============================================================================
