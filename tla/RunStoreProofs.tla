--------------------------- MODULE RunStoreProofs ---------------------------
(***************************************************************************)
(* Proofs about the run queue for every number of runs, workers, threads   *)
(* and attempts.  The invariant is TypeOK /\ QueueInv; one lemma per       *)
(* group of operations shows that it is kept.                              *)
(***************************************************************************)
EXTENDS RunStore, TLAPS

USE ThreadsAssumption, NullAssumption, AttemptsAssumption, TimesAssumption
USE DEF storeVars

(***************************************************************************)
(* Types.                                                                  *)
(***************************************************************************)
LEMMA TypeInit == StoreInit => TypeOK
BY DEF StoreInit, TypeOK, NoRow, RunRow, NoCompletion, Completing, Enqueuing

\* Giving up a lease leaves a row of the table.
LEMMA ReleasedType ==
    ASSUME NEW row \in RunRow, NEW status \in Status PROVE Released(row, status) \in RunRow
BY DEF Released, RunRow

\* Every update of columns that the operations make leaves a row of the table.
LEMMA CancelType ==
    ASSUME NEW row \in RunRow
    PROVE  /\ [row EXCEPT !.status = "cancelled"] \in RunRow
           /\ [row EXCEPT !.cancel_requested = TRUE] \in RunRow
<1>1. [row EXCEPT !.status = "cancelled"] \in RunRow
  BY DEF RunRow, Status, TERMINAL
<1>2. [row EXCEPT !.cancel_requested = TRUE] \in RunRow
  BY DEF RunRow
<1> QED BY <1>1, <1>2

\* So does setting available_at or lease_until.
LEMMA TimeType ==
    ASSUME NEW row \in RunRow, NEW t \in Nat
    PROVE  /\ [row EXCEPT !.lease_until = t] \in RunRow
           /\ [row EXCEPT !.available_at = t] \in RunRow
<1>1. [row EXCEPT !.lease_until = t] \in RunRow
  BY DEF RunRow
<1>2. [row EXCEPT !.available_at = t] \in RunRow
  BY DEF RunRow
<1> QED BY <1>1, <1>2

\* So does a claim, at its four columns.
LEMMA LeaseType ==
    ASSUME NEW row \in RunRow, NEW w \in Workers, NEW t \in Nat
    PROVE  [row EXCEPT !.status = "running", !.lease_owner = w, !.lease_until = t,
                       !.attempts = row.attempts + 1] \in RunRow
<1>1. [row EXCEPT !.status = "running"] \in RunRow
  BY DEF RunRow, Status
<1>2. \A x \in RunRow : [x EXCEPT !.lease_owner = w] \in RunRow
  BY DEF RunRow
<1>3. \A x \in RunRow : [x EXCEPT !.lease_until = t] \in RunRow
  BY DEF RunRow
<1>4. \A x \in RunRow, a \in Nat : [x EXCEPT !.attempts = a] \in RunRow
  BY DEF RunRow
<1>5. row.attempts + 1 \in Nat
  BY DEF RunRow
<1> QED BY <1>1, <1>2, <1>3, <1>4, <1>5

\* enqueue and request_cancel preserve the types.
LEMMA TypeClient ==
    ASSUME TypeOK, NEW r \in Runs,
           \/ EnqueueBegin(r) \/ EnqueueMessage(r) \/ EnqueueRun(r) \/ EnqueueAbort(r)
           \/ RequestCancelRead(r) \/ RequestCancelWrite(r)
    PROVE  TypeOK'
<1>1. CASE EnqueueBegin(r)
  BY <1>1 DEF EnqueueBegin, TypeOK, Enqueuing, NextSeq
<1>2. CASE EnqueueMessage(r)
  BY <1>2 DEF EnqueueMessage, TypeOK, Enqueuing, Posted, Message
<1>3. CASE EnqueueRun(r)
  BY <1>3 DEF EnqueueRun, TypeOK, Enqueuing, NoRow, RunRow, Status
<1>4. CASE EnqueueAbort(r)
  BY <1>4 DEF EnqueueAbort, TypeOK, Enqueuing
<1>5. CASE RequestCancelRead(r)
  BY <1>5 DEF RequestCancelRead, TypeOK
<1>6. CASE RequestCancelWrite(r)
  <2>1. run[r] \in RunRow
    BY DEF TypeOK
  <2>2. /\ [run[r] EXCEPT !.status = "cancelled"] \in RunRow
        /\ [run[r] EXCEPT !.cancel_requested = TRUE] \in RunRow
    BY <2>1, CancelType
  <2>3. run' \in [Runs -> RunRow]
    BY <1>6, <2>2 DEF RequestCancelWrite, TypeOK
  <2> QED BY <1>6, <2>3 DEF RequestCancelWrite, TypeOK
<1> QED BY <1>1, <1>2, <1>3, <1>4, <1>5, <1>6

\* claim_next, heartbeat, mark_cancelled, fail_attempt and the first part of
\* complete preserve the types.
LEMMA TypeLease ==
    ASSUME TypeOK, QueueInv, NEW w \in Workers, NEW r \in Runs,
           \/ ClaimNext(w, r) \/ Heartbeat(w, r) \/ MarkCancelled(w, r)
           \/ \E retryable \in BOOLEAN : FailAttempt(w, r, retryable)
           \/ \E n \in {1, NextSeq(ThreadOf[r])} : CompleteBegin(w, r, n)
    PROVE  TypeOK'
<1>0. run[r] \in RunRow
  BY DEF TypeOK
<1>1. CASE ClaimNext(w, r)
  <2>1. now + LeaseSeconds \in Nat
    BY DEF TypeOK
  <2> DEFINE row == [run[r] EXCEPT !.status = "running", !.lease_owner = w,
                         !.lease_until = now + LeaseSeconds, !.attempts = run[r].attempts + 1]
  <2>2. row \in RunRow
    BY <1>0, <2>1, LeaseType
  <2>3. run' = [run EXCEPT ![r] = row]
    BY <1>1 DEF ClaimNext, TypeOK
  <2> QED BY <1>1, <2>2, <2>3 DEF ClaimNext, TypeOK
<1>2. CASE Heartbeat(w, r)
  <2>1. run[r].lease_until \in Nat
    BY <1>2 DEF Heartbeat, Holds, QueueInv, RowOK
  <2> DEFINE until == IF now + LeaseSeconds <= run[r].lease_until
                      THEN run[r].lease_until + 1 ELSE now + LeaseSeconds
  <2>2. until \in Nat
    BY <2>1 DEF TypeOK
  <2>3. [run[r] EXCEPT !.lease_until = until] \in RunRow
    BY <1>0, <2>2, TimeType
  <2>4. run' = [run EXCEPT ![r] = [run[r] EXCEPT !.lease_until = until]]
    BY <1>2 DEF Heartbeat, TypeOK
  <2> QED BY <1>2, <2>3, <2>4 DEF Heartbeat, TypeOK
<1>3. CASE MarkCancelled(w, r)
  <2>1. Released(run[r], "cancelled") \in RunRow
    BY <1>0, ReleasedType DEF Status, TERMINAL
  <2> QED BY <1>3, <2>1 DEF MarkCancelled, TypeOK
<1>4. CASE \E retryable \in BOOLEAN : FailAttempt(w, r, retryable)
  <2>1. PICK retryable \in BOOLEAN : FailAttempt(w, r, retryable)
    BY <1>4
  <2>2. run[r].attempts \in 1 .. MaxAttempts
    BY <2>1 DEF FailAttempt, Holds, QueueInv, RowOK, TypeOK, RunRow
  <2>3. now + Backoff(run[r].attempts) \in Nat
    BY <2>2 DEF TypeOK
  <2>4. \A status \in Status : Released(run[r], status) \in RunRow
    BY <1>0, ReleasedType
  <2>5. \A row \in RunRow, t \in Nat : [row EXCEPT !.available_at = t] \in RunRow
    BY DEF RunRow
  <2>6. \E row \in RunRow : run' = [run EXCEPT ![r] = row]
    BY <2>1, <2>3, <2>4, <2>5 DEF FailAttempt, Status, TERMINAL, TypeOK
  <2> QED BY <2>1, <2>6 DEF FailAttempt, TypeOK
<1>5. CASE \E n \in {1, NextSeq(ThreadOf[r])} : CompleteBegin(w, r, n)
  BY <1>5 DEF CompleteBegin, TypeOK, Completing, NextSeq
<1> QED BY <1>1, <1>2, <1>3, <1>4, <1>5

\* The rest of complete, a crash and a restart preserve the types.
LEMMA TypeWorker ==
    ASSUME TypeOK, QueueInv, NEW w \in Workers,
           \/ CompleteReply(w) \/ CompleteCollide(w) \/ CompleteFinish(w)
           \/ Crash(w) \/ Restart(w)
    PROVE  TypeOK'
<1>1. CASE CompleteReply(w)
  <2>1. completing[w].run \in Runs
    BY <1>1 DEF CompleteReply, QueueInv, CallsOK, WritesTargetRows
  <2>2. ThreadOf[completing[w].run] \in Threads
    BY <2>1
  <2>3. [role |-> "model", run |-> completing[w].run] \in Message
    BY <2>1 DEF Message
  <2>4. message' \in [Threads -> Seq(Message)]
    BY <1>1, <2>2, <2>3 DEF CompleteReply, TypeOK, Posted
  <2>5. completing' \in [Workers -> Completing]
    BY <1>1, <2>1 DEF CompleteReply, TypeOK, Completing
  <2> QED BY <1>1, <2>4, <2>5 DEF CompleteReply, TypeOK
<1>2. CASE CompleteCollide(w)
  BY <1>2 DEF CompleteCollide, TypeOK, Completing, NoCompletion
<1>3. CASE CompleteFinish(w)
  <2>1. completing[w].run \in Runs
    BY <1>3 DEF CompleteFinish, QueueInv, CallsOK, WritesTargetRows
  <2>2. Released(run[completing[w].run], "succeeded") \in RunRow
    BY <2>1, ReleasedType DEF TypeOK, Status, TERMINAL
  <2>3. NoCompletion \in Completing
    BY DEF NoCompletion, Completing
  <2> QED BY <1>3, <2>1, <2>2, <2>3 DEF CompleteFinish, TypeOK
<1>4. CASE Crash(w) \/ Restart(w)
  <2>1. /\ NoCompletion \in Completing
        /\ [phase |-> "crashed", run |-> NULL, seq |-> 0] \in Completing
    BY DEF NoCompletion, Completing
  <2> QED BY <1>4, <2>1 DEF Crash, Restart, TypeOK
<1> QED BY <1>1, <1>2, <1>3, <1>4

\* reap_expired and the clock preserve the types.
LEMMA TypeTime == ASSUME TypeOK, ReapExpired \/ Tick PROVE TypeOK'
<1>1. CASE ReapExpired
  <2>1. SUFFICES ASSUME NEW r \in Runs PROVE run'[r] \in RunRow
    BY <1>1 DEF ReapExpired, TypeOK
  <2>2. \A status \in Status : Released(run[r], status) \in RunRow
    BY ReleasedType DEF TypeOK
  <2>3. \A row \in RunRow : [row EXCEPT !.available_at = now] \in RunRow
    BY DEF RunRow, TypeOK
  <2> QED BY <1>1, <2>2, <2>3 DEF ReapExpired, TypeOK, Status, TERMINAL
<1>2. CASE Tick
  BY <1>2 DEF Tick, TypeOK
<1> QED BY <1>1, <1>2

\* Every step of the queue preserves the types.
LEMMA TypeNext == TypeOK /\ QueueInv /\ [StoreNext]_storeVars => TypeOK'
<1> SUFFICES ASSUME TypeOK, QueueInv, [StoreNext]_storeVars PROVE TypeOK'
  OBVIOUS
<1>1. CASE ClientNext
  BY <1>1, TypeClient DEF ClientNext
<1>2. CASE LeaseNext
  BY <1>2, TypeLease DEF LeaseNext
<1>3. CASE WorkerNext
  BY <1>3, TypeWorker DEF WorkerNext
<1>4. CASE ReapExpired \/ Tick
  BY <1>4, TypeTime
<1>5. CASE UNCHANGED storeVars
  BY <1>5 DEF TypeOK
<1> QED BY <1>1, <1>2, <1>3, <1>4, <1>5 DEF StoreNext

(***************************************************************************)
(* The invariant of the queue.  The part that is not local to a row is     *)
(* that a row complete has locked stays leased to its caller: every other  *)
(* operation on the row waits for the lock.                                *)
(***************************************************************************)
LEMMA QueueInit == StoreInit => QueueInv
BY DEF StoreInit, QueueInv, CallsOK, WritesTargetRows, LockedIsHeld, RowsAreEnqueued, RowOK,
       NoRow, NoCompletion

\* A step that rewrites one row, existing and unlocked, and starts no call.
LEMMA RowStep ==
    ASSUME QueueInv, NEW r \in Runs, ~Locked(r),
           \A q \in Runs \ {r} : run'[q] = run[q],
           run[r].status # "absent", run'[r].status # "absent", RowOK(r)',
           enqueuing' = enqueuing,
           \A q \in Runs : cancelling'[q] \in {cancelling[q], "none"},
           \A w \in Workers : \/ completing'[w] = completing[w]
                              \/ completing'[w].phase \notin {"locked", "replied"}
    PROVE  QueueInv'
<1> USE DEF QueueInv, CallsOK
<1>1. \A q \in Runs : run'[q].status = "absent" <=> run[q].status = "absent"
  OBVIOUS
<1>2. WritesTargetRows'
  <2>1. ASSUME NEW w \in Workers, completing'[w].phase \in {"locked", "replied"}
        PROVE  completing'[w].run \in Runs /\ run'[completing'[w].run].status # "absent"
    BY <1>1, <2>1 DEF WritesTargetRows
  <2>2. ASSUME NEW q \in Runs, cancelling'[q] # "none" PROVE run'[q].status # "absent"
    BY <1>1, <2>2 DEF WritesTargetRows
  <2> QED BY <2>1, <2>2 DEF WritesTargetRows
<1>3. LockedIsHeld'
  <2>1. ASSUME NEW w \in Workers, completing'[w].phase = "locked"
        PROVE  Holds(w, completing[w].run)' /\ completing'[w] = completing[w]
    <3>1. completing'[w] = completing[w] /\ completing[w].phase = "locked"
      BY <2>1
    <3>2. completing[w].run \in Runs \ {r}
      BY <3>1 DEF WritesTargetRows, Locked
    <3> QED BY <3>1, <3>2 DEF LockedIsHeld, Holds
  <2> QED BY <2>1 DEF LockedIsHeld
<1>4. RowsAreEnqueued'
  BY <1>1 DEF RowsAreEnqueued
<1>5. \A q \in Runs : RowOK(q)'
  BY DEF RowOK
<1> QED BY <1>2, <1>3, <1>4, <1>5

\* A step of calls only: the row a call comes to target exists, and the row
\* complete comes to lock is leased to its caller.
LEMMA CallStep ==
    ASSUME QueueInv, run' = run,
           \A r \in Runs : enqueuing'[r].phase = "done" <=> enqueuing[r].phase = "done",
           \A r \in Runs : cancelling'[r] # "none" => run[r].status # "absent",
           \A w \in Workers : completing'[w].phase \in {"locked", "replied"} =>
               completing'[w].run \in Runs /\ run[completing'[w].run].status # "absent",
           \A w \in Workers : completing'[w].phase = "locked" =>
               Holds(w, completing'[w].run)
    PROVE  QueueInv'
<1> USE DEF QueueInv, CallsOK
<1>1. WritesTargetRows'
  BY DEF WritesTargetRows
<1>2. LockedIsHeld'
  BY DEF LockedIsHeld, Holds
<1>3. RowsAreEnqueued'
  BY DEF RowsAreEnqueued
<1>4. \A r \in Runs : RowOK(r)'
  BY DEF RowOK
<1> QED BY <1>1, <1>2, <1>3, <1>4

\* enqueue and request_cancel preserve QueueInv.
LEMMA QueueClient ==
    ASSUME TypeOK, QueueInv, NEW r \in Runs,
           \/ EnqueueBegin(r) \/ EnqueueMessage(r) \/ EnqueueRun(r) \/ EnqueueAbort(r)
           \/ RequestCancelRead(r) \/ RequestCancelWrite(r)
    PROVE  QueueInv'
<1> USE DEF QueueInv, CallsOK
<1>1. CASE EnqueueBegin(r) \/ EnqueueMessage(r) \/ EnqueueAbort(r)
  <2>1. UNCHANGED <<run, completing, cancelling>>
    BY <1>1 DEF EnqueueBegin, EnqueueMessage, EnqueueAbort
  <2>2. /\ enqueuing[r].phase # "done" /\ enqueuing'[r].phase # "done"
        /\ \A q \in Runs \ {r} : enqueuing'[q] = enqueuing[q]
    BY <1>1 DEF EnqueueBegin, EnqueueMessage, EnqueueAbort, TypeOK
  <2> QED BY <2>1, <2>2, CallStep DEF WritesTargetRows, LockedIsHeld
<1>2. CASE EnqueueRun(r)
  <2>1. /\ run'[r].status = "queued" /\ run'[r].attempts = 0
        /\ run'[r].lease_owner = NULL /\ run'[r].lease_until = NULL
        /\ enqueuing'[r].phase = "done"
        /\ \A q \in Runs \ {r} : run'[q] = run[q] /\ enqueuing'[q] = enqueuing[q]
        /\ UNCHANGED <<completing, cancelling>>
    BY <1>2 DEF EnqueueRun, NoRow, TypeOK, Enqueuing
  <2>2. run[r].status = "absent"
    BY <1>2 DEF EnqueueRun, RowsAreEnqueued
  <2>3. WritesTargetRows' /\ LockedIsHeld'
    BY <2>1, <2>2 DEF WritesTargetRows, LockedIsHeld, Holds
  <2>4. RowsAreEnqueued'
    BY <2>1 DEF RowsAreEnqueued
  <2>5. \A q \in Runs : RowOK(q)'
    BY <2>1 DEF RowOK
  <2> QED BY <2>3, <2>4, <2>5
<1>3. CASE RequestCancelRead(r)
  <2>1. \A q \in Runs : cancelling'[q] # "none" => run[q].status # "absent"
    BY <1>3 DEF RequestCancelRead, WritesTargetRows, TypeOK
  <2> QED BY <1>3, <2>1, CallStep DEF RequestCancelRead, WritesTargetRows, LockedIsHeld
<1>4. CASE RequestCancelWrite(r)
  <2>1. run[r].status # "absent" /\ RowOK(r)
    BY <1>4 DEF RequestCancelWrite, WritesTargetRows
  <2>2. \/ run'[r] = [run[r] EXCEPT !.status = "cancelled"]
        \/ run'[r] = [run[r] EXCEPT !.cancel_requested = TRUE]
    BY <1>4 DEF RequestCancelWrite, TypeOK
  <2>3. run'[r].status # "absent" /\ RowOK(r)'
    BY <2>1, <2>2 DEF RowOK, TypeOK, RunRow
  <2>4. \A q \in Runs \ {r} : run'[q] = run[q]
    BY <1>4 DEF RequestCancelWrite, TypeOK
  <2>5. \A q \in Runs : cancelling'[q] \in {cancelling[q], "none"}
    BY <1>4 DEF RequestCancelWrite, TypeOK
  <2> QED BY <1>4, <2>1, <2>3, <2>4, <2>5, RowStep DEF RequestCancelWrite
<1> QED BY <1>1, <1>2, <1>3, <1>4

\* The guarded operations preserve QueueInv.
LEMMA QueueLease ==
    ASSUME TypeOK, QueueInv, NEW w \in Workers, NEW r \in Runs,
           \/ ClaimNext(w, r) \/ Heartbeat(w, r) \/ MarkCancelled(w, r)
           \/ \E retryable \in BOOLEAN : FailAttempt(w, r, retryable)
           \/ \E n \in {1, NextSeq(ThreadOf[r])} : CompleteBegin(w, r, n)
    PROVE  QueueInv'
<1>0. RowOK(r) /\ run[r] \in RunRow
  BY DEF QueueInv, TypeOK
<1>1. CASE ClaimNext(w, r)
  <2>1. run[r].status = "queued" /\ ~Locked(r)
    BY <1>1 DEF ClaimNext, Available, AnyLocked
  <2>2. /\ run'[r].status = "running" /\ run'[r].lease_owner = w
        /\ run'[r].lease_until = now + LeaseSeconds
        /\ run'[r].attempts = run[r].attempts + 1
        /\ \A q \in Runs \ {r} : run'[q] = run[q]
    BY <1>1 DEF ClaimNext, TypeOK, RunRow
  <2>3. RowOK(r)'
    BY <1>0, <2>1, <2>2 DEF RowOK, TypeOK, RunRow
  <2> QED BY <1>1, <2>1, <2>2, <2>3, RowStep DEF ClaimNext
<1>2. CASE Heartbeat(w, r)
  <2>1. run[r].status = "running"
    BY <1>2 DEF Heartbeat, Holds
  <2>2. /\ run'[r].status = "running" /\ run'[r].lease_owner = run[r].lease_owner
        /\ run'[r].attempts = run[r].attempts
        /\ run'[r].lease_until \in {run[r].lease_until + 1, now + LeaseSeconds}
        /\ \A q \in Runs \ {r} : run'[q] = run[q]
    BY <1>2, <2>1 DEF Heartbeat, TypeOK, RunRow
  <2>3. RowOK(r)'
    BY <1>0, <2>1, <2>2 DEF RowOK, TypeOK
  <2> QED BY <1>2, <2>1, <2>2, <2>3, RowStep DEF Heartbeat
<1>3. CASE MarkCancelled(w, r)
  <2>1. run[r].status = "running"
    BY <1>3 DEF MarkCancelled, Holds
  <2>2. /\ run'[r].status = "cancelled" /\ run'[r].attempts = run[r].attempts
        /\ \A q \in Runs \ {r} : run'[q] = run[q]
    BY <1>3 DEF MarkCancelled, Released, TypeOK, RunRow
  <2>3. RowOK(r)'
    BY <1>0, <2>2 DEF RowOK
  <2> QED BY <1>3, <2>1, <2>2, <2>3, RowStep DEF MarkCancelled
<1>4. CASE \E retryable \in BOOLEAN : FailAttempt(w, r, retryable)
  <2>0. PICK retryable \in BOOLEAN : FailAttempt(w, r, retryable)
    BY <1>4
  <2>1. run[r].status = "running"
    BY <2>0 DEF FailAttempt, Holds
  <2>2. /\ run'[r].attempts = run[r].attempts
        /\ run'[r].lease_owner = NULL /\ run'[r].lease_until = NULL
        /\ \/ run'[r].status = "queued" /\ run[r].attempts < MaxAttempts
           \/ run'[r].status \in {"dead", "failed"}
    <3>1. CASE retryable /\ run[r].attempts < MaxAttempts
      <4>1. run'[r] = [Released(run[r], "queued") EXCEPT
                         !.available_at = now + Backoff(run[r].attempts)]
        BY <2>0, <3>1 DEF FailAttempt, TypeOK
      <4> QED BY <1>0, <3>1, <4>1 DEF Released, RunRow
    <3>2. CASE ~(retryable /\ run[r].attempts < MaxAttempts)
      <4>1. run'[r] = Released(run[r], IF retryable THEN "dead" ELSE "failed")
        BY <2>0, <3>2 DEF FailAttempt, TypeOK
      <4> QED BY <1>0, <4>1 DEF Released, RunRow
    <3> QED BY <3>1, <3>2
  <2>3. \A q \in Runs \ {r} : run'[q] = run[q]
    BY <2>0 DEF FailAttempt, TypeOK
  <2>4. RowOK(r)'
    BY <1>0, <2>2 DEF RowOK
  <2> QED BY <2>0, <2>1, <2>2, <2>3, <2>4, RowStep DEF FailAttempt
<1>5. CASE \E n \in {1, NextSeq(ThreadOf[r])} : CompleteBegin(w, r, n)
  <2>0. PICK n \in {1, NextSeq(ThreadOf[r])} : CompleteBegin(w, r, n)
    BY <1>5
  <2>1. /\ completing'[w].phase = "locked" /\ completing'[w].run = r
        /\ \A v \in Workers \ {w} : completing'[v] = completing[v]
        /\ UNCHANGED <<run, enqueuing, cancelling>>
        /\ Holds(w, r)
    BY <2>0 DEF CompleteBegin, TypeOK
  <2>2. run[r].status # "absent"
    BY <2>1 DEF Holds
  <2> QED BY <2>1, <2>2, CallStep DEF QueueInv, CallsOK, WritesTargetRows, LockedIsHeld
<1> QED BY <1>1, <1>2, <1>3, <1>4, <1>5

\* The rest of complete, a crash and a restart preserve QueueInv.
LEMMA QueueWorker ==
    ASSUME TypeOK, QueueInv, NEW w \in Workers,
           \/ CompleteReply(w) \/ CompleteCollide(w) \/ CompleteFinish(w)
           \/ Crash(w) \/ Restart(w)
    PROVE  QueueInv'
<1> USE DEF QueueInv, CallsOK
<1>1. CASE CompleteReply(w)
  <2>1. /\ completing[w].phase = "locked"
        /\ completing'[w].phase = "replied" /\ completing'[w].run = completing[w].run
        /\ \A v \in Workers \ {w} : completing'[v] = completing[v]
        /\ UNCHANGED <<run, enqueuing, cancelling>>
    BY <1>1 DEF CompleteReply, TypeOK
  <2> QED BY <2>1, CallStep DEF WritesTargetRows, LockedIsHeld
<1>2. CASE CompleteCollide(w) \/ Crash(w) \/ Restart(w)
  <2>1. /\ completing'[w].phase \notin {"locked", "replied"}
        /\ \A v \in Workers \ {w} : completing'[v] = completing[v]
        /\ UNCHANGED <<run, enqueuing, cancelling>>
    BY <1>2 DEF CompleteCollide, Crash, Restart, NoCompletion, TypeOK
  <2> QED BY <2>1, CallStep DEF WritesTargetRows, LockedIsHeld
<1>3. CASE CompleteFinish(w)
  <2>0. PICK r \in Runs : r = completing[w].run
    BY <1>3 DEF CompleteFinish, WritesTargetRows
  <2>1. run[r].status # "absent" /\ ~Locked(r)
    BY <1>3, <2>0 DEF CompleteFinish, WritesTargetRows
  <2>2. /\ run'[r].status = "succeeded" /\ run'[r].attempts = run[r].attempts
        /\ \A q \in Runs \ {r} : run'[q] = run[q]
    BY <1>3, <2>0 DEF CompleteFinish, Released, TypeOK, RunRow
  <2>3. /\ completing'[w].phase = "none"
        /\ \A v \in Workers \ {w} : completing'[v] = completing[v]
        /\ UNCHANGED <<enqueuing, cancelling>>
    BY <1>3 DEF CompleteFinish, NoCompletion, TypeOK
  <2>4. RowOK(r)'
    BY <2>1, <2>2 DEF RowOK
  <2> QED BY <2>1, <2>2, <2>3, <2>4, RowStep
<1> QED BY <1>1, <1>2, <1>3

\* reap_expired and the clock preserve QueueInv.
LEMMA QueueTime == ASSUME TypeOK, QueueInv, ReapExpired \/ Tick PROVE QueueInv'
<1> USE DEF QueueInv, TypeOK
<1>1. CASE ReapExpired
  <2>1. /\ UNCHANGED <<enqueuing, completing, cancelling>>
        /\ \A w \in Workers : completing[w].phase = "locked" => completing[w].run \notin Runs
    BY <1>1 DEF ReapExpired, AnyLocked, Locked
  <2>2. ASSUME NEW q \in Runs
        PROVE  RowOK(q)' /\ (run'[q].status = "absent" <=> run[q].status = "absent")
    <3>1. CASE ~Expired(q)
      BY <1>1, <3>1 DEF ReapExpired, RowOK
    <3>2. CASE Expired(q) /\ run[q].attempts >= MaxAttempts
      <4>1. run'[q] = Released(run[q], "dead")
        BY <1>1, <3>2 DEF ReapExpired
      <4>2. run'[q].status = "dead" /\ run'[q].attempts = run[q].attempts
        BY <4>1 DEF Released, RunRow
      <4> QED BY <3>2, <4>2 DEF Expired, RowOK
    <3>3. CASE Expired(q) /\ ~(run[q].attempts >= MaxAttempts)
      <4>1. run'[q] = [Released(run[q], "queued") EXCEPT !.available_at = now]
        BY <1>1, <3>3 DEF ReapExpired
      <4>2. /\ run'[q].status = "queued" /\ run'[q].attempts = run[q].attempts
            /\ run'[q].lease_owner = NULL /\ run'[q].lease_until = NULL
        BY <4>1 DEF Released, RunRow
      <4>3. run[q].attempts < MaxAttempts
        BY <3>3 DEF RunRow
      <4> QED BY <3>3, <4>2, <4>3 DEF Expired, RowOK
    <3> QED BY <3>1, <3>2, <3>3
  <2>3. CallsOK'
    BY <2>1, <2>2 DEF CallsOK, WritesTargetRows, LockedIsHeld, RowsAreEnqueued
  <2> QED BY <2>2, <2>3
<1>2. CASE Tick
  BY <1>2, CallStep DEF Tick, CallsOK, WritesTargetRows, LockedIsHeld
<1> QED BY <1>1, <1>2

\* Every step of the queue preserves QueueInv.
LEMMA QueueNext == TypeOK /\ QueueInv /\ [StoreNext]_storeVars => QueueInv'
<1> SUFFICES ASSUME TypeOK, QueueInv, [StoreNext]_storeVars PROVE QueueInv'
  OBVIOUS
<1>1. CASE ClientNext
  BY <1>1, QueueClient DEF ClientNext
<1>2. CASE LeaseNext
  BY <1>2, QueueLease DEF LeaseNext
<1>3. CASE WorkerNext
  BY <1>3, QueueWorker DEF WorkerNext
<1>4. CASE ReapExpired \/ Tick
  BY <1>4, QueueTime
<1>5. CASE UNCHANGED storeVars
  BY <1>5, CallStep DEF QueueInv, CallsOK, WritesTargetRows, LockedIsHeld
<1> QED BY <1>1, <1>2, <1>3, <1>4, <1>5 DEF StoreNext

(***************************************************************************)
(* Every row and every call in flight is as TypeOK and QueueInv say, in    *)
(* every reachable state of the queue.                                     *)
(***************************************************************************)
THEOREM QueueCorrect == StoreSpec => [](TypeOK /\ QueueInv)
<1>1. StoreInit => TypeOK /\ QueueInv
  BY TypeInit, QueueInit
<1>2. TypeOK /\ QueueInv /\ [StoreNext]_storeVars => (TypeOK /\ QueueInv)'
  BY TypeNext, QueueNext
<1> QED BY <1>1, <1>2, PTL DEF StoreSpec

\* The columns of run and message, the calls in flight and the clock keep their
\* types; the NULLs of a lease come and go with its status.
THEOREM StoreTyping == StoreSpec => []TypeOK
BY QueueCorrect, PTL

(***************************************************************************)
(* How a step changes the status of a row, all operations together.  The   *)
(* guards leave four ways: from absent to queued, from queued to running,  *)
(* out of running, and the unguarded writes, whose statuses are terminal.  *)
(***************************************************************************)
Moves(r) ==
    \/ /\ run[r].status = "absent" /\ run'[r].status = "queued"
       /\ run'[r].attempts = run[r].attempts
    \/ /\ run[r].status = "queued" /\ run'[r].status = "running"
       /\ run'[r].attempts = run[r].attempts + 1
    \/ /\ run[r].status = "running" /\ run'[r].status \in {"queued"} \cup TERMINAL
       /\ run'[r].attempts = run[r].attempts
    \/ /\ run[r].status # "absent" /\ run'[r].status \in {"succeeded", "cancelled"}
       /\ run'[r].attempts = run[r].attempts
    \/ /\ run'[r].status = run[r].status
       /\ run'[r].attempts = run[r].attempts
       /\ run'[r].lease_owner = run[r].lease_owner
       /\ run[r].status = "running" => run'[r].lease_until >= run[r].lease_until

\* A row that is left alone moves as Moves allows.
LEMMA MovesSame ==
    ASSUME TypeOK, QueueInv, NEW r \in Runs, run'[r] = run[r] PROVE Moves(r)
BY DEF Moves, TypeOK, RunRow, QueueInv, RowOK

\* So does the row that an operation on one row rewrites.
LEMMA MovesOne ==
    ASSUME TypeOK, QueueInv, NEW r \in Runs, NEW w \in Workers,
           \/ ClaimNext(w, r) \/ Heartbeat(w, r) \/ MarkCancelled(w, r)
           \/ \E retryable \in BOOLEAN : FailAttempt(w, r, retryable)
           \/ completing[w].run = r /\ CompleteFinish(w)
    PROVE  /\ Moves(r)
           /\ \A q \in Runs \ {r} : run'[q] = run[q]
<1>0. run[r] \in RunRow /\ RowOK(r)
  BY DEF TypeOK, QueueInv
<1>1. CASE ClaimNext(w, r)
  <2>1. /\ run[r].status = "queued" /\ run'[r].status = "running"
        /\ run'[r].attempts = run[r].attempts + 1
        /\ \A q \in Runs \ {r} : run'[q] = run[q]
    BY <1>0, <1>1 DEF ClaimNext, Available, TypeOK, RunRow
  <2> QED BY <2>1 DEF Moves
<1>2. CASE Heartbeat(w, r)
  <2>1. run[r].status = "running" /\ run[r].lease_until \in Nat
    BY <1>0, <1>2 DEF Heartbeat, Holds, RowOK
  <2>2. /\ run'[r].status = "running" /\ run'[r].attempts = run[r].attempts
        /\ run'[r].lease_owner = run[r].lease_owner
        /\ run'[r].lease_until = IF now + LeaseSeconds <= run[r].lease_until
                                 THEN run[r].lease_until + 1 ELSE now + LeaseSeconds
        /\ \A q \in Runs \ {r} : run'[q] = run[q]
    BY <1>0, <1>2, <2>1 DEF Heartbeat, TypeOK, RunRow
  <2>3. run'[r].lease_until >= run[r].lease_until
    BY <2>1, <2>2 DEF TypeOK
  <2> QED BY <2>1, <2>2, <2>3 DEF Moves
<1>3. CASE MarkCancelled(w, r)
  <2>1. /\ run[r].status = "running" /\ run'[r].status = "cancelled"
        /\ run'[r].attempts = run[r].attempts
        /\ \A q \in Runs \ {r} : run'[q] = run[q]
    BY <1>0, <1>3 DEF MarkCancelled, Holds, Released, TypeOK, RunRow
  <2> QED BY <2>1 DEF Moves, TERMINAL
<1>4. CASE \E retryable \in BOOLEAN : FailAttempt(w, r, retryable)
  <2>1. PICK retryable \in BOOLEAN : FailAttempt(w, r, retryable)
    BY <1>4
  <2>2. run[r].status = "running" /\ \A q \in Runs \ {r} : run'[q] = run[q]
    BY <2>1 DEF FailAttempt, Holds, TypeOK
  <2>3. \/ run'[r] = [Released(run[r], "queued") EXCEPT
                        !.available_at = now + Backoff(run[r].attempts)]
        \/ run'[r] = Released(run[r], IF retryable THEN "dead" ELSE "failed")
    BY <2>1 DEF FailAttempt, TypeOK
  <2>4. run'[r].status \in {"queued"} \cup TERMINAL /\ run'[r].attempts = run[r].attempts
    BY <1>0, <2>3 DEF Released, TERMINAL, RunRow
  <2> QED BY <2>2, <2>4 DEF Moves
<1>5. CASE completing[w].run = r /\ CompleteFinish(w)
  <2>1. /\ run[r].status # "absent" /\ run'[r].status = "succeeded"
        /\ run'[r].attempts = run[r].attempts
        /\ \A q \in Runs \ {r} : run'[q] = run[q]
    BY <1>0, <1>5 DEF CompleteFinish, Released, TypeOK, RunRow, QueueInv, CallsOK, WritesTargetRows
  <2> QED BY <2>1 DEF Moves
<1> QED BY <1>1, <1>2, <1>3, <1>4, <1>5

\* So does every row under reap_expired.
LEMMA MovesReap ==
    ASSUME TypeOK, QueueInv, ReapExpired, NEW r \in Runs PROVE Moves(r)
<1>1. CASE ~Expired(r)
  BY <1>1, MovesSame DEF ReapExpired
<1>2. CASE Expired(r)
  <2>1. \/ run'[r] = Released(run[r], "dead")
        \/ run'[r] = [Released(run[r], "queued") EXCEPT !.available_at = now]
    BY <1>2 DEF ReapExpired
  <2>2. run[r] \in RunRow
    BY DEF TypeOK
  <2>3. run'[r].status \in {"dead", "queued"} /\ run'[r].attempts = run[r].attempts
    BY <2>1, <2>2 DEF Released, RunRow
  <2> QED BY <1>2, <2>3 DEF Moves, Expired, TERMINAL
<1> QED BY <1>1, <1>2

\* Every step moves every row as Moves allows.
LEMMA MovesNext ==
    ASSUME TypeOK, QueueInv, [StoreNext]_storeVars, NEW r \in Runs PROVE Moves(r)
<1>1. CASE ClientNext
  <2>1. PICK q \in Runs :
           \/ EnqueueBegin(q) \/ EnqueueMessage(q) \/ EnqueueRun(q) \/ EnqueueAbort(q)
           \/ RequestCancelRead(q) \/ RequestCancelWrite(q)
    BY <1>1 DEF ClientNext
  <2>2. CASE EnqueueRun(q) \/ RequestCancelWrite(q)
    <3>1. CASE q = r /\ EnqueueRun(r)
      <4>1. run[r].status = "absent" /\ run[r].attempts = 0
        BY <3>1 DEF EnqueueRun, QueueInv, CallsOK, RowsAreEnqueued, RowOK
      <4>2. run'[r].status = "queued" /\ run'[r].attempts = 0
        BY <3>1 DEF EnqueueRun, NoRow, TypeOK
      <4> QED BY <4>1, <4>2 DEF Moves
    <3>2. CASE q = r /\ RequestCancelWrite(r)
      <4>1. \/ run'[r] = [run[r] EXCEPT !.status = "cancelled"]
            \/ run'[r] = [run[r] EXCEPT !.cancel_requested = TRUE]
        BY <3>2 DEF RequestCancelWrite, TypeOK
      <4>2. run[r] \in RunRow /\ RowOK(r) /\ run[r].status # "absent"
        BY <3>2 DEF RequestCancelWrite, TypeOK, QueueInv, CallsOK, WritesTargetRows
      <4>3. CASE run'[r] = [run[r] EXCEPT !.status = "cancelled"]
        <5>1. run'[r].status = "cancelled" /\ run'[r].attempts = run[r].attempts
          BY <4>2, <4>3 DEF RunRow
        <5> QED BY <4>2, <5>1 DEF Moves
      <4>4. CASE run'[r] = [run[r] EXCEPT !.cancel_requested = TRUE]
        BY <4>2, <4>4 DEF Moves, RunRow, RowOK
      <4> QED BY <4>1, <4>3, <4>4
    <3>3. CASE q # r
      BY <2>2, <3>3, MovesSame DEF EnqueueRun, RequestCancelWrite, TypeOK
    <3> QED BY <2>2, <3>1, <3>2, <3>3
  <2>3. CASE EnqueueBegin(q) \/ EnqueueMessage(q) \/ EnqueueAbort(q) \/ RequestCancelRead(q)
    BY <2>3, MovesSame DEF EnqueueBegin, EnqueueMessage, EnqueueAbort, RequestCancelRead
  <2> QED BY <2>1, <2>2, <2>3
<1>2. CASE LeaseNext
  <2>1. PICK w \in Workers, q \in Runs :
           \/ ClaimNext(w, q) \/ Heartbeat(w, q) \/ MarkCancelled(w, q)
           \/ \E retryable \in BOOLEAN : FailAttempt(w, q, retryable)
           \/ \E n \in {1, NextSeq(ThreadOf[q])} : CompleteBegin(w, q, n)
    BY <1>2 DEF LeaseNext
  <2>2. CASE \E n \in {1, NextSeq(ThreadOf[q])} : CompleteBegin(w, q, n)
    BY <2>2, MovesSame DEF CompleteBegin
  <2>3. CASE ~(\E n \in {1, NextSeq(ThreadOf[q])} : CompleteBegin(w, q, n))
    <3>1. Moves(q) /\ \A p \in Runs \ {q} : run'[p] = run[p]
      BY <2>1, <2>3, MovesOne
    <3> QED BY <3>1, MovesSame
  <2> QED BY <2>2, <2>3
<1>3. CASE WorkerNext
  <2>1. PICK w \in Workers :
           \/ CompleteReply(w) \/ CompleteCollide(w) \/ CompleteFinish(w)
           \/ Crash(w) \/ Restart(w)
    BY <1>3 DEF WorkerNext
  <2>2. CASE CompleteFinish(w)
    <3>1. completing[w].run \in Runs
      BY <2>2 DEF CompleteFinish, QueueInv, CallsOK, WritesTargetRows
    <3>2. Moves(completing[w].run) /\ \A q \in Runs \ {completing[w].run} : run'[q] = run[q]
      BY <2>2, <3>1, MovesOne
    <3> QED BY <3>1, <3>2, MovesSame
  <2>3. CASE CompleteReply(w) \/ CompleteCollide(w) \/ Crash(w) \/ Restart(w)
    BY <2>3, MovesSame DEF CompleteReply, CompleteCollide, Crash, Restart
  <2> QED BY <2>1, <2>2, <2>3
<1>4. CASE ReapExpired
  BY <1>4, MovesReap
<1>5. CASE Tick \/ UNCHANGED storeVars
  BY <1>5, MovesSame DEF Tick
<1> QED BY <1>1, <1>2, <1>3, <1>4, <1>5 DEF StoreNext

\* No attempt is taken back.
LEMMA AttemptsGrow ==
    ASSUME TypeOK, QueueInv, [StoreNext]_storeVars, NEW r \in Runs
    PROVE  /\ run[r].attempts \in Nat /\ run'[r].attempts \in Nat
           /\ run'[r].attempts >= run[r].attempts
<1>1. run[r].attempts \in Nat
  BY DEF TypeOK, RunRow
<1> QED BY <1>1, MovesNext DEF Moves

(***************************************************************************)
(* A run that ended is never queued or running again, nor attempted; its   *)
(* end may still turn into succeeded or cancelled.                         *)
(***************************************************************************)
THEOREM TerminalStaysTerminal == StoreSpec => NoResurrection
<1>1. TypeOK /\ QueueInv /\ [StoreNext]_storeVars =>
        [\A r \in Runs : run[r].status \in TERMINAL =>
            /\ run'[r].status \in {run[r].status, "succeeded", "cancelled"}
            /\ run'[r].attempts = run[r].attempts]_storeVars
  BY MovesNext DEF Moves, TERMINAL
<1> QED BY <1>1, QueueCorrect, PTL DEF StoreSpec, NoResurrection

\* A lease changes hands only through the queue, and only grows.
THEOREM LeasesAreExclusive == StoreSpec => LeaseIsExclusive
<1>1. TypeOK /\ QueueInv /\ [StoreNext]_storeVars =>
        [\A r \in Runs : run[r].status = "running" /\ run'[r].status = "running" =>
            /\ run'[r].lease_owner = run[r].lease_owner
            /\ run'[r].attempts = run[r].attempts
            /\ run'[r].lease_until >= run[r].lease_until]_storeVars
  BY MovesNext DEF Moves, TERMINAL
<1> QED BY <1>1, QueueCorrect, PTL DEF StoreSpec, LeaseIsExclusive

(***************************************************************************)
(* Replies: only an insert of a model message for the run changes them,    *)
(* and only complete makes one, with the row locked.                       *)
(***************************************************************************)
LEMMA RepliesSame ==
    ASSUME TypeOK, NEW q \in Runs, NEW role \in {"user", "model"}, NEW r \in Runs,
           message' = Posted(q, role),
           role = "user" \/ q # r
    PROVE  Replies(r)' = Replies(r)
<1> DEFINE t == ThreadOf[r]
           m == [role |-> role, run |-> q]
<1>1. t \in Threads /\ ThreadOf[q] \in Threads /\ message[t] \in Seq(Message)
  BY DEF TypeOK
<1>2. m # [role |-> "model", run |-> r]
  OBVIOUS
<1>3. CASE ThreadOf[q] # t
  BY <1>1, <1>3 DEF Posted, Replies, TypeOK
<1>4. CASE ThreadOf[q] = t
  <2>1. message'[t] = Append(message[t], m)
    BY <1>1, <1>4 DEF Posted, TypeOK
  <2> HIDE DEF m
  <2>2. DOMAIN message[t] = 1 .. Len(message[t]) /\ Len(message[t]) \in Nat
    BY <1>1
  <2>3. /\ DOMAIN message'[t] = 1 .. Len(message[t]) + 1
        /\ message'[t][Len(message[t]) + 1] = m
        /\ \A i \in DOMAIN message[t] : message'[t][i] = message[t][i]
    BY <1>1, <2>1, <2>2
  <2>4. \A i : i \in Replies(r)' <=> i \in Replies(r)
    BY <1>2, <2>2, <2>3 DEF Replies
  <2> QED BY <2>4
<1> QED BY <1>3, <1>4

\* Every step that changes the replies of a run finds the run leased.
LEMMA RepliesNext ==
    ASSUME TypeOK, QueueInv, [StoreNext]_storeVars, NEW r \in Runs, Replies(r)' # Replies(r)
    PROVE  \E w \in Workers : Holds(w, r)
<1>1. message' # message
  BY DEF Replies
<1>2. CASE ClientNext
  <2>1. PICK q \in Runs : EnqueueMessage(q)
    BY <1>1, <1>2 DEF ClientNext, EnqueueBegin, EnqueueRun, EnqueueAbort,
                      RequestCancelRead, RequestCancelWrite
  <2> QED BY <2>1, RepliesSame DEF EnqueueMessage
<1>3. CASE WorkerNext
  <2>1. PICK w \in Workers : CompleteReply(w)
    BY <1>1, <1>3 DEF WorkerNext, CompleteCollide, CompleteFinish, Crash, Restart
  <2>2. completing[w].run \in Runs /\ Holds(w, completing[w].run)
    BY <2>1 DEF CompleteReply, QueueInv, CallsOK, WritesTargetRows, LockedIsHeld
  <2>3. completing[w].run = r
    BY <2>1, <2>2, RepliesSame DEF CompleteReply
  <2> QED BY <2>2, <2>3
<1> QED BY <1>1, <1>2, <1>3 DEF StoreNext, LeaseNext, ClaimNext, Heartbeat, MarkCancelled,
                               FailAttempt, CompleteBegin, ReapExpired, Tick

\* A reply is posted only while some worker holds the run.
THEOREM RepliesComeFromHolders == StoreSpec => ReplyFromHolder
<1>1. TypeOK /\ QueueInv /\ [StoreNext]_storeVars =>
        [\A r \in Runs : Replies(r)' # Replies(r) => \E w \in Workers : Holds(w, r)]_storeVars
  BY RepliesNext
<1> QED BY <1>1, QueueCorrect, PTL DEF StoreSpec, ReplyFromHolder
=============================================================================
