---------------------------- MODULE WorkerProofs ----------------------------
(***************************************************************************)
(* Theorems about workers and leases, for any number of runs, workers and  *)
(* threads, any tool calls, and any limits.                                *)
(*                                                                         *)
(* On top of what a worker knows of the log (RunnerProofs), the invariant  *)
(* says whether it may still hold the lease, whether it has read the       *)
(* cancel flag of now, and which calls it may still execute.               *)
(***************************************************************************)
EXTENDS RunnerProofs, JobQueueProofs

USE ThreadsAssumption, NullAssumption, AttemptsAssumption, TimesAssumption, StepsAssumption

-----------------------------------------------------------------------------
(* The lease: what its worker does with it, and for how long it may work   *)
(* without it or after a cancel request.                                   *)

\* A worker holds no run but the one it works on, and is in a call of complete
\* only where execute_run makes it.
HandsOK(w) ==
    /\ wk[w].pc \notin {"reap", "claim"} => run[wk[w].run].status # "absent"
    /\ wk[w].pc = "completing" => /\ completing[w].phase \in {"locked", "replied"}
                                  /\ completing[w].run = wk[w].run
    /\ wk[w].pc # "completing" => completing[w].phase \in {"none", "crashed"}
    /\ completing[w].phase = "crashed" => wk[w].pc = "reap"
    /\ \A r \in Runs : Holds(w, r) /\ completing[w].phase # "crashed" =>
           wk[w].run = r /\ wk[w].pc \notin {"reap", "claim"}
    /\ \A q, r \in Runs : Holds(w, q) /\ Holds(w, r) => q = r

\* A worker that recorded a step without the lease is about to notice.
Noticing == {"check", "cancel", "beat", "complete", "fail"}

StrayOK(w) ==
    \/ wk[w].stray = 0
    \/ wk[w].stray = 1 /\ wk[w].pc \in Noticing /\ ~Holds(w, wk[w].run)

\* A heartbeat ends the snapshot; a worker that began a step after the request
\* reads the flag of now before it begins another.
LateOK(w) ==
    /\ wk[w].pc \in {"tool", "generate", "record", "recordModel"} => ~wk[w].seen.open
    /\ \/ wk[w].late = 0
       \/ /\ wk[w].late = 1 /\ ~wk[w].seen.open /\ run[wk[w].run].cancel_requested
          /\ wk[w].pc \in {"record", "recordModel", "check", "cancel", "complete",
                           "completing", "fail"}

WorkerOK(w) == HandsOK(w) /\ StrayOK(w) /\ LateOK(w)

LeaseInv == \A w \in Workers : WorkerOK(w)

\* What a step does not do to the rows, and to the leases of a worker.
RowsStay == \A r \in Runs : run[r].status # "absent" =>
                /\ run'[r].status # "absent"
                /\ run[r].cancel_requested => run'[r].cancel_requested
NoNewLease(w) == \A r \in Runs : Holds(w, r)' => Holds(w, r)

LEMMA CancelWritten ==
    ASSUME TypeOK, NEW q \in Runs, RequestCancelWrite(q), NEW r \in Runs
    PROVE  /\ run'[r].status \in {run[r].status, "cancelled"}
           /\ run[r].cancel_requested => run'[r].cancel_requested
<1>1. PICK row \in RunRow : row = run[r]
  BY DEF TypeOK
<1>2. \/ run'[r] = row
      \/ run'[r] = [row EXCEPT !.status = "cancelled"]
      \/ run'[r] = [row EXCEPT !.cancel_requested = TRUE]
  BY <1>1 DEF RequestCancelWrite, TypeOK
<1>3. CASE run'[r] = row
  BY <1>1, <1>3
<1>4. CASE run'[r] = [row EXCEPT !.status = "cancelled"]
  <2>1. run'[r].status = "cancelled" /\ run'[r].cancel_requested = row.cancel_requested
    BY <1>4 DEF RunRow
  <2> QED BY <1>1, <2>1
<1>5. CASE run'[r] = [row EXCEPT !.cancel_requested = TRUE]
  <2>1. run'[r].status = row.status /\ run'[r].cancel_requested = TRUE
    BY <1>5 DEF RunRow
  <2> QED BY <1>1, <2>1
<1> QED BY <1>2, <1>3, <1>4, <1>5

\* No row is deleted, and no cancel request taken back.
LEMMA RowsStayNext ==
    ASSUME TypeOK, QueueInv, [StoreNext]_storeVars
    PROVE  RowsStay
<1> SUFFICES ASSUME NEW r \in Runs, run[r].status # "absent"
             PROVE  /\ run'[r].status # "absent"
                    /\ run[r].cancel_requested => run'[r].cancel_requested
  BY DEF RowsStay
<1>1. run'[r].status # "absent"
  BY MovesNext DEF Moves, TERMINAL
<1>2. run[r] \in RunRow
  BY DEF TypeOK
<1>3. \A status : Released(run[r], status).cancel_requested = run[r].cancel_requested
  BY <1>2 DEF Released, RunRow
<1>4. \A status, t : [Released(run[r], status) EXCEPT !.available_at = t].cancel_requested
                       = run[r].cancel_requested
  BY <1>2 DEF Released, RunRow
<1>5. run[r].cancel_requested => run'[r].cancel_requested
  <2>1. CASE ClientNext
    <3>1. PICK q \in Runs :
             \/ EnqueueBegin(q) \/ EnqueueMessage(q) \/ EnqueueRun(q) \/ EnqueueAbort(q)
             \/ RequestCancelRead(q) \/ RequestCancelWrite(q)
      BY <2>1 DEF ClientNext
    <3>2. CASE EnqueueRun(q)
      <4>1. q # r
        BY <3>2 DEF EnqueueRun, QueueInv, CallsOK, RowsAreEnqueued
      <4> QED BY <3>2, <4>1 DEF EnqueueRun, TypeOK
    <3>3. CASE RequestCancelWrite(q)
      BY <3>3, CancelWritten
    <3>4. CASE run' = run
      BY <3>4
    <3> QED BY <3>1, <3>2, <3>3, <3>4
               DEF EnqueueBegin, EnqueueMessage, EnqueueAbort, RequestCancelRead
  <2>2. CASE LeaseNext
    <3>1. PICK w \in Workers, q \in Runs :
             \/ ClaimNext(w, q) \/ Heartbeat(w, q) \/ MarkCancelled(w, q)
             \/ \E retryable \in BOOLEAN : FailAttempt(w, q, retryable)
             \/ \E n \in {1, NextSeq(ThreadOf[q])} : CompleteBegin(w, q, n)
      BY <2>2 DEF LeaseNext
    <3>2. CASE ClaimNext(w, q)
      BY <1>2, <3>2 DEF ClaimNext, TypeOK, RunRow
    <3>3. CASE Heartbeat(w, q)
      BY <1>2, <3>3 DEF Heartbeat, TypeOK, RunRow
    <3>4. CASE MarkCancelled(w, q)
      BY <1>3, <3>4 DEF MarkCancelled, TypeOK
    <3>5. CASE \E retryable \in BOOLEAN : FailAttempt(w, q, retryable)
      <4>1. PICK retryable \in BOOLEAN : FailAttempt(w, q, retryable)
        BY <3>5
      <4>2. CASE q = r
        <5>1. \/ run'[r] = [Released(run[r], "queued") EXCEPT
                              !.available_at = now + Backoff(run[r].attempts)]
              \/ run'[r] = Released(run[r], IF retryable THEN "dead" ELSE "failed")
          BY <4>1, <4>2 DEF FailAttempt, TypeOK
        <5> QED BY <1>3, <1>4, <5>1
      <4>3. CASE q # r
        BY <4>1, <4>3 DEF FailAttempt, TypeOK
      <4> QED BY <4>2, <4>3
    <3>6. CASE \E n \in {1, NextSeq(ThreadOf[q])} : CompleteBegin(w, q, n)
      BY <3>6 DEF CompleteBegin
    <3> QED BY <3>1, <3>2, <3>3, <3>4, <3>5, <3>6
  <2>3. CASE WorkerNext
    <3>1. PICK w \in Workers :
             \/ CompleteReply(w) \/ CompleteCollide(w) \/ CompleteFinish(w)
             \/ Crash(w) \/ Restart(w)
      BY <2>3 DEF WorkerNext
    <3>2. CASE CompleteFinish(w)
      BY <1>3, <3>2 DEF CompleteFinish, TypeOK
    <3>3. CASE run' = run
      BY <3>3
    <3> QED BY <3>1, <3>2, <3>3 DEF CompleteReply, CompleteCollide, Crash, Restart
  <2>4. CASE ReapExpired
    BY <1>3, <1>4, <2>4 DEF ReapExpired
  <2>5. CASE Tick \/ UNCHANGED storeVars
    BY <2>5 DEF Tick, storeVars
  <2> QED BY <2>1, <2>2, <2>3, <2>4, <2>5 DEF StoreNext
<1> QED BY <1>1, <1>5

\* A step that starts no run from the queue gives no one a new lease.
LEMMA OnlyClaimsLease ==
    ASSUME TypeOK, QueueInv, [StoreNext]_storeVars, NEW w \in Workers,
           \A r \in Runs : run[r].status = "queued" => run'[r].status # "running"
    PROVE  NoNewLease(w)
BY MovesNext DEF Moves, NoNewLease, Holds, TERMINAL

\* The row updates of every operation but claim_next.
LEMMA NotClaimed ==
    ASSUME TypeOK, NEW r \in Runs, run[r].status = "queued",
           \/ ReapExpired \/ Tick \/ UNCHANGED run
           \/ \E q \in Runs : RequestCancelWrite(q)
           \/ \E q \in Runs : EnqueueRun(q)
           \/ \E v \in Workers, q \in Runs : Heartbeat(v, q)
           \/ \E v \in Workers, q \in Runs : MarkCancelled(v, q)
           \/ \E v \in Workers, q \in Runs, retryable \in BOOLEAN : FailAttempt(v, q, retryable)
           \/ \E v \in Workers : CompleteFinish(v)
    PROVE  run'[r].status # "running"
<1>1. run[r] \in RunRow
  BY DEF TypeOK
<1>2. \A status : Released(run[r], status).status = status
  BY <1>1 DEF Released, RunRow
<1>3. \A status, t : [Released(run[r], status) EXCEPT !.available_at = t].status = status
  BY <1>1 DEF Released, RunRow
<1>4. CASE ReapExpired
  BY <1>2, <1>3, <1>4 DEF ReapExpired, Expired
<1>5. CASE Tick \/ UNCHANGED run
  BY <1>5 DEF Tick
<1>6. ASSUME NEW q \in Runs, RequestCancelWrite(q) PROVE run'[r].status # "running"
  BY <1>6, CancelWritten
<1>7. ASSUME NEW q \in Runs, EnqueueRun(q) PROVE run'[r].status # "running"
  BY <1>7 DEF EnqueueRun, TypeOK, NoRow
<1>8. ASSUME NEW v \in Workers, NEW q \in Runs, Heartbeat(v, q) PROVE run'[r].status # "running"
  BY <1>1, <1>8 DEF Heartbeat, Holds, TypeOK, RunRow
<1>9. ASSUME NEW v \in Workers, NEW q \in Runs, MarkCancelled(v, q)
      PROVE  run'[r].status # "running"
  BY <1>2, <1>9 DEF MarkCancelled, TypeOK
<1>10. ASSUME NEW v \in Workers, NEW q \in Runs, NEW retryable \in BOOLEAN,
              FailAttempt(v, q, retryable)
       PROVE  run'[r].status # "running"
  BY <1>10 DEF FailAttempt, Holds, TypeOK
<1>11. ASSUME NEW v \in Workers, CompleteFinish(v) PROVE run'[r].status # "running"
  BY <1>2, <1>11 DEF CompleteFinish, TypeOK
<1> QED BY <1>4, <1>5, <1>6, <1>7, <1>8, <1>9, <1>10, <1>11

\* A worker is given a run only by its own claim.
LEMMA LeasesComeByClaims ==
    ASSUME TypeOK, QueueInv, LogInv, [RunnerNext]_runnerVars, NEW w \in Workers, ~Claim(w)
    PROVE  NoNewLease(w)
<1>0. [StoreNext]_storeVars
  <2>1. RunsKnown
    BY WorkersHaveRuns
  <2> QED BY <2>1, StepImplementsStore
<1>1. ASSUME NEW v \in Workers, Claim(v) PROVE NoNewLease(w)
  <2>1. v # w
    BY <1>1
  <2>2. PICK r \in Runs : ClaimNext(v, r)
    BY <1>1 DEF Claim
  <2>3. run'[r].lease_owner = v /\ \A q \in Runs \ {r} : run'[q] = run[q]
    BY <2>2 DEF ClaimNext, TypeOK, RunRow
  <2> QED BY <2>1, <2>3 DEF NoNewLease, Holds
<1>2. ASSUME NEW v \in Workers, WorkerStep(v), ~Claim(v)
      PROVE  \A r \in Runs : run[r].status = "queued" => run'[r].status # "running"
  <2>0. wk[v].pc \notin {"reap", "claim"} => wk[v].run \in Runs
    BY DEF LogInv, WorkersOK, Placed
  <2>1. CASE Reap(v)
    BY <2>1, NotClaimed DEF Reap
  <2>2. CASE Cancel(v)
    BY <2>0, <2>2, NotClaimed DEF Cancel, At
  <2>3. CASE Beat(v)
    BY <2>0, <2>3, NotClaimed DEF Beat, At
  <2>4. CASE EndAttempt(v)
    <3>1. wk[v].retryable \in BOOLEAN /\ wk[v].run \in Runs
      BY <2>0, <2>4 DEF LogInv, WorkersOK, Worker, EndAttempt, At
    <3> QED BY <2>4, <3>1, NotClaimed DEF EndAttempt
  <2>5. CASE FinishComplete(v)
    BY <2>5, NotClaimed DEF FinishComplete
  <2>6. CASE UNCHANGED run
    BY <2>6
  <2> QED
    BY <1>2, <2>1, <2>2, <2>3, <2>4, <2>5, <2>6
       DEF WorkerStep, ClaimNone, Load, CheckCancel, LeaseLost, ExecTool, RecordTool, RecordRefused,
           Generate, RecordModel, StoreUnchanged, storeVars, BeginComplete, PostReply, ReplyRefused,
           CompleteBegin, CompleteReply, CompleteCollide
<1>3. ASSUME NEW v \in Workers, Die(v) \/ Revive(v)
      PROVE  UNCHANGED run
  BY <1>3 DEF Die, Revive, Crash, Restart, StoreUnchanged, storeVars
<1>4. CASE ClientStep
  <2>1. PICK q \in Runs :
           \/ EnqueueBegin(q) \/ EnqueueMessage(q) \/ EnqueueRun(q) \/ EnqueueAbort(q)
           \/ RequestCancelRead(q) \/ RequestCancelWrite(q)
    BY <1>4 DEF ClientStep, ClientNext
  <2>2. CASE UNCHANGED run
    BY <1>0, <2>2, OnlyClaimsLease
  <2>3. CASE EnqueueRun(q) \/ RequestCancelWrite(q)
    BY <1>0, <2>3, NotClaimed, OnlyClaimsLease
  <2> QED BY <2>1, <2>2, <2>3
             DEF EnqueueBegin, EnqueueMessage, EnqueueAbort, RequestCancelRead
<1>5. CASE ClockStep \/ UNCHANGED runnerVars
  BY <1>5 DEF ClockStep, Tick, runnerVars, NoNewLease, Holds
<1>6. ASSUME \A r \in Runs : run[r].status = "queued" => run'[r].status # "running"
      PROVE  NoNewLease(w)
  BY <1>0, <1>6, OnlyClaimsLease
<1>7. ASSUME UNCHANGED run PROVE NoNewLease(w)
  BY <1>7 DEF NoNewLease, Holds
<1> QED BY <1>1, <1>2, <1>3, <1>4, <1>5, <1>6, <1>7 DEF RunnerNext

-----------------------------------------------------------------------------
(* The worker that takes a step, and the others.                           *)

LEMMA OthersStay ==
    ASSUME TypeOK, LogInv, NEW v \in Workers, WorkerStep(v) \/ Die(v) \/ Revive(v),
           NEW w \in Workers, w # v
    PROVE  wk'[w] = wk[w] /\ completing'[w] = completing[w]
<1>0. wk \in [Workers -> Worker] /\ completing \in [Workers -> Completing]
  BY DEF LogInv, WorkersOK, TypeOK
<1>1. completing'[w] = completing[w]
  BY <1>0 DEF WorkerStep, Reap, Claim, ClaimNone, Load, CheckCancel, Cancel, Beat, LeaseLost,
         ExecTool, Generate, RecordTool, RecordModel, RecordRefused, BeginComplete, PostReply,
         ReplyRefused, FinishComplete, EndAttempt, Die, Revive, StoreUnchanged, storeVars,
         ReapExpired, ClaimNext, MarkCancelled, Heartbeat, CompleteBegin, CompleteReply,
         CompleteCollide, CompleteFinish, FailAttempt, Crash, Restart
<1>2. wk'[w] = wk[w]
  <2>1. CASE Load(v)
    BY <1>0, <2>1 DEF Load
  <2>2. CASE RecordModel(v)
    BY <1>0, <2>2 DEF RecordModel, RecordRefused, Fail
  <2>3. CASE RecordTool(v)
    BY <1>0, <2>3 DEF RecordTool, RecordRefused, Fail
  <2>4. CASE ExecTool(v) \/ Generate(v)
    BY <1>0, <2>4 DEF ExecTool, Generate, Fail
  <2> QED
    BY <1>0, <2>1, <2>2, <2>3, <2>4
       DEF WorkerStep, Reap, Claim, ClaimNone, CheckCancel, Cancel, Beat, LeaseLost,
           BeginComplete, PostReply, ReplyRefused, FinishComplete, EndAttempt, Die, Revive,
           Goto, GiveUp, Fail
<1> QED BY <1>1, <1>2

\* A worker that takes no step loses at most its lease.
LEMMA Untouched ==
    ASSUME LogInv, NEW w \in Workers, WorkerOK(w), RowsStay, NoNewLease(w),
           wk'[w] = wk[w], completing'[w] = completing[w]
    PROVE  WorkerOK(w)'
<1>0. wk[w].pc \notin {"reap", "claim"} => wk[w].run \in Runs
  BY DEF LogInv, WorkersOK, Placed
<1>1. HandsOK(w)'
  BY <1>0 DEF WorkerOK, HandsOK, RowsStay, NoNewLease
<1>2. StrayOK(w)'
  <2>1. Holds(w, wk[w].run)' /\ wk[w].pc \in Noticing => Holds(w, wk[w].run)
    BY <1>0 DEF NoNewLease, Noticing
  <2>2. CASE wk[w].stray = 0
    BY <2>2 DEF StrayOK
  <2>3. CASE wk[w].stray # 0
    <3>1. wk[w].stray = 1 /\ wk[w].pc \in Noticing /\ ~Holds(w, wk[w].run)
      BY <2>3 DEF WorkerOK, StrayOK
    <3>2. ~Holds(w, wk[w].run)'
      BY <2>1, <3>1
    <3> QED BY <3>1, <3>2 DEF StrayOK
  <2> QED BY <2>2, <2>3
<1>3. LateOK(w)'
  BY <1>0 DEF WorkerOK, LateOK, HandsOK, RowsStay
<1> QED BY <1>1, <1>2, <1>3 DEF WorkerOK

LEMMA HandsReturn ==
    ASSUME NEW w \in Workers, wk \in [Workers -> Worker], HandsOK(w), NoNewLease(w), GiveUp(w),
           \/ completing'[w].phase = "crashed"
           \/ completing'[w].phase = "none" /\ \A r \in Runs : ~Holds(w, r)'
    PROVE  WorkerOK(w)'
<1>1. wk'[w] = Polling
  BY DEF GiveUp
<1>2. Polling.pc = "reap" /\ Polling.stray = 0 /\ Polling.late = 0
  BY DEF Polling
<1>3. HandsOK(w)'
  <2>1. \A q, r \in Runs : Holds(w, q)' /\ Holds(w, r)' => q = r
    BY DEF HandsOK, NoNewLease
  <2> QED BY <1>1, <1>2, <2>1 DEF HandsOK
<1> QED BY <1>1, <1>2, <1>3 DEF WorkerOK, StrayOK, LateOK

\* An attempt goes on, in a call of complete or not.
LEMMA HandsGoOn ==
    ASSUME LogInv, NEW w \in Workers, HandsOK(w), RowsStay, NoNewLease(w),
           wk[w].pc \notin {"reap", "claim"}, wk'[w].pc \notin {"reap", "claim"},
           wk'[w].run = wk[w].run,
           \/ /\ wk[w].pc # "completing" /\ wk'[w].pc # "completing"
              /\ completing'[w] = completing[w]
           \/ /\ wk'[w].pc = "completing" /\ completing'[w].phase \in {"locked", "replied"}
              /\ completing'[w].run = wk[w].run
           \/ wk'[w].pc # "completing" /\ completing'[w].phase = "none"
    PROVE  HandsOK(w)'
<1>0. wk[w].run \in Runs
  BY DEF LogInv, WorkersOK, Placed
<1>1. run'[wk[w].run].status # "absent"
  BY <1>0 DEF HandsOK, RowsStay
<1>2. completing[w].phase # "crashed"
  BY DEF HandsOK
<1>3. \A r \in Runs : Holds(w, r)' => wk[w].run = r
  BY <1>2 DEF HandsOK, NoNewLease
<1> QED BY <1>1, <1>2, <1>3 DEF HandsOK

\* without recording or beginning a step.
LEMMA CountsGoOn ==
    ASSUME LogInv, NEW w \in Workers, WorkerOK(w), RowsStay, NoNewLease(w),
           wk[w].pc \notin {"reap", "claim"}, wk'[w].run = wk[w].run,
           wk'[w].stray = wk[w].stray, wk'[w].late = wk[w].late,
           wk[w].stray = 1 => wk'[w].pc \in Noticing,
           wk[w].late = 1 => /\ wk'[w].pc \in {"record", "recordModel", "check", "cancel",
                                               "complete", "completing", "fail"}
                             /\ wk[w].seen.open \/ ~wk'[w].seen.open,
           wk'[w].pc \in {"tool", "generate", "record", "recordModel"} => ~wk'[w].seen.open
    PROVE  StrayOK(w)' /\ LateOK(w)'
<1>0. wk[w].run \in Runs
  BY DEF LogInv, WorkersOK, Placed
<1>1. StrayOK(w)'
  <2>1. wk[w].stray # 0 => wk[w].stray = 1 /\ ~Holds(w, wk[w].run)
    BY DEF WorkerOK, StrayOK
  <2>2. wk[w].stray # 0 => ~Holds(w, wk[w].run)'
    BY <1>0, <2>1 DEF NoNewLease
  <2> QED BY <2>1, <2>2 DEF StrayOK
<1>2. LateOK(w)'
  <2>1. run[wk[w].run].status # "absent"
    BY DEF WorkerOK, HandsOK
  <2>2. wk[w].late # 0 => /\ wk[w].late = 1 /\ ~wk[w].seen.open
                          /\ run'[wk[w].run].cancel_requested
    BY <1>0, <2>1 DEF WorkerOK, LateOK, RowsStay
  <2> QED BY <2>2 DEF LateOK
<1> QED BY <1>1, <1>2

\* The actions that end an attempt.
LEMMA EndingOK ==
    ASSUME TypeOK, LogInv, NEW w \in Workers, WorkerOK(w), RowsStay, NoNewLease(w),
           \/ ClaimNone(w) \/ Cancel(w) \/ LeaseLost(w) \/ FinishComplete(w) \/ EndAttempt(w)
           \/ Die(w)
    PROVE  WorkerOK(w)'
<1>0. /\ wk \in [Workers -> Worker] /\ completing[w] \in Completing
      /\ wk[w].pc \notin {"reap", "claim"} => wk[w].run \in Runs
  BY DEF LogInv, WorkersOK, Placed, TypeOK
<1>1. HandsOK(w)
  BY DEF WorkerOK
<1>2. ASSUME wk[w].run \in Runs, run'[wk[w].run].status # "running", completing[w].phase # "crashed"
      PROVE  \A r \in Runs : ~Holds(w, r)'
  BY <1>1, <1>2 DEF HandsOK, NoNewLease, Holds
<1>3. \A status : run[wk[w].run] \in RunRow => Released(run[wk[w].run], status).status = status
  BY DEF Released, RunRow
<1>4. CASE ClaimNone(w)
  <2>1. completing'[w].phase = "none" /\ wk[w].pc = "claim" /\ GiveUp(w)
    BY <1>1, <1>4 DEF ClaimNone, At, HandsOK, StoreUnchanged, storeVars
  <2>2. \A r \in Runs : ~Holds(w, r)'
    BY <1>1, <1>4, <2>1 DEF HandsOK, NoNewLease, ClaimNone, At
  <2> QED BY <1>0, <1>1, <2>1, <2>2, HandsReturn
<1>5. CASE Cancel(w)
  <2>1. completing'[w].phase = "none" /\ GiveUp(w) /\ wk[w].run \in Runs
    BY <1>0, <1>5 DEF Cancel, At, MarkCancelled, Idle
  <2>2. run'[wk[w].run].status = "cancelled"
    BY <1>3, <1>5, <2>1 DEF Cancel, MarkCancelled, TypeOK
  <2> QED BY <1>0, <1>1, <1>2, <1>5, <2>1, <2>2, HandsReturn DEF Cancel, At
<1>6. CASE LeaseLost(w)
  <2>1. completing'[w].phase = "none" /\ GiveUp(w) /\ completing[w].phase # "crashed"
    BY <1>1, <1>6 DEF LeaseLost, At, HandsOK, StoreUnchanged, storeVars
  <2>2. \A r \in Runs : ~Holds(w, r)'
    BY <1>1, <1>6, <2>1 DEF HandsOK, NoNewLease, LeaseLost
  <2> QED BY <1>0, <1>1, <2>1, <2>2, HandsReturn
<1>7. CASE FinishComplete(w)
  <2>1. completing'[w].phase = "none" /\ GiveUp(w) /\ wk[w].run \in Runs /\ completing[w].run = wk[w].run
        /\ completing[w].phase # "crashed"
    BY <1>0, <1>1, <1>7 DEF FinishComplete, At, CompleteFinish, HandsOK, NoCompletion, TypeOK
  <2>2. run'[wk[w].run].status = "succeeded"
    BY <1>3, <1>7, <2>1 DEF FinishComplete, CompleteFinish, TypeOK
  <2> QED BY <1>0, <1>1, <1>2, <2>1, <2>2, HandsReturn
<1>8. CASE EndAttempt(w)
  <2>1. completing'[w].phase = "none" /\ GiveUp(w) /\ wk[w].run \in Runs
    BY <1>0, <1>8 DEF EndAttempt, At, FailAttempt, Idle
  <2>2. PICK row \in RunRow : row = run[wk[w].run]
    BY <2>1 DEF TypeOK
  <2>3. \A status \in Status : \A t :
           /\ Released(row, status).status = status
           /\ [Released(row, status) EXCEPT !.available_at = t].status = status
    BY DEF Released, RunRow
  <2>4. \/ run'[wk[w].run] = [Released(row, "queued") EXCEPT
                                !.available_at = now + Backoff(row.attempts)]
        \/ run'[wk[w].run] = Released(row, "dead")
        \/ run'[wk[w].run] = Released(row, "failed")
    BY <1>8, <2>1, <2>2 DEF EndAttempt, FailAttempt, TypeOK
  <2>5. run'[wk[w].run].status # "running"
    BY <2>3, <2>4 DEF Status, TERMINAL
  <2> QED BY <1>0, <1>1, <1>2, <1>8, <2>1, <2>5, HandsReturn DEF EndAttempt, At
<1>9. CASE Die(w)
  <2>1. CASE Busy(w)
    <3>1. completing'[w].phase = "crashed" /\ GiveUp(w)
      BY <1>9, <2>1 DEF Die, Crash, TypeOK
    <3> QED BY <1>0, <1>1, <3>1, HandsReturn
  <2>2. CASE ~Busy(w)
    <3>1. /\ completing'[w].phase = "none" /\ GiveUp(w)
          /\ \A r \in Runs : ~Holds(w, r)
      BY <1>9, <2>2 DEF Die, Busy, Idle, StoreUnchanged, storeVars
    <3>2. \A r \in Runs : ~Holds(w, r)'
      BY <3>1 DEF NoNewLease
    <3> QED BY <1>0, <1>1, <3>1, <3>2, HandsReturn
  <2> QED BY <2>1, <2>2
<1> QED BY <1>4, <1>5, <1>6, <1>7, <1>8, <1>9

\* The actions before an attempt.
LEMMA BeginningOK ==
    ASSUME TypeOK, LogInv, NEW w \in Workers, WorkerOK(w), RowsStay,
           \/ Reap(w) /\ NoNewLease(w)
           \/ Claim(w)
           \/ Revive(w) /\ NoNewLease(w)
    PROVE  WorkerOK(w)'
<1>0. wk \in [Workers -> Worker] /\ HandsOK(w) /\ wk[w] \in Worker
  BY DEF LogInv, WorkersOK, WorkerOK
<1>1. CASE Reap(w) /\ NoNewLease(w)
  <2>1. /\ wk[w].pc = "reap" /\ completing'[w] = completing[w]
        /\ completing[w].phase # "crashed" /\ wk' = [wk EXCEPT ![w].pc = "claim"]
    BY <1>1 DEF Reap, At, Goto, ReapExpired
  <2>2. /\ wk'[w].pc = "claim" /\ wk'[w].stray = wk[w].stray /\ wk'[w].late = wk[w].late
    BY <1>0, <2>1 DEF Worker
  <2>3. wk[w].stray = 0 /\ wk[w].late = 0
    BY <2>1 DEF WorkerOK, StrayOK, LateOK, Noticing
  <2>4. HandsOK(w)'
    BY <1>0, <1>1, <2>1, <2>2 DEF HandsOK, NoNewLease
  <2> QED BY <2>2, <2>3, <2>4 DEF WorkerOK, StrayOK, LateOK
<1>2. CASE Claim(w)
  <2>1. PICK r \in Runs : ClaimNext(w, r) /\ wk' = [wk EXCEPT ![w].pc = "load", ![w].run = r]
    BY <1>2 DEF Claim
  <2>2. /\ wk'[w].pc = "load" /\ wk'[w].run = r
        /\ wk'[w].stray = wk[w].stray /\ wk'[w].late = wk[w].late
    BY <1>0, <2>1 DEF Worker
  <2>3. wk[w].pc = "claim" /\ completing[w].phase # "crashed" /\ completing'[w] = completing[w]
    BY <1>2, <2>1 DEF Claim, At, ClaimNext
  <2>4. wk[w].stray = 0 /\ wk[w].late = 0
    BY <2>3 DEF WorkerOK, StrayOK, LateOK, Noticing
  <2>5. run'[r].status = "running" /\ \A q \in Runs \ {r} : run'[q] = run[q]
    BY <2>1 DEF ClaimNext, TypeOK, RunRow
  <2>6. \A q \in Runs : ~Holds(w, q)
    BY <1>0, <2>3 DEF HandsOK
  <2>7. \A q \in Runs : Holds(w, q)' => q = r
    BY <2>5, <2>6 DEF Holds
  <2>8. HandsOK(w)'
    BY <1>0, <2>2, <2>3, <2>5, <2>7 DEF HandsOK
  <2> QED BY <2>2, <2>4, <2>8 DEF WorkerOK, StrayOK, LateOK
<1>3. CASE Revive(w) /\ NoNewLease(w)
  <2>1. /\ wk'[w] = wk[w] /\ completing[w].phase = "crashed" /\ completing'[w].phase = "none"
        /\ \A r \in Runs : ~Holds(w, r)
    BY <1>3 DEF Revive, Restart, NoCompletion, TypeOK
  <2>2. wk[w].pc = "reap"
    BY <1>0, <2>1 DEF HandsOK
  <2>3. wk[w].stray = 0 /\ wk[w].late = 0
    BY <2>2 DEF WorkerOK, StrayOK, LateOK, Noticing
  <2>4. \A r \in Runs : ~Holds(w, r)'
    BY <1>3, <2>1 DEF NoNewLease
  <2> QED BY <2>1, <2>2, <2>3, <2>4 DEF WorkerOK, HandsOK, StrayOK, LateOK
<1> QED BY <1>1, <1>2, <1>3

\* The actions of an attempt, up to the recording of a step.
LEMMA WorkingOK ==
    ASSUME TypeOK, LogInv, LogInv', NEW w \in Workers, WorkerOK(w), RowsStay, NoNewLease(w),
           Load(w) \/ CheckCancel(w) \/ Beat(w) \/ ExecTool(w) \/ Generate(w)
    PROVE  WorkerOK(w)'
<1>0. /\ wk \in [Workers -> Worker] /\ HandsOK(w) /\ wk[w] \in Worker /\ wk'[w] \in Worker
      /\ wk[w].pc \notin {"reap", "claim"} => wk[w].run \in Runs
  BY DEF LogInv, WorkersOK, WorkerOK, Placed
<1>1. completing'[w] = completing[w]
  BY DEF Load, CheckCancel, Beat, ExecTool, Generate, StoreUnchanged, storeVars, Heartbeat
<1>2. CASE Load(w)
  <2>1. PICK pc, seq, pending, seen :
           /\ wk' = [wk EXCEPT ![w].pc = pc, ![w].seq = seq, ![w].pending = pending, ![w].seen = seen]
           /\ pc \in {"complete", "fail", "check"}
    BY <1>2 DEF Load, LoopPc
  <2>2. /\ wk'[w].pc = pc /\ wk'[w].run = wk[w].run
        /\ wk'[w].stray = wk[w].stray /\ wk'[w].late = wk[w].late
    BY <1>0, <2>1 DEF Worker
  <2>3. wk[w].pc = "load"
    BY <1>2 DEF Load, At
  <2>4. wk[w].stray # 1 /\ wk[w].late # 1
    BY <2>3 DEF WorkerOK, StrayOK, LateOK, Noticing
  <2>5. HandsOK(w)'
    BY <1>0, <1>1, <2>1, <2>2, <2>3, HandsGoOn
  <2>6. StrayOK(w)' /\ LateOK(w)'
    BY <2>1, <2>2, <2>3, <2>4, CountsGoOn
  <2> QED BY <2>5, <2>6 DEF WorkerOK
<1>3. CASE CheckCancel(w)
  <2>1. PICK pc \in {"cancel", "beat"} :
           /\ Goto(w, pc)
           /\ ~wk[w].seen.open /\ run[wk[w].run].cancel_requested => pc = "cancel"
    BY <1>3 DEF CheckCancel
  <2>2. /\ wk'[w].pc = pc /\ wk'[w].run = wk[w].run
        /\ wk'[w].stray = wk[w].stray /\ wk'[w].late = wk[w].late /\ wk'[w].seen = wk[w].seen
    BY <1>0, <2>1 DEF Goto, Worker
  <2>3. wk[w].pc = "check"
    BY <1>3 DEF CheckCancel, At
  <2>4. wk[w].late = 1 => pc = "cancel"
    BY <2>1 DEF WorkerOK, LateOK
  <2>5. HandsOK(w)'
    BY <1>0, <1>1, <2>2, <2>3, HandsGoOn
  <2>6. StrayOK(w)' /\ LateOK(w)'
    BY <2>2, <2>3, <2>4, CountsGoOn DEF Noticing
  <2> QED BY <2>5, <2>6 DEF WorkerOK
<1>4. CASE Beat(w)
  <2>1. PICK pc \in {"generate", "tool"} : wk' = [wk EXCEPT ![w].pc = pc, ![w].seen = Closed]
    BY <1>4 DEF Beat
  <2>2. /\ wk'[w].pc = pc /\ wk'[w].run = wk[w].run /\ wk'[w].seen = Closed
        /\ wk'[w].stray = wk[w].stray /\ wk'[w].late = wk[w].late
    BY <1>0, <2>1 DEF Worker
  <2>3. wk[w].pc = "beat" /\ Holds(w, wk[w].run)
    BY <1>4 DEF Beat, At, Heartbeat
  <2>4. wk[w].stray # 1 /\ wk[w].late # 1
    BY <2>3 DEF WorkerOK, StrayOK, LateOK
  <2>5. ~wk'[w].seen.open
    BY <2>2 DEF Closed
  <2>6. HandsOK(w)'
    BY <1>0, <1>1, <2>2, <2>3, HandsGoOn
  <2>7. StrayOK(w)' /\ LateOK(w)'
    BY <2>2, <2>3, <2>4, <2>5, CountsGoOn
  <2> QED BY <2>6, <2>7 DEF WorkerOK
<1>5. CASE ExecTool(w) \/ Generate(w)
  <2>1. wk[w].pc \in {"tool", "generate"}
    BY <1>5 DEF ExecTool, Generate, At
  <2>2. wk[w].stray = 0 /\ wk[w].late = 0 /\ ~wk[w].seen.open
    BY <2>1 DEF WorkerOK, StrayOK, LateOK, Noticing
  <2>3. CASE \E retryable \in BOOLEAN : Fail(w, retryable)
    <3>1. /\ wk'[w].pc = "fail" /\ wk'[w].run = wk[w].run
          /\ wk'[w].stray = 0 /\ wk'[w].late = 0
      BY <1>0, <2>2, <2>3 DEF Fail, Worker
    <3>2. HandsOK(w)'
      BY <1>0, <1>1, <2>1, <3>1, HandsGoOn
    <3> QED BY <3>1, <3>2 DEF WorkerOK, StrayOK, LateOK
  <2>4. CASE ~(\E retryable \in BOOLEAN : Fail(w, retryable))
    <3>1. PICK pc \in {"record", "recordModel"}, turn \in Turns :
             \/ wk' = [wk EXCEPT ![w].pc = pc, ![w].late = CountedLate(w)]
             \/ wk' = [wk EXCEPT ![w].pc = pc, ![w].turn = turn, ![w].late = CountedLate(w)]
      <4>1. <<>> \in Turns
        BY PollingTyped DEF Polling, Worker
      <4> QED BY <1>5, <2>4, <4>1 DEF ExecTool, Generate
    <3>2. /\ wk'[w].pc = pc /\ wk'[w].run = wk[w].run /\ wk'[w].seen = wk[w].seen
          /\ wk'[w].stray = 0 /\ wk'[w].late = CountedLate(w)
      BY <1>0, <2>2, <3>1 DEF Worker
    <3>3. HandsOK(w)'
      BY <1>0, <1>1, <2>1, <3>1, <3>2, HandsGoOn
    <3>4. run' = run
      BY <1>5 DEF ExecTool, Generate, StoreUnchanged, storeVars
    <3>5. LateOK(w)'
      <4>1. CASE run[wk[w].run].cancel_requested
        <5>1. wk'[w].late = 1
          BY <2>2, <3>2, <4>1 DEF CountedLate
        <5> QED BY <2>2, <3>1, <3>2, <3>4, <4>1, <5>1 DEF LateOK
      <4>2. CASE ~run[wk[w].run].cancel_requested
        <5>1. wk'[w].late = 0
          BY <2>2, <3>2, <4>2 DEF CountedLate
        <5> QED BY <2>2, <3>2, <5>1 DEF LateOK
      <4> QED BY <4>1, <4>2
    <3> QED BY <3>2, <3>3, <3>5 DEF WorkerOK, StrayOK
  <2> QED BY <2>3, <2>4
<1> QED BY <1>2, <1>3, <1>4, <1>5

\* Recording a step counts it when the lease is gone.
LEMMA RecordingOK ==
    ASSUME TypeOK, LogInv, NEW w \in Workers, WorkerOK(w), RowsStay, NoNewLease(w),
           RecordTool(w) \/ RecordModel(w)
    PROVE  WorkerOK(w)'
<1>0. /\ wk \in [Workers -> Worker] /\ HandsOK(w) /\ wk[w] \in Worker
      /\ wk[w].pc \notin {"reap", "claim"} => wk[w].run \in Runs
  BY DEF LogInv, WorkersOK, WorkerOK, Placed
<1>1. wk[w].pc \in {"record", "recordModel"}
  BY DEF RecordTool, RecordModel, At
<1>2. wk[w].stray = 0 /\ ~wk[w].seen.open
  BY <1>1 DEF WorkerOK, StrayOK, LateOK, Noticing
<1>3. UNCHANGED storeVars
  BY DEF RecordTool, RecordModel, RecordRefused, StoreUnchanged
<1>4. CASE Fail(w, FALSE)
  <2>1. /\ wk'[w].pc = "fail" /\ wk'[w].run = wk[w].run /\ wk'[w].seen = wk[w].seen
        /\ wk'[w].stray = wk[w].stray /\ wk'[w].late = wk[w].late
    BY <1>0, <1>4 DEF Fail, Worker
  <2>2. HandsOK(w)'
    BY <1>0, <1>1, <1>3, <2>1, HandsGoOn DEF storeVars
  <2>3. StrayOK(w)' /\ LateOK(w)'
    BY <1>1, <1>2, <2>1, CountsGoOn
  <2> QED BY <2>2, <2>3 DEF WorkerOK
<1>5. CASE ~Fail(w, FALSE)
  <2>1. PICK pc, seq, pending, turn :
           /\ \/ wk' = [wk EXCEPT ![w].pc = pc, ![w].pending = pending, ![w].stray = CountedStray(w)]
              \/ wk' = [wk EXCEPT ![w].pc = pc, ![w].seq = seq, ![w].pending = pending,
                                  ![w].turn = turn, ![w].stray = CountedStray(w)]
           /\ pc \in {"complete", "fail", "check"}
    <3>1. CASE RecordTool(w)
      BY <1>5, <3>1 DEF RecordTool, RecordRefused, LoopPc
    <3>2. CASE RecordModel(w)
      <4> DEFINE t == wk[w].turn
                 pc == IF t = <<>> THEN "complete" ELSE "check"
                 seq == wk[w].seq + 1 + Len(t)
                 pending == Numbered(wk[w].seq + 1, t)
      <4>1. wk' = [wk EXCEPT ![w].pc = pc, ![w].seq = seq, ![w].pending = pending,
                             ![w].turn = <<>>, ![w].stray = CountedStray(w)]
        BY <1>5, <3>2, Zenon DEF RecordModel, RecordRefused
      <4>2. pc \in {"complete", "fail", "check"}
        OBVIOUS
      <4> HIDE DEF t, pc, seq, pending
      <4> QED BY <4>1, <4>2
    <3> QED BY <3>1, <3>2
  <2>2. /\ wk'[w].pc = pc /\ wk'[w].run = wk[w].run /\ wk'[w].seen = wk[w].seen
        /\ wk'[w].stray = CountedStray(w) /\ wk'[w].late = wk[w].late
    BY <1>0, <2>1 DEF Worker
  <2>3. HandsOK(w)'
    BY <1>0, <1>1, <1>3, <2>1, <2>2, HandsGoOn DEF storeVars
  <2>4. LateOK(w)'
    BY <1>2, <1>3, <2>1, <2>2 DEF WorkerOK, LateOK, storeVars
  <2>5. StrayOK(w)'
    <3>1. CASE Holds(w, wk[w].run)
      BY <1>2, <2>2, <3>1 DEF StrayOK, CountedStray
    <3>2. CASE ~Holds(w, wk[w].run)
      <4>1. wk'[w].stray = 1 /\ ~Holds(w, wk[w].run)'
        BY <1>2, <1>3, <2>2, <3>2 DEF CountedStray, Holds, storeVars
      <4> QED BY <2>1, <2>2, <4>1 DEF StrayOK, Noticing
    <3> QED BY <3>1, <3>2
  <2> QED BY <2>3, <2>4, <2>5 DEF WorkerOK
<1> QED BY <1>4, <1>5

\* The calls of complete, up to the status.
LEMMA CompletingOK ==
    ASSUME TypeOK, LogInv, NEW w \in Workers, WorkerOK(w), RowsStay, NoNewLease(w),
           BeginComplete(w) \/ PostReply(w) \/ ReplyRefused(w)
    PROVE  WorkerOK(w)'
<1>0. /\ wk \in [Workers -> Worker] /\ HandsOK(w) /\ wk[w] \in Worker
      /\ wk[w].pc \notin {"reap", "claim"} => wk[w].run \in Runs
  BY DEF LogInv, WorkersOK, WorkerOK, Placed
<1>1. CASE BeginComplete(w)
  <2>1. /\ wk'[w].pc = "completing" /\ wk'[w].run = wk[w].run /\ wk'[w].seen = Closed
        /\ wk'[w].stray = wk[w].stray /\ wk'[w].late = wk[w].late
    BY <1>0, <1>1 DEF BeginComplete, Worker
  <2>2. /\ wk[w].pc = "complete" /\ Holds(w, wk[w].run)
        /\ completing'[w].phase = "locked" /\ completing'[w].run = wk[w].run
    BY <1>1 DEF BeginComplete, At, CompleteBegin, TypeOK
  <2>3. wk[w].stray # 1
    BY <2>2 DEF WorkerOK, StrayOK
  <2>4. HandsOK(w)'
    BY <1>0, <2>1, <2>2, HandsGoOn
  <2>5. StrayOK(w)' /\ LateOK(w)'
    BY <2>1, <2>2, <2>3, CountsGoOn DEF Closed
  <2> QED BY <2>4, <2>5 DEF WorkerOK
<1>2. CASE PostReply(w)
  <2>1. /\ wk'[w] = wk[w] /\ wk[w].pc = "completing"
        /\ completing'[w].phase = "replied" /\ completing'[w].run = completing[w].run
    BY <1>2 DEF PostReply, At, CompleteReply, TypeOK
  <2>2. completing[w].run = wk[w].run /\ wk[w].stray # 1
    BY <2>1 DEF WorkerOK, HandsOK, StrayOK, Noticing
  <2>3. HandsOK(w)'
    BY <1>0, <2>1, <2>2, HandsGoOn
  <2>4. StrayOK(w)' /\ LateOK(w)'
    BY <2>1, <2>2, CountsGoOn
  <2> QED BY <2>3, <2>4 DEF WorkerOK
<1>3. CASE ReplyRefused(w)
  <2>1. /\ wk'[w].pc = "fail" /\ wk'[w].run = wk[w].run /\ wk'[w].seen = wk[w].seen
        /\ wk'[w].stray = wk[w].stray /\ wk'[w].late = wk[w].late
    BY <1>0, <1>3 DEF ReplyRefused, Fail, Worker
  <2>2. wk[w].pc = "completing" /\ completing'[w].phase = "none"
    BY <1>3 DEF ReplyRefused, At, CompleteCollide, NoCompletion, TypeOK
  <2>3. HandsOK(w)'
    BY <1>0, <2>1, <2>2, HandsGoOn
  <2>4. StrayOK(w)' /\ LateOK(w)'
    BY <2>1, <2>2, CountsGoOn DEF Noticing
  <2> QED BY <2>3, <2>4 DEF WorkerOK
<1> QED BY <1>1, <1>2, <1>3

LEMMA LeaseInit == RunnerInit => LeaseInv
<1> SUFFICES ASSUME RunnerInit, NEW w \in Workers PROVE WorkerOK(w)
  BY DEF LeaseInv
<1>1. wk[w] = Polling /\ completing[w].phase = "none" /\ \A r \in Runs : run[r].status = "absent"
  BY DEF RunnerInit, StoreInit, NoCompletion, NoRow
<1>2. Polling.pc = "reap" /\ Polling.stray = 0 /\ Polling.late = 0
  BY DEF Polling
<1> QED BY <1>1, <1>2 DEF WorkerOK, HandsOK, StrayOK, LateOK, Holds

LEMMA LeaseNextStep ==
    ASSUME TypeOK, QueueInv, LogInv, LeaseInv, [RunnerNext]_runnerVars
    PROVE  LeaseInv'
<1> SUFFICES ASSUME NEW w \in Workers PROVE WorkerOK(w)'
  BY DEF LeaseInv
<1>1. WorkerOK(w) /\ LogInv'
  BY LogNext DEF LeaseInv
<1>2. RowsStay
  BY WorkersHaveRuns, StepImplementsStore, RowsStayNext
<1>3. ~Claim(w) => NoNewLease(w)
  BY LeasesComeByClaims
<1>4. CASE WorkerStep(w) \/ Die(w) \/ Revive(w)
  <2>1. CASE Claim(w)
    BY <1>1, <1>2, <2>1, BeginningOK
  <2>2. CASE ~Claim(w)
    <3>1. NoNewLease(w)
      BY <1>3, <2>2
    <3>2. CASE Reap(w) \/ Revive(w)
      BY <1>1, <1>2, <3>1, <3>2, BeginningOK
    <3>3. CASE \/ ClaimNone(w) \/ Cancel(w) \/ LeaseLost(w) \/ FinishComplete(w) \/ EndAttempt(w)
               \/ Die(w)
      BY <1>1, <1>2, <3>1, <3>3, EndingOK
    <3>4. CASE Load(w) \/ CheckCancel(w) \/ Beat(w) \/ ExecTool(w) \/ Generate(w)
      BY <1>1, <1>2, <3>1, <3>4, WorkingOK
    <3>5. CASE RecordTool(w) \/ RecordModel(w)
      BY <1>1, <1>2, <3>1, <3>5, RecordingOK
    <3>6. CASE BeginComplete(w) \/ PostReply(w) \/ ReplyRefused(w)
      BY <1>1, <1>2, <3>1, <3>6, CompletingOK
    <3> QED BY <1>4, <2>2, <3>2, <3>3, <3>4, <3>5, <3>6, Zenon DEF WorkerStep
  <2> QED BY <2>1, <2>2
<1>5. CASE ~(WorkerStep(w) \/ Die(w) \/ Revive(w))
  <2>1. ~Claim(w)
    BY <1>5 DEF WorkerStep
  <2>2. wk'[w] = wk[w] /\ completing'[w] = completing[w]
    <3>1. ASSUME NEW v \in Workers, WorkerStep(v) \/ Die(v) \/ Revive(v)
          PROVE  wk'[w] = wk[w] /\ completing'[w] = completing[w]
      <4>1. v # w
        BY <1>5, <3>1
      <4> QED BY <3>1, <4>1, OthersStay
    <3>2. CASE ClientStep \/ ClockStep \/ UNCHANGED runnerVars
      BY <3>2 DEF ClientStep, ClockStep, runnerVars, ClientNext, Tick, EnqueueBegin, EnqueueMessage,
                  EnqueueRun, EnqueueAbort, RequestCancelRead, RequestCancelWrite
    <3> QED BY <3>1, <3>2 DEF RunnerNext
  <2> QED BY <1>1, <1>2, <1>3, <2>1, <2>2, Untouched
<1> QED BY <1>4, <1>5

\* The invariant of the workers and all below them.
LEMMA WorkersCorrect == RunnerSpec => [](TypeOK /\ QueueInv /\ LogInv /\ LeaseInv)
<1>1. RunnerInit => LeaseInv
  BY LeaseInit
<1>2. TypeOK /\ QueueInv /\ LogInv /\ LeaseInv /\ [RunnerNext]_runnerVars => LeaseInv'
  BY LeaseNextStep
<1> QED BY <1>1, <1>2, LogCorrect, PTL DEF RunnerSpec

\* A worker never keeps the lease of one run while it works on another.
THEOREM WorkersHoldOneRun == RunnerSpec => []OneRunPerWorker
<1>1. LeaseInv => OneRunPerWorker
  BY DEF LeaseInv, WorkerOK, HandsOK, OneRunPerWorker
<1> QED BY <1>1, WorkersCorrect, PTL

\* A worker that has lost its run records one step at most, however many others
\* work on the run by then.
THEOREM StrayWritesAreBounded == RunnerSpec => []StrayWritesBounded
<1>1. LeaseInv => StrayWritesBounded
  BY DEF LeaseInv, WorkerOK, StrayOK, StrayWritesBounded
<1> QED BY <1>1, WorkersCorrect, PTL

\* A worker begins one step at most after a cancel request, although it may read
\* the flag in a snapshot that is older than the request.
THEOREM CancelsAreNoticed == RunnerSpec => []CancelStopsNextStep
<1>1. LeaseInv => CancelStopsNextStep
  BY DEF LeaseInv, WorkerOK, LateOK, CancelStopsNextStep
<1> QED BY <1>1, WorkersCorrect, PTL

-----------------------------------------------------------------------------
(* Replies and the log.                                                    *)

LEMMA LogsGrowNext ==
    ASSUME LogInv, LogInv', [RunnerNext]_runnerVars
    PROVE  LogsGrow
<1>0. steps \in [Runs -> Log] /\ steps' \in [Runs -> Log]
  BY DEF LogInv, LogsOK
<1>1. CASE UNCHANGED steps
  BY <1>1, SameLogs DEF LogInv
<1>2. ASSUME NEW r \in Runs, NEW s, NEW step, steps[r][s] = NoStep,
             steps' = [steps EXCEPT ![r][s] = step]
      PROVE  LogsGrow
  <2>1. \A q \in Runs : q # r => steps'[q] = steps[q]
    BY <1>0, <1>2
  <2>2. steps'[r] = [steps[r] EXCEPT ![s] = step]
    BY <1>0, <1>2
  <2>3. \A q \in Slots : steps[r][q] # NoStep => steps'[r][q] = steps[r][q]
    BY <1>0, <1>2, <2>2 DEF Log
  <2> QED BY <1>0, <2>1, <2>3 DEF LogsGrow, Longer
<1>3. ASSUME NEW w \in Workers, RecordTool(w) PROVE LogsGrow
  <2>1. wk[w].run \in Runs
    BY <1>3 DEF RecordTool, At, LogInv, WorkersOK, Placed
  <2>2. CASE UNCHANGED steps
    BY <1>1, <2>2
  <2>3. CASE steps' # steps
    <3>1. PICK s, step : /\ steps[wk[w].run][s] = NoStep
                         /\ steps' = [steps EXCEPT ![wk[w].run][s] = step]
      BY <1>3, <2>3, Zenon DEF RecordTool, RecordRefused, LogUnchanged, Taken
    <3> QED BY <1>2, <2>1, <3>1
  <2> QED BY <2>2, <2>3
<1>4. ASSUME NEW w \in Workers, RecordModel(w) PROVE LogsGrow
  <2>1. wk[w].run \in Runs
    BY <1>4 DEF RecordModel, At, LogInv, WorkersOK, Placed
  <2>2. CASE UNCHANGED steps
    BY <1>1, <2>2
  <2>3. CASE steps' # steps
    <3>1. PICK s, step : /\ steps[wk[w].run][s] = NoStep
                         /\ steps' = [steps EXCEPT ![wk[w].run][s] = step]
      BY <1>4, <2>3, Zenon DEF RecordModel, RecordRefused, LogUnchanged, Taken
    <3> QED BY <1>2, <2>1, <3>1
  <2> QED BY <2>2, <2>3
<1> QED
  BY <1>1, <1>3, <1>4
     DEF RunnerNext, WorkerStep, Reap, Claim, ClaimNone, Load, CheckCancel, Cancel, Beat, LeaseLost,
         ExecTool, Generate, BeginComplete, PostReply, ReplyRefused, FinishComplete, EndAttempt,
         Die, Revive, LogUnchanged, ClientStep, ClockStep, runnerVars

\* The row updates of every operation but complete.
LEMMA NotSucceeded ==
    ASSUME TypeOK, NEW r \in Runs, run[r].status # "succeeded",
           \/ ReapExpired \/ Tick \/ UNCHANGED run
           \/ \E q \in Runs : RequestCancelWrite(q)
           \/ \E q \in Runs : EnqueueRun(q)
           \/ \E v \in Workers, q \in Runs : ClaimNext(v, q)
           \/ \E v \in Workers, q \in Runs : Heartbeat(v, q)
           \/ \E v \in Workers, q \in Runs : MarkCancelled(v, q)
           \/ \E v \in Workers, q \in Runs, retryable \in BOOLEAN : FailAttempt(v, q, retryable)
    PROVE  run'[r].status # "succeeded"
<1>1. run[r] \in RunRow
  BY DEF TypeOK
<1>2. \A status : Released(run[r], status).status = status
  BY <1>1 DEF Released, RunRow
<1>3. \A status, t : [Released(run[r], status) EXCEPT !.available_at = t].status = status
  BY <1>1 DEF Released, RunRow
<1>4. CASE ReapExpired
  BY <1>2, <1>3, <1>4 DEF ReapExpired
<1>5. CASE Tick \/ UNCHANGED run
  BY <1>5 DEF Tick
<1>6. ASSUME NEW q \in Runs, RequestCancelWrite(q) PROVE run'[r].status # "succeeded"
  BY <1>6, CancelWritten
<1>7. ASSUME NEW q \in Runs, EnqueueRun(q) PROVE run'[r].status # "succeeded"
  BY <1>7 DEF EnqueueRun, TypeOK, NoRow
<1>8. ASSUME NEW v \in Workers, NEW q \in Runs, ClaimNext(v, q)
      PROVE  run'[r].status # "succeeded"
  BY <1>1, <1>8 DEF ClaimNext, TypeOK, RunRow
<1>9. ASSUME NEW v \in Workers, NEW q \in Runs, Heartbeat(v, q)
      PROVE  run'[r].status # "succeeded"
  BY <1>1, <1>9 DEF Heartbeat, TypeOK, RunRow
<1>10. ASSUME NEW v \in Workers, NEW q \in Runs, MarkCancelled(v, q)
       PROVE  run'[r].status # "succeeded"
  BY <1>2, <1>10 DEF MarkCancelled, TypeOK
<1>11. ASSUME NEW v \in Workers, NEW q \in Runs, NEW retryable \in BOOLEAN,
              FailAttempt(v, q, retryable)
       PROVE  run'[r].status # "succeeded"
  <2>1. CASE q # r
    BY <1>11, <2>1 DEF FailAttempt, TypeOK
  <2>2. CASE q = r
    <3>1. PICK row \in RunRow : row = run[r]
      BY <1>1
    <3>2. Released(row, "dead").status = "dead" /\ Released(row, "failed").status = "failed"
      BY DEF Released, RunRow
    <3>3. \A t : [Released(row, "queued") EXCEPT !.available_at = t].status = "queued"
      BY DEF Released, RunRow
    <3>4. \/ run'[r] = [Released(row, "queued") EXCEPT
                          !.available_at = now + Backoff(row.attempts)]
          \/ run'[r] = Released(row, "dead")
          \/ run'[r] = Released(row, "failed")
      BY <1>11, <2>2, <3>1 DEF FailAttempt, TypeOK
    <3> QED BY <3>2, <3>3, <3>4
  <2> QED BY <2>1, <2>2
<1> QED BY <1>4, <1>5, <1>6, <1>7, <1>8, <1>9, <1>10, <1>11

HasReply(r) == Replies(r) # {} \/ run[r].status = "succeeded"

\* A run is answered in a call of complete.
LEMMA AnsweredByComplete ==
    ASSUME TypeOK, QueueInv, LogInv, [RunnerNext]_runnerVars,
           NEW r \in Runs, HasReply(r)', ~HasReply(r)
    PROVE  \E w \in Workers : \/ PostReply(w) /\ completing[w].run = r
                              \/ FinishComplete(w) /\ completing[w].run = r
<1>1. Replies(r) = {} /\ run[r].status # "succeeded"
  BY DEF HasReply
<1>2. ASSUME NEW w \in Workers, FinishComplete(w), completing[w].run # r PROVE FALSE
  <2>1. run'[r] = run[r] /\ message' = message
    BY <1>2 DEF FinishComplete, CompleteFinish, TypeOK
  <2> QED BY <1>1, <2>1 DEF HasReply, Replies
<1>3. ASSUME UNCHANGED message, run'[r].status # "succeeded" PROVE FALSE
  BY <1>1, <1>3 DEF HasReply, Replies
<1>4. ASSUME NEW w \in Workers, PostReply(w), completing[w].run # r, completing[w].run \in Runs
      PROVE  FALSE
  <2>1. Replies(r)' = Replies(r) /\ run' = run
    BY <1>4, RepliesSame DEF PostReply, CompleteReply
  <2> QED BY <1>1, <2>1 DEF HasReply
<1>5. ASSUME ClientStep PROVE FALSE
  <2>1. PICK q \in Runs :
           \/ EnqueueBegin(q) \/ EnqueueMessage(q) \/ EnqueueRun(q) \/ EnqueueAbort(q)
           \/ RequestCancelRead(q) \/ RequestCancelWrite(q)
    BY <1>5 DEF ClientStep, ClientNext
  <2>2. CASE EnqueueMessage(q)
    <3>1. Replies(r)' = Replies(r) /\ run' = run
      BY <2>2, RepliesSame DEF EnqueueMessage
    <3> QED BY <1>1, <3>1 DEF HasReply
  <2>3. CASE EnqueueRun(q) \/ RequestCancelWrite(q)
    <3>1. run'[r].status # "succeeded"
      BY <1>1, <2>3, NotSucceeded
    <3> QED BY <1>3, <2>3, <3>1 DEF EnqueueRun, RequestCancelWrite
  <2>4. CASE UNCHANGED <<run, message>>
    BY <1>1, <1>3, <2>4
  <2> QED BY <2>1, <2>2, <2>3, <2>4
             DEF EnqueueBegin, EnqueueAbort, RequestCancelRead
<1>6. ASSUME NEW w \in Workers, WorkerStep(w), ~PostReply(w), ~FinishComplete(w) PROVE FALSE
  <2>0. /\ wk[w].pc \notin {"reap", "claim"} => wk[w].run \in Runs
        /\ wk[w].retryable \in BOOLEAN
    BY DEF LogInv, WorkersOK, Placed, Worker
  <2>1. CASE Reap(w)
    BY <1>1, <1>3, <2>1, NotSucceeded DEF Reap, ReapExpired
  <2>2. CASE Claim(w)
    <3>1. PICK q \in Runs : ClaimNext(w, q)
      BY <2>2 DEF Claim
    <3>2. run'[r].status # "succeeded"
      BY <1>1, <3>1, NotSucceeded
    <3> QED BY <1>3, <3>1, <3>2 DEF ClaimNext
  <2>3. CASE Cancel(w)
    <3>1. MarkCancelled(w, wk[w].run) /\ wk[w].run \in Runs
      BY <2>0, <2>3 DEF Cancel, At
    <3>2. run'[r].status # "succeeded"
      BY <1>1, <3>1, NotSucceeded
    <3> QED BY <1>3, <3>1, <3>2 DEF MarkCancelled
  <2>4. CASE Beat(w)
    <3>1. Heartbeat(w, wk[w].run) /\ wk[w].run \in Runs
      BY <2>0, <2>4 DEF Beat, At
    <3>2. run'[r].status # "succeeded"
      BY <1>1, <3>1, NotSucceeded
    <3> QED BY <1>3, <3>1, <3>2 DEF Heartbeat
  <2>5. CASE EndAttempt(w)
    <3>1. FailAttempt(w, wk[w].run, wk[w].retryable) /\ wk[w].run \in Runs
      BY <2>0, <2>5 DEF EndAttempt, At
    <3>2. run'[r].status # "succeeded"
      BY <1>1, <2>0, <3>1, NotSucceeded
    <3> QED BY <1>3, <3>1, <3>2 DEF FailAttempt
  <2>6. CASE UNCHANGED <<run, message>>
    BY <1>1, <1>3, <2>6
  <2> QED
    BY <1>6, <2>1, <2>2, <2>3, <2>4, <2>5, <2>6
       DEF WorkerStep, ClaimNone, Load, CheckCancel, LeaseLost, ExecTool, RecordTool, RecordRefused,
           Generate, RecordModel, StoreUnchanged, storeVars, BeginComplete, ReplyRefused,
           CompleteBegin, CompleteCollide
<1>7. ASSUME UNCHANGED <<run, message>> PROVE FALSE
  BY <1>1, <1>3, <1>7
<1>8. PICK w \in Workers : WorkerStep(w)
  BY <1>5, <1>7 DEF RunnerNext, Die, Revive, Crash, Restart, StoreUnchanged, storeVars,
                    ClockStep, Tick, runnerVars
<1>9. CASE FinishComplete(w)
  BY <1>2, <1>9
<1>10. CASE PostReply(w)
  <2>1. wk[w].pc = "completing" /\ completing[w].phase = "locked"
    BY <1>10 DEF PostReply, At, CompleteReply
  <2>2. completing[w].run \in Runs
    BY <2>1 DEF QueueInv, CallsOK, WritesTargetRows
  <2> QED BY <1>4, <1>10, <2>2
<1> QED BY <1>6, <1>8, <1>9, <1>10

(***************************************************************************)
(* A reply, or the status succeeded, means that the answer is in the log.  *)
(***************************************************************************)
THEOREM RepliesStandInTheLog == RunnerSpec => []RepliesAreLogged
<1> DEFINE Logged == \A r \in Runs : HasReply(r) => HasAnswer(steps[r])
           Below == TypeOK /\ QueueInv /\ LogInv /\ LeaseInv
<1>1. RunnerInit => Logged
  <2> SUFFICES ASSUME RunnerInit, NEW r \in Runs PROVE ~HasReply(r)
    OBVIOUS
  <2> QED BY DEF RunnerInit, StoreInit, HasReply, Replies, NoRow
<1>2. Logged /\ Below /\ LogInv' /\ [RunnerNext]_runnerVars => Logged'
  <2> SUFFICES ASSUME Logged, Below, LogInv', [RunnerNext]_runnerVars, NEW r \in Runs, HasReply(r)'
               PROVE  HasAnswer(steps[r])'
    OBVIOUS
  <2>1. Longer(steps[r], steps'[r])
    BY LogsGrowNext DEF LogsGrow
  <2>2. HasAnswer(steps[r])
    <3>1. CASE HasReply(r)
      BY <3>1
    <3>2. CASE ~HasReply(r)
      <4>1. PICK w \in Workers : /\ PostReply(w) \/ FinishComplete(w)
                                 /\ completing[w].run = r
        BY <3>2, AnsweredByComplete
      <4>2. wk[w].pc = "completing"
        BY <4>1 DEF PostReply, FinishComplete, At
      <4>3. wk[w].run = r
        BY <4>1, <4>2 DEF LeaseInv, WorkerOK, HandsOK
      <4>4. Placed(wk[w])
        BY DEF LogInv, WorkersOK
      <4> QED BY <4>2, <4>3, <4>4 DEF Placed
    <3> QED BY <3>1, <3>2
  <2> QED BY <2>1, <2>2, AnswerStays
<1>3. Logged => RepliesAreLogged
  BY DEF HasReply, RepliesAreLogged
<1> QED BY <1>1, <1>2, <1>3, WorkersCorrect, PTL DEF RunnerSpec

-----------------------------------------------------------------------------
(* How often a call is executed.  Each attempt begins with the right to    *)
(* execute every call of its run once, and gives it up by executing it or  *)
(* by going past it; whoever holds such a right was given it by a claim.   *)

\* The calls a worker in the state x has before it in its turn.
Ahead(x) == IF x.pc = "record" THEN x.pending \ {First(x.pending)} ELSE x.pending

\* It may come to execute the call at step s of r in the attempt it is in.
MayExecute(x, r, s) ==
    /\ x.run = r
    /\ \/ x.pc = "load"
       \/ x.pc \in Executing /\ (s > x.seq \/ \E p \in Ahead(x) : p.seq = s)

Able(r, s) == {w \in Workers : MayExecute(wk[w], r, s)}

ExecutionsInv ==
    \A r \in Runs, s \in Slots : Len(executed[r][s]) + Cardinality(Able(r, s)) <= run[r].attempts

LEMMA AbleFinite ==
    ASSUME NEW r, NEW s
    PROVE  IsFiniteSet(Able(r, s)) /\ Cardinality(Able(r, s)) \in Nat
<1>1. Able(r, s) \subseteq Workers
  BY DEF Able
<1>2. IsFiniteSet(Able(r, s))
  BY <1>1, ProcessesAssumption, FS_Subset
<1> QED BY <1>2, FS_CardinalityType

\* The calls of one turn have different seqs, none past that of the worker.
LEMMA TurnSeqs ==
    ASSUME NEW log, LogOK(log), NEW seq, NEW pending, Follows(log, seq, pending),
           NEW p \in pending
    PROVE  /\ p.seq \in Slots /\ seq \in Nat /\ p.seq <= seq
           /\ \A q \in pending : q.seq = p.seq => q = p
<1>1. PICK m \in Slots : FollowsTurn(log, seq, pending, m)
  BY DEF Follows
<1>2. PICK turn : turn = log[m].calls
  OBVIOUS
<1>3. /\ log[m].kind = "model" /\ seq = m + Len(turn)
      /\ pending \subseteq Numbered(m, turn)
  BY <1>1, <1>2 DEF FollowsTurn, Demands
<1>4. /\ m \in Nat /\ Len(turn) \in Nat
      /\ \A q \in Numbered(m, turn) : q.seq \in Slots /\ q.seq <= m + Len(turn)
  BY <1>2, <1>3, DemandedSlots
<1>5. \A q \in Numbered(m, turn) : \E i \in 1 .. Len(turn) : q = [seq |-> m + i, call |-> turn[i]]
  BY DEF Numbered
<1>6. ASSUME NEW q \in pending, q.seq = p.seq PROVE q = p
  <2>1. PICK i \in 1 .. Len(turn) : p = [seq |-> m + i, call |-> turn[i]]
    BY <1>3, <1>5
  <2>2. PICK j \in 1 .. Len(turn) : q = [seq |-> m + j, call |-> turn[j]]
    BY <1>3, <1>5
  <2>3. m + i = m + j
    BY <1>6, <2>1, <2>2
  <2>4. i = j
    BY <1>4, <2>3
  <2> QED BY <2>1, <2>2, <2>4
<1> QED BY <1>3, <1>4, <1>6

\* No step but a claim lets a worker execute what it could not before.
LEMMA NoNewCalls ==
    ASSUME TypeOK, LogInv, NEW w \in Workers, WorkerStep(w) \/ Die(w) \/ Revive(w), ~Claim(w),
           NEW r \in Runs, NEW s \in Slots, MayExecute(wk'[w], r, s)
    PROVE  MayExecute(wk[w], r, s)
<1>1. PICK me \in Worker : me = wk[w] /\ Placed(me)
  BY DEF LogInv, WorkersOK
<1>0. wk \in [Workers -> Worker]
  BY DEF LogInv, WorkersOK
<1>2. wk'[w].pc \in {"load"} \cup Executing
  BY DEF MayExecute
<1>3. ~GiveUp(w)
  BY <1>0, <1>2 DEF GiveUp, Polling, Executing
<1>4. \A retryable : ~Fail(w, retryable)
  <2> SUFFICES ASSUME NEW retryable, Fail(w, retryable) PROVE FALSE
    OBVIOUS
  <2>1. wk'[w].pc = "fail"
    BY <1>0 DEF Fail, Worker
  <2> QED BY <1>2, <2>1 DEF Executing
<1>5. CASE Reap(w)
  <2>1. wk'[w].pc = "claim"
    BY <1>0, <1>5 DEF Reap, Goto, Worker
  <2> QED BY <1>2, <2>1 DEF Executing
<1>6. CASE Load(w)
  <2>1. PICK pc, seq, pending, seen :
           wk' = [wk EXCEPT ![w].pc = pc, ![w].seq = seq, ![w].pending = pending, ![w].seen = seen]
    BY <1>6 DEF Load
  <2>2. wk'[w].run = wk[w].run /\ wk[w].pc = "load"
    BY <1>0, <1>6, <2>1 DEF Worker, Load, At
  <2> QED BY <2>2 DEF MayExecute
<1>7. CASE CheckCancel(w) \/ Beat(w) \/ Generate(w) \/ ExecTool(w)
  <2>1. /\ wk'[w].run = wk[w].run /\ wk'[w].seq = wk[w].seq /\ wk'[w].pending = wk[w].pending
        /\ wk'[w].pc \in {"cancel", "beat", "generate", "tool", "recordModel", "record"}
        /\ wk[w].pc \in {"check", "beat", "generate", "tool"}
    <3>1. CASE CheckCancel(w)
      BY <1>0, <3>1 DEF CheckCancel, At, Goto, Worker
    <3>2. CASE Beat(w)
      <4>1. PICK pc \in {"generate", "tool"} : wk' = [wk EXCEPT ![w].pc = pc, ![w].seen = Closed]
        BY <3>2 DEF Beat
      <4> QED BY <1>0, <3>2, <4>1 DEF Beat, At, Worker
    <3>3. CASE Generate(w)
      <4>1. PICK turn, late : wk' = [wk EXCEPT ![w].pc = "recordModel", ![w].turn = turn, ![w].late = late]
        BY <1>4, <3>3 DEF Generate
      <4> QED BY <1>0, <3>3, <4>1 DEF Generate, At, Worker
    <3>4. CASE ExecTool(w)
      <4>1. PICK late : wk' = [wk EXCEPT ![w].pc = "record", ![w].late = late]
        BY <1>4, <3>4 DEF ExecTool
      <4> QED BY <1>0, <3>4, <4>1 DEF ExecTool, At, Worker
    <3> QED BY <1>7, <3>1, <3>2, <3>3, <3>4
  <2>2. Ahead(wk'[w]) \subseteq Ahead(wk[w])
    BY <2>1 DEF Ahead
  <2> QED BY <2>1, <2>2 DEF MayExecute, Executing
<1>8. CASE RecordTool(w)
  <2>1. PICK pc, stray :
           /\ wk' = [wk EXCEPT ![w].pc = pc, ![w].pending = wk[w].pending \ {First(wk[w].pending)},
                               ![w].stray = stray]
           /\ pc \in {"fail", "check"} /\ wk[w].pc = "record"
    BY <1>4, <1>8 DEF RecordTool, RecordRefused, At, LoopPc
  <2>2. /\ wk'[w].run = wk[w].run /\ wk'[w].seq = wk[w].seq /\ wk'[w].pc = pc
        /\ wk'[w].pending = wk[w].pending \ {First(wk[w].pending)}
    BY <1>0, <2>1 DEF Worker
  <2>3. Ahead(wk'[w]) = Ahead(wk[w])
    BY <2>1, <2>2 DEF Ahead
  <2> QED BY <2>1, <2>2, <2>3 DEF MayExecute, Executing
<1>9. CASE RecordModel(w)
  <2>1. PICK pc, seq, pending, stray :
           /\ wk' = [wk EXCEPT ![w].pc = pc, ![w].seq = seq, ![w].pending = pending,
                               ![w].turn = <<>>, ![w].stray = stray]
           /\ seq = wk[w].seq + 1 + Len(wk[w].turn)
           /\ pending = Numbered(wk[w].seq + 1, wk[w].turn)
           /\ pc \in {"complete", "check"} /\ wk[w].pc = "recordModel"
    <3>1. /\ wk' = [wk EXCEPT ![w].pc = IF wk[w].turn = <<>> THEN "complete" ELSE "check",
                              ![w].seq = wk[w].seq + 1 + Len(wk[w].turn),
                              ![w].pending = Numbered(wk[w].seq + 1, wk[w].turn),
                              ![w].turn = <<>>, ![w].stray = CountedStray(w)]
          /\ wk[w].pc = "recordModel"
      BY <1>4, <1>9, Zenon DEF RecordModel, RecordRefused, At
    <3>2. (IF wk[w].turn = <<>> THEN "complete" ELSE "check") \in {"complete", "check"}
      OBVIOUS
    <3> QED BY <3>1, <3>2
  <2>2. /\ wk'[w].run = wk[w].run /\ wk'[w].seq = seq /\ wk'[w].pc = pc /\ wk'[w].pending = pending
    BY <1>0, <2>1 DEF Worker
  <2>3. wk[w].seq \in Nat /\ Len(wk[w].turn) \in Nat /\ s \in Nat
    BY <1>1, TurnLength DEF Worker, Slots
  <2>4. \A p \in pending : p.seq > wk[w].seq
    <3>0. PICK turn : turn = wk[w].turn
      OBVIOUS
    <3>1. PICK n \in Nat : n = wk[w].seq /\ turn = wk[w].turn /\ Len(turn) \in Nat
      BY <2>3, <3>0
    <3>2. pending = {[seq |-> n + 1 + i, call |-> turn[i]] : i \in 1 .. Len(turn)}
      BY <2>1, <3>1 DEF Numbered
    <3>3. \A i \in 1 .. Len(turn) : n + 1 + i > n
      BY <3>1
    <3> QED BY <3>1, <3>2, <3>3
  <2>5. s > wk[w].seq
    <3>1. s > seq \/ \E p \in pending : p.seq = s
      BY <2>1, <2>2 DEF MayExecute, Ahead, Executing
    <3> QED BY <2>1, <2>3, <2>4, <3>1
  <2> QED BY <2>1, <2>2, <2>5 DEF MayExecute, Executing
<1>10. CASE BeginComplete(w)
  <2>1. wk'[w].pc = "completing"
    BY <1>0, <1>10 DEF BeginComplete, Worker
  <2> QED BY <1>2, <2>1 DEF Executing
<1>11. CASE PostReply(w) \/ Revive(w)
  BY <1>11 DEF PostReply, Revive
<1> QED
  BY <1>3, <1>4, <1>5, <1>6, <1>7, <1>8, <1>9, <1>10, <1>11
     DEF WorkerStep, ClaimNone, Cancel, LeaseLost, ReplyRefused, FinishComplete, EndAttempt, Die

LEMMA ExecutedTyped ==
    ASSUME LogInv, NEW r \in Runs, NEW s \in Slots
    PROVE  executed[r][s] \in Seq(Calls) /\ Len(executed[r][s]) \in Nat
<1>1. executed[r][s] \in Seq(Calls)
  BY DEF LogInv, ExecutedOK
<1> QED BY <1>1

\* Rights are neither used nor given.
LEMMA RightsKept ==
    ASSUME TypeOK, QueueInv, LogInv, ExecutionsInv, [StoreNext]_storeVars, UNCHANGED executed,
           \A r \in Runs, s \in Slots : Able(r, s)' \subseteq Able(r, s)
    PROVE  ExecutionsInv'
<1> SUFFICES ASSUME NEW r \in Runs, NEW s \in Slots
             PROVE  Len(executed[r][s]) + Cardinality(Able(r, s)') <= run'[r].attempts
  BY DEF ExecutionsInv
<1>1. Cardinality(Able(r, s)') <= Cardinality(Able(r, s)) /\ Cardinality(Able(r, s)') \in Nat
  <2>1. IsFiniteSet(Able(r, s)) /\ Able(r, s)' \subseteq Able(r, s)
    BY AbleFinite
  <2> QED BY <2>1, FS_Subset, FS_CardinalityType
<1>2. /\ run[r].attempts \in Nat /\ run'[r].attempts \in Nat
      /\ run'[r].attempts >= run[r].attempts
  BY AttemptsGrow
<1>3. Len(executed[r][s]) + Cardinality(Able(r, s)) <= run[r].attempts
  BY DEF ExecutionsInv
<1> QED BY <1>1, <1>2, <1>3, AbleFinite, ExecutedTyped

\* A claim gives one worker the rights of one attempt.
LEMMA RightsGiven ==
    ASSUME TypeOK, QueueInv, LogInv, ExecutionsInv, [RunnerNext]_runnerVars,
           NEW w \in Workers, Claim(w)
    PROVE  ExecutionsInv'
<1>0. wk \in [Workers -> Worker]
  BY DEF LogInv, WorkersOK
<1>1. PICK q \in Runs : ClaimNext(w, q) /\ wk' = [wk EXCEPT ![w].pc = "load", ![w].run = q]
  BY DEF Claim
<1>2. wk'[w].run = q /\ \A v \in Workers \ {w} : wk'[v] = wk[v]
  BY <1>0, <1>1 DEF Worker
<1>3. executed' = executed
  BY DEF Claim, LogUnchanged
<1>4. run'[q].attempts = run[q].attempts + 1 /\ \A r \in Runs \ {q} : run'[r] = run[r]
  BY <1>1 DEF ClaimNext, TypeOK, RunRow
<1> SUFFICES ASSUME NEW r \in Runs, NEW s \in Slots
             PROVE  Len(executed[r][s]) + Cardinality(Able(r, s)') <= run'[r].attempts
  BY <1>3 DEF ExecutionsInv
<1>5. /\ Len(executed[r][s]) \in Nat /\ run[r].attempts \in Nat
      /\ Len(executed[r][s]) + Cardinality(Able(r, s)) <= run[r].attempts
      /\ IsFiniteSet(Able(r, s)) /\ Cardinality(Able(r, s)) \in Nat
  BY AbleFinite, ExecutedTyped DEF ExecutionsInv, TypeOK, RunRow
<1>6. CASE r = q
  <2>1. Able(r, s)' \subseteq Able(r, s) \cup {w}
    BY <1>2 DEF Able
  <2>2. /\ IsFiniteSet(Able(r, s) \cup {w})
        /\ Cardinality(Able(r, s) \cup {w}) \in {Cardinality(Able(r, s)), Cardinality(Able(r, s)) + 1}
    BY <1>5, FS_AddElement
  <2>3. /\ Cardinality(Able(r, s)') <= Cardinality(Able(r, s) \cup {w})
        /\ Cardinality(Able(r, s)') \in Nat
    BY <2>1, <2>2, FS_Subset, FS_CardinalityType
  <2> QED BY <1>4, <1>5, <1>6, <2>2, <2>3
<1>7. CASE r # q
  <2>1. Able(r, s)' \subseteq Able(r, s)
    BY <1>2, <1>7 DEF Able, MayExecute
  <2>2. Cardinality(Able(r, s)') <= Cardinality(Able(r, s)) /\ Cardinality(Able(r, s)') \in Nat
    BY <1>5, <2>1, FS_Subset, FS_CardinalityType
  <2> QED BY <1>4, <1>5, <1>7, <2>2
<1> QED BY <1>6, <1>7

\* A call that is executed uses up its worker's right to it.
LEMMA RightsUsed ==
    ASSUME TypeOK, QueueInv, LogInv, ExecutionsInv, [RunnerNext]_runnerVars,
           NEW w \in Workers, ExecTool(w),
           \A r \in Runs, s \in Slots : Able(r, s)' \subseteq Able(r, s)
    PROVE  ExecutionsInv'
<1>0. wk \in [Workers -> Worker]
  BY DEF LogInv, WorkersOK
<1>1. PICK me \in Worker : me = wk[w] /\ Placed(me)
  BY DEF LogInv, WorkersOK
<1>2. me.pc = "tool" /\ me.run \in Runs
  BY <1>1 DEF ExecTool, At, Placed
<1>3. PICK p : p = First(me.pending)
  OBVIOUS
<1>4. PICK q \in Runs : q = me.run
  BY <1>2
<1>5. p \in me.pending /\ Follows(steps[q], me.seq, me.pending) /\ LogOK(steps[q])
  BY <1>1, <1>2, <1>3, <1>4, FirstCall DEF LogInv, LogsOK
<1>6. /\ p.seq \in Slots /\ p.seq <= me.seq /\ me.seq \in Nat
      /\ \A o \in me.pending : o.seq = p.seq => o = p
  BY <1>5, TurnSeqs
<1>7. executed' = [executed EXCEPT ![q][p.seq] = Append(@, p.call)] /\ run' = run
  BY <1>1, <1>3, <1>4 DEF ExecTool, StoreUnchanged, storeVars
<1>8. w \in Able(q, p.seq)
  BY <1>1, <1>2, <1>4, <1>5 DEF Able, MayExecute, Ahead, Executing
<1>9. w \notin Able(q, p.seq)'
  <2> SUFFICES ASSUME MayExecute(wk'[w], q, p.seq) PROVE FALSE
    BY DEF Able
  <2>1. CASE \E retryable \in BOOLEAN : Fail(w, retryable)
    <3>1. wk'[w].pc = "fail"
      BY <1>0, <2>1 DEF Fail, Worker
    <3> QED BY <3>1 DEF MayExecute, Executing
  <2>2. CASE wk' = [wk EXCEPT ![w].pc = "record", ![w].late = CountedLate(w)]
    <3>1. /\ wk'[w].pc = "record" /\ wk'[w].seq = me.seq /\ wk'[w].pending = me.pending
      BY <1>0, <1>1, <2>2 DEF Worker
    <3>2. Ahead(wk'[w]) = me.pending \ {p}
      BY <1>3, <3>1 DEF Ahead
    <3>3. p.seq > me.seq \/ \E o \in me.pending \ {p} : o.seq = p.seq
      BY <3>1, <3>2 DEF MayExecute
    <3> QED BY <1>6, <3>3 DEF Slots
  <2> QED BY <2>1, <2>2 DEF ExecTool
<1> SUFFICES ASSUME NEW r \in Runs, NEW s \in Slots
             PROVE  Len(executed'[r][s]) + Cardinality(Able(r, s)') <= run[r].attempts
  BY <1>7 DEF ExecutionsInv
<1>10. /\ Len(executed[r][s]) \in Nat /\ run[r].attempts \in Nat
       /\ Len(executed[r][s]) + Cardinality(Able(r, s)) <= run[r].attempts
       /\ IsFiniteSet(Able(r, s)) /\ Cardinality(Able(r, s)) \in Nat
  BY AbleFinite, ExecutedTyped DEF ExecutionsInv, TypeOK, RunRow
<1>11. Cardinality(Able(r, s)') <= Cardinality(Able(r, s)) /\ Cardinality(Able(r, s)') \in Nat
  BY <1>10, FS_Subset, FS_CardinalityType
<1>12. CASE r = q /\ s = p.seq
  <2>1. Able(r, s)' \subseteq Able(r, s) \ {w}
    BY <1>9, <1>12
  <2>2. /\ IsFiniteSet(Able(r, s) \ {w})
        /\ Cardinality(Able(r, s) \ {w}) = Cardinality(Able(r, s)) - 1
    BY <1>8, <1>10, <1>12, FS_RemoveElement
  <2>3. Cardinality(Able(r, s)') <= Cardinality(Able(r, s)) - 1
    BY <2>1, <2>2, FS_Subset
  <2>4. Len(executed'[r][s]) = Len(executed[r][s]) + 1
    <3>1. PICK calls \in Seq(Calls) : calls = executed[r][s]
      BY ExecutedTyped
    <3>2. executed'[r][s] = Append(calls, p.call)
      BY <1>7, <1>12, <3>1 DEF LogInv, ExecutedOK
    <3> QED BY <3>1, <3>2
  <2> QED BY <1>10, <1>11, <2>3, <2>4
<1>13. CASE ~(r = q /\ s = p.seq)
  <2>1. executed'[r][s] = executed[r][s]
    BY <1>7, <1>13 DEF LogInv, ExecutedOK
  <2> QED BY <1>10, <1>11, <2>1
<1> QED BY <1>12, <1>13

LEMMA ExecutionsInit == RunnerInit => ExecutionsInv
<1> SUFFICES ASSUME RunnerInit, NEW r \in Runs, NEW s \in Slots
             PROVE  Len(executed[r][s]) + Cardinality(Able(r, s)) <= run[r].attempts
  BY DEF ExecutionsInv
<1>1. \A w \in Workers : wk[w].pc = "reap"
  BY DEF RunnerInit, Polling
<1>2. Able(r, s) = {}
  BY <1>1 DEF Able, MayExecute, Executing
<1>3. executed[r][s] = <<>> /\ run[r].attempts = 0
  BY DEF RunnerInit, StoreInit, NoRow
<1> QED BY <1>2, <1>3, FS_EmptySet

LEMMA ExecutionsNext ==
    ASSUME TypeOK, QueueInv, LogInv, ExecutionsInv, [RunnerNext]_runnerVars
    PROVE  ExecutionsInv'
<1>0. [StoreNext]_storeVars
  BY WorkersHaveRuns, StepImplementsStore
<1>1. ASSUME NEW w \in Workers, WorkerStep(w) \/ Die(w) \/ Revive(w) PROVE ExecutionsInv'
  <2>1. CASE Claim(w)
    BY <2>1, RightsGiven
  <2>2. CASE ~Claim(w)
    <3>1. \A r \in Runs, s \in Slots : Able(r, s)' \subseteq Able(r, s)
      <4> SUFFICES ASSUME NEW r \in Runs, NEW s \in Slots, NEW v \in Workers, MayExecute(wk'[v], r, s)
                   PROVE  MayExecute(wk[v], r, s)
        BY DEF Able
      <4>1. CASE v = w
        BY <1>1, <2>2, <4>1, NoNewCalls
      <4>2. CASE v # w
        <5>1. wk'[v] = wk[v]
          BY <1>1, <4>2, OthersStay
        <5> QED BY <5>1
      <4> QED BY <4>1, <4>2
    <3>2. CASE ExecTool(w)
      BY <3>1, <3>2, RightsUsed
    <3>3. CASE ~ExecTool(w)
      <4>1. UNCHANGED executed
        BY <1>1, <3>3
           DEF WorkerStep, Reap, Claim, ClaimNone, Load, CheckCancel, Cancel, Beat, LeaseLost,
               RecordTool, RecordRefused, Generate, RecordModel, BeginComplete, PostReply,
               ReplyRefused, FinishComplete, EndAttempt, Die, Revive, LogUnchanged
      <4> QED BY <1>0, <3>1, <4>1, RightsKept
    <3> QED BY <3>2, <3>3
  <2> QED BY <2>1, <2>2
<1>2. CASE UNCHANGED <<wk, executed>>
  <2>1. \A r \in Runs, s \in Slots : Able(r, s)' \subseteq Able(r, s)
    BY <1>2 DEF Able
  <2> QED BY <1>0, <1>2, <2>1, RightsKept
<1> QED BY <1>1, <1>2 DEF RunnerNext, ClientStep, ClockStep, runnerVars

LEMMA ExecutionsCorrect == RunnerSpec => [](TypeOK /\ QueueInv /\ LogInv /\ ExecutionsInv)
<1>1. RunnerInit => ExecutionsInv
  BY ExecutionsInit
<1>2. TypeOK /\ QueueInv /\ LogInv /\ ExecutionsInv /\ [RunnerNext]_runnerVars => ExecutionsInv'
  BY ExecutionsNext
<1> QED BY <1>1, <1>2, LogCorrect, PTL DEF RunnerSpec

(***************************************************************************)
(* An attempt executes the call at a step once at most, whoever else       *)
(* executes it in an attempt that has not ended.                           *)
(***************************************************************************)
THEOREM ExecutionsAreBounded == RunnerSpec => []ExecutionsBounded
<1>1. TypeOK /\ LogInv /\ ExecutionsInv => ExecutionsBounded
  <2> SUFFICES ASSUME TypeOK, LogInv, ExecutionsInv, NEW r \in Runs, NEW s \in Slots
               PROVE  Len(executed[r][s]) <= run[r].attempts
    BY DEF ExecutionsBounded
  <2>1. Len(executed[r][s]) + Cardinality(Able(r, s)) <= run[r].attempts
    BY DEF ExecutionsInv
  <2>2. run[r].attempts \in Nat
    BY DEF TypeOK, RunRow
  <2> QED BY <2>1, <2>2, AbleFinite, ExecutedTyped
<1> QED BY <1>1, ExecutionsCorrect, PTL

-----------------------------------------------------------------------------
(* How long an attempt is.  Calls and turns that are left are counted in   *)
(* rounds of the loop, and the steps of a round one by one.                *)

TurnsLeft(n) == (MaxCalls + 1) * (IF n < MaxSteps THEN MaxSteps - n ELSE 0)

\* A turn that begins below the limit leaves fewer rounds than it may ask for.
LEMMA TurnsRunDown ==
    ASSUME NEW m \in Nat, NEW n \in Nat, m <= n
    PROVE  /\ TurnsLeft(m) \in Nat /\ TurnsLeft(n) \in Nat
           /\ TurnsLeft(n) <= TurnsLeft(m)
           /\ m < n /\ m < MaxSteps => TurnsLeft(n) + MaxCalls + 1 <= TurnsLeft(m)
           /\ TurnsLeft(m) <= (MaxCalls + 1) * MaxSteps
<1>1. PICK a \in Nat : a = MaxCalls + 1
  OBVIOUS
<1>2. PICK x \in Nat : x = IF m < MaxSteps THEN MaxSteps - m ELSE 0
  OBVIOUS
<1>3. PICK y \in Nat : y = IF n < MaxSteps THEN MaxSteps - n ELSE 0
  OBVIOUS
<1>4. /\ y <= x /\ x <= MaxSteps /\ MaxSteps \in Nat
      /\ m < n /\ m < MaxSteps => y + 1 <= x
  BY <1>2, <1>3
<1>5. ASSUME NEW b \in Nat, NEW c \in Nat, b <= c
      PROVE  a * b \in Nat /\ a * c \in Nat /\ a * b <= a * c
  <2>1. PICK d \in Nat : c = b + d
    BY <1>5
  <2>2. a * c = a * b + a * d /\ a * d \in Nat /\ a * b \in Nat
    BY <2>1
  <2> QED BY <2>2
<1>6. y + 1 <= x => a * y + a <= a * x
  <2>1. a * (y + 1) = a * y + a
    OBVIOUS
  <2> QED BY <1>5, <2>1
<1>7. TurnsLeft(m) = a * x /\ TurnsLeft(n) = a * y
  BY <1>1, <1>2, <1>3 DEF TurnsLeft
<1>8. a * x \in Nat /\ a * y \in Nat /\ a * y <= a * x /\ a * x <= a * MaxSteps
  BY <1>4, <1>5
<1> HIDE DEF TurnsLeft
<1> QED BY <1>1, <1>4, <1>6, <1>7, <1>8

\* A turn asks for no more calls than it has.
LEMMA FewCalls ==
    ASSUME NEW s \in Nat, NEW turn \in Turns
    PROVE  IsFiniteSet(Numbered(s, turn)) /\ Cardinality(Numbered(s, turn)) \in 0 .. MaxCalls
<1> DEFINE f == [i \in 1 .. Len(turn) |-> [seq |-> s + i, call |-> turn[i]]]
<1>1. Len(turn) \in Nat /\ Len(turn) <= MaxCalls
  BY TurnLength
<1>2. IsFiniteSet(1 .. Len(turn)) /\ Cardinality(1 .. Len(turn)) = Len(turn)
  <2>1. PICK n \in Nat : n = Len(turn)
    BY <1>1
  <2>2. IsFiniteSet(1 .. n) /\ Cardinality(1 .. n) = n
    BY FS_Interval
  <2> QED BY <2>1, <2>2
<1>3. f \in Surjection(1 .. Len(turn), Numbered(s, turn))
  BY DEF Numbered, Surjection
<1>4. /\ IsFiniteSet(Numbered(s, turn))
      /\ Cardinality(Numbered(s, turn)) <= Cardinality(1 .. Len(turn))
  BY <1>2, <1>3, FS_Surjection
<1> QED BY <1>1, <1>2, <1>4, FS_CardinalityType

LEMMA RoundsTyped ==
    ASSUME NEW x, x.seq \in Nat, IsFiniteSet(x.pending), Cardinality(x.pending) \in 0 .. MaxCalls
    PROVE  /\ RoundsLeft(x) = Cardinality(x.pending) + TurnsLeft(x.seq)
           /\ RoundsLeft(x) \in Nat /\ RoundsLeft(x) <= MostRounds
<1>1. RoundsLeft(x) = Cardinality(x.pending) + TurnsLeft(x.seq)
  BY DEF RoundsLeft, TurnsLeft
<1>2. TurnsLeft(x.seq) \in Nat /\ TurnsLeft(x.seq) <= (MaxCalls + 1) * MaxSteps
  BY TurnsRunDown
<1>3. PICK most : most = (MaxCalls + 1) * MaxSteps
  OBVIOUS
<1>4. most \in Nat /\ MostRounds = MaxCalls + most
  BY <1>3 DEF MostRounds
<1> QED BY <1>1, <1>2, <1>3, <1>4

\* A worker that knows the log of its run has few calls pending.
LEMMA RoundsFew ==
    ASSUME NEW log, LogOK(log), NEW x, Follows(log, x.seq, x.pending)
    PROVE  /\ x.seq \in Nat /\ IsFiniteSet(x.pending)
           /\ Cardinality(x.pending) \in 0 .. MaxCalls
           /\ RoundsLeft(x) \in Nat /\ RoundsLeft(x) <= MostRounds
<1>1. x.seq \in Nat
  BY FollowsTyped DEF Slots
<1>2. IsFiniteSet(x.pending) /\ Cardinality(x.pending) \in 0 .. MaxCalls
  <2>1. CASE x.pending = {}
    BY <2>1, FS_EmptySet
  <2>2. ASSUME NEW m \in Slots, FollowsTurn(log, x.seq, x.pending, m)
        PROVE  IsFiniteSet(x.pending) /\ Cardinality(x.pending) \in 0 .. MaxCalls
    <3>1. PICK turn : turn = log[m].calls
      OBVIOUS
    <3>2. x.pending \subseteq Numbered(m, turn) /\ log[m].kind = "model"
      BY <2>2, <3>1 DEF FollowsTurn, Demands
    <3>3. turn \in Turns /\ m \in Nat
      BY <3>1, <3>2, DemandedSlots
    <3>4. /\ IsFiniteSet(Numbered(m, turn))
          /\ Cardinality(Numbered(m, turn)) \in 0 .. MaxCalls
      BY <3>3, FewCalls
    <3> QED BY <3>2, <3>4, FS_Subset, FS_CardinalityType
  <2> QED BY <2>1, <2>2 DEF Follows
<1> QED BY <1>1, <1>2, RoundsTyped

LEMMA RoundsOfWorker ==
    ASSUME LogInv, NEW w \in Workers, wk[w].pc \in Executing
    PROVE  /\ wk[w].seq \in Nat /\ IsFiniteSet(wk[w].pending)
           /\ Cardinality(wk[w].pending) \in 0 .. MaxCalls
           /\ RoundsLeft(wk[w]) \in Nat /\ RoundsLeft(wk[w]) <= MostRounds
<1>1. /\ wk[w].run \in Runs
      /\ Follows(steps[wk[w].run], wk[w].seq, wk[w].pending)
  BY DEF LogInv, WorkersOK, Placed, Executing
<1>2. LogOK(steps[wk[w].run])
  BY <1>1 DEF LogInv, LogsOK
<1> QED BY <1>1, <1>2, RoundsFew

\* What is left to a worker in the state x, in that phase of complete.
Left(x, phase) ==
    CASE x.pc = "load" -> 4 * MostRounds + 9
      [] x.pc = "check" -> 4 * RoundsLeft(x) + 8
      [] x.pc = "beat" -> 4 * RoundsLeft(x) + 7
      [] x.pc \in {"tool", "generate"} -> 4 * RoundsLeft(x) + 6
      [] x.pc \in {"record", "recordModel"} -> 4 * RoundsLeft(x) + 5
      [] x.pc = "complete" -> 4
      [] x.pc = "completing" -> IF phase = "locked" THEN 3 ELSE 2
      [] x.pc \in {"cancel", "fail"} -> 1
      [] OTHER -> 0

LEMMA LeftOfAttempt ==
    ASSUME NEW w \in Workers
    PROVE  AttemptLeft(w) = Left(wk[w], completing[w].phase)
BY DEF AttemptLeft, Left

LEMMA LeftOfAttemptNext ==
    ASSUME NEW w \in Workers
    PROVE  AttemptLeft(w)' = Left(wk'[w], completing'[w].phase)
BY DEF AttemptLeft, Left

LEMMA MostRoundsNat == MostRounds \in Nat
<1>1. PICK a \in Nat : a = MaxCalls + 1
  OBVIOUS
<1>2. a * MaxSteps \in Nat
  OBVIOUS
<1> QED BY <1>1, <1>2 DEF MostRounds

\* The steps of a round.
LEMMA LeftInRound ==
    ASSUME NEW x, NEW y, NEW p, NEW q, RoundsLeft(x) \in Nat, RoundsLeft(y) = RoundsLeft(x),
           \/ x.pc = "check" /\ y.pc \in {"beat", "cancel"}
           \/ x.pc = "beat" /\ y.pc \in {"tool", "generate"}
           \/ x.pc = "tool" /\ y.pc = "record"
           \/ x.pc = "generate" /\ y.pc = "recordModel"
    PROVE  Left(y, q) < Left(x, p)
BY DEF Left

\* The next round.
LEMMA LeftOfRounds ==
    ASSUME NEW x, NEW y, NEW p, NEW q, RoundsLeft(x) \in Nat, RoundsLeft(y) \in Nat,
           x.pc \in {"record", "recordModel"}, y.pc = "check", RoundsLeft(y) < RoundsLeft(x)
    PROVE  Left(y, q) < Left(x, p)
BY DEF Left

\* From the loop to the end, and from any point out of execute_run.
LEMMA LeftAtEnd ==
    ASSUME NEW x, NEW y, NEW p, NEW q, x.pc \in Pc, x.pc \notin {"reap", "claim"},
           x.pc \in Executing => RoundsLeft(x) \in Nat,
           \/ y.pc \in {"reap", "claim"}
           \/ y.pc = "fail" /\ x.pc \notin {"cancel", "fail"}
           \/ y.pc = "complete" /\ x.pc \in {"load", "recordModel"}
           \/ y.pc = "completing" /\ x.pc = "complete" /\ q = "locked"
           \/ y.pc = "completing" /\ x.pc = "completing" /\ p = "locked" /\ q = "replied"
    PROVE  Left(y, q) < Left(x, p)
BY MostRoundsNat DEF Left, Pc, Executing

\* The steps of execute_run up to the recording of a step.
LEMMA WorkingRunsDown ==
    ASSUME LogInv, LogInv', NEW w \in Workers,
           Load(w) \/ CheckCancel(w) \/ Beat(w) \/ ExecTool(w) \/ Generate(w)
    PROVE  Left(wk'[w], completing'[w].phase) < Left(wk[w], completing[w].phase)
<1>0. /\ wk \in [Workers -> Worker] /\ wk[w].pc \in Pc
      /\ wk[w].pc \in Executing => RoundsLeft(wk[w]) \in Nat
  BY RoundsOfWorker DEF LogInv, WorkersOK, Worker
<1>1. CASE Load(w)
  <2>1. PICK pc, seq, pending, seen :
           /\ wk' = [wk EXCEPT ![w].pc = pc, ![w].seq = seq, ![w].pending = pending, ![w].seen = seen]
           /\ pc \in {"complete", "fail", "check"}
    BY <1>1 DEF Load, LoopPc
  <2>2. wk'[w].pc \in {"complete", "fail", "check"} /\ wk[w].pc = "load"
    BY <1>0, <1>1, <2>1 DEF Load, At, Worker
  <2>3. CASE wk'[w].pc = "check"
    <3>1. /\ wk'[w].run \in Runs
          /\ Follows(steps'[wk'[w].run], wk'[w].seq, wk'[w].pending)
      BY <2>3 DEF LogInv, WorkersOK, Placed, Executing
    <3>2. LogOK(steps'[wk'[w].run])
      BY <3>1 DEF LogInv, LogsOK
    <3>3. RoundsLeft(wk'[w]) \in Nat /\ RoundsLeft(wk'[w]) <= MostRounds
      BY <3>1, <3>2, RoundsFew
    <3> QED BY <2>2, <2>3, <3>3, MostRoundsNat DEF Left
  <2> QED BY <1>0, <2>2, <2>3, LeftAtEnd
<1>2. CASE CheckCancel(w)
  <2>1. /\ wk'[w].seq = wk[w].seq /\ wk'[w].pending = wk[w].pending
        /\ wk[w].pc = "check" /\ wk'[w].pc \in {"beat", "cancel"}
    BY <1>0, <1>2 DEF CheckCancel, At, Goto, Worker
  <2>2. RoundsLeft(wk'[w]) = RoundsLeft(wk[w])
    BY <2>1 DEF RoundsLeft
  <2> QED BY <1>0, <2>1, <2>2, LeftInRound DEF Executing
<1>3. CASE Beat(w)
  <2>1. PICK pc \in {"generate", "tool"} : wk' = [wk EXCEPT ![w].pc = pc, ![w].seen = Closed]
    BY <1>3 DEF Beat
  <2>2. /\ wk'[w].seq = wk[w].seq /\ wk'[w].pending = wk[w].pending
        /\ wk[w].pc = "beat" /\ wk'[w].pc \in {"tool", "generate"}
    BY <1>0, <1>3, <2>1 DEF Beat, At, Worker
  <2>3. RoundsLeft(wk'[w]) = RoundsLeft(wk[w])
    BY <2>2 DEF RoundsLeft
  <2> QED BY <1>0, <2>2, <2>3, LeftInRound DEF Executing
<1>4. ASSUME \E retryable \in BOOLEAN : Fail(w, retryable), wk[w].pc \in {"tool", "generate"}
      PROVE  Left(wk'[w], completing'[w].phase) < Left(wk[w], completing[w].phase)
  <2>1. wk'[w].pc = "fail"
    BY <1>0, <1>4 DEF Fail, Worker
  <2> QED BY <1>0, <1>4, <2>1, LeftAtEnd
<1>5. CASE ExecTool(w)
  <2>1. wk[w].pc = "tool"
    BY <1>5 DEF ExecTool, At
  <2>2. CASE wk' = [wk EXCEPT ![w].pc = "record", ![w].late = CountedLate(w)]
    <3>1. /\ wk'[w].seq = wk[w].seq /\ wk'[w].pending = wk[w].pending /\ wk'[w].pc = "record"
      BY <1>0, <2>2 DEF Worker
    <3>2. RoundsLeft(wk'[w]) = RoundsLeft(wk[w])
      BY <3>1 DEF RoundsLeft
    <3> QED BY <1>0, <2>1, <3>1, <3>2, LeftInRound DEF Executing
  <2> QED BY <1>4, <1>5, <2>1, <2>2 DEF ExecTool
<1>6. CASE Generate(w)
  <2>1. wk[w].pc = "generate"
    BY <1>6 DEF Generate, At
  <2>2. ASSUME NEW turn, wk' = [wk EXCEPT ![w].pc = "recordModel", ![w].turn = turn,
                                          ![w].late = CountedLate(w)]
        PROVE  Left(wk'[w], completing'[w].phase) < Left(wk[w], completing[w].phase)
    <3>1. /\ wk'[w].seq = wk[w].seq /\ wk'[w].pending = wk[w].pending
          /\ wk'[w].pc = "recordModel"
      BY <1>0, <2>2 DEF Worker
    <3>2. RoundsLeft(wk'[w]) = RoundsLeft(wk[w])
      BY <3>1 DEF RoundsLeft
    <3> QED BY <1>0, <2>1, <3>1, <3>2, LeftInRound DEF Executing
  <2> QED BY <1>4, <1>6, <2>1, <2>2 DEF Generate
<1> QED BY <1>1, <1>2, <1>3, <1>5, <1>6

\* Recording the answer of a call, or a turn that began below the limit.
LEMMA RecordingRunsDown ==
    ASSUME LogInv, NEW w \in Workers, RecordTool(w) \/ RecordModel(w)
    PROVE  Left(wk'[w], completing'[w].phase) < Left(wk[w], completing[w].phase)
<1>0. /\ wk \in [Workers -> Worker] /\ wk[w].pc \in Pc
      /\ wk[w].pc \in {"record", "recordModel"}
      /\ wk[w].seq \in Nat /\ RoundsLeft(wk[w]) \in Nat
      /\ IsFiniteSet(wk[w].pending) /\ Cardinality(wk[w].pending) \in 0 .. MaxCalls
      /\ RoundsLeft(wk[w]) = Cardinality(wk[w].pending) + TurnsLeft(wk[w].seq)
  <2>1. wk[w].pc \in {"record", "recordModel"}
    BY DEF RecordTool, RecordModel, At
  <2> QED BY <2>1, RoundsOfWorker, RoundsTyped DEF LogInv, WorkersOK, Worker, Executing
<1>1. ASSUME wk'[w].pc \in {"fail", "complete"}, wk'[w].pc = "complete" => wk[w].pc = "recordModel"
      PROVE  Left(wk'[w], completing'[w].phase) < Left(wk[w], completing[w].phase)
  BY <1>0, <1>1, LeftAtEnd
<1>2. ASSUME wk'[w].pc = "check", wk'[w].seq \in Nat,
             IsFiniteSet(wk'[w].pending), Cardinality(wk'[w].pending) \in 0 .. MaxCalls,
             Cardinality(wk'[w].pending) + TurnsLeft(wk'[w].seq)
               < Cardinality(wk[w].pending) + TurnsLeft(wk[w].seq)
      PROVE  Left(wk'[w], completing'[w].phase) < Left(wk[w], completing[w].phase)
  <2>1. /\ RoundsLeft(wk'[w]) \in Nat
        /\ RoundsLeft(wk'[w]) = Cardinality(wk'[w].pending) + TurnsLeft(wk'[w].seq)
    BY <1>2, RoundsTyped
  <2> QED BY <1>0, <1>2, <2>1, LeftOfRounds
<1>3. ASSUME NEW s, RecordRefused(w, s)
      PROVE  wk'[w].pc = "fail"
  BY <1>0, <1>3 DEF RecordRefused, Fail, Worker
<1>4. CASE RecordTool(w)
  <2>1. wk[w].pc = "record"
    BY <1>4 DEF RecordTool, At
  <2>2. PICK p : p = First(wk[w].pending)
    OBVIOUS
  <2>3. p \in wk[w].pending
    BY <2>1, <2>2, FirstCall DEF LogInv, WorkersOK, Placed
  <2>4. CASE RecordRefused(w, p.seq)
    BY <1>1, <1>3, <2>4
  <2>5. CASE ~RecordRefused(w, p.seq)
    <3>1. PICK pc \in {"fail", "check"} :
             wk' = [wk EXCEPT ![w].pc = pc, ![w].pending = wk[w].pending \ {p},
                              ![w].stray = CountedStray(w)]
      BY <1>4, <2>2, <2>5 DEF RecordTool, LoopPc
    <3>2. wk'[w].pc = pc /\ wk'[w].seq = wk[w].seq /\ wk'[w].pending = wk[w].pending \ {p}
      BY <1>0, <3>1 DEF Worker
    <3>3. /\ IsFiniteSet(wk[w].pending \ {p})
          /\ Cardinality(wk[w].pending \ {p}) = Cardinality(wk[w].pending) - 1
      BY <1>0, <2>3, FS_RemoveElement
    <3>4. Cardinality(wk[w].pending \ {p}) \in 0 .. MaxCalls /\ TurnsLeft(wk[w].seq) \in Nat
      <4>1. Cardinality(wk[w].pending \ {p}) \in Nat
        BY <3>3, FS_CardinalityType
      <4>2. TurnsLeft(wk[w].seq) \in Nat
        BY <1>0, TurnsRunDown
      <4> QED BY <1>0, <3>3, <4>1, <4>2
    <3> QED BY <1>0, <1>1, <1>2, <3>2, <3>3, <3>4
  <2> QED BY <2>4, <2>5
<1>5. CASE RecordModel(w)
  <2>1. /\ wk[w].pc = "recordModel" /\ wk[w].pending = {} /\ wk[w].seq < MaxSteps
        /\ wk[w].turn \in Turns
    BY <1>5 DEF RecordModel, At, LogInv, WorkersOK, Placed, Worker
  <2>2. CASE RecordRefused(w, wk[w].seq + 1)
    BY <1>1, <1>3, <2>2
  <2>3. CASE ~RecordRefused(w, wk[w].seq + 1)
    <3>1. PICK turn \in Turns : turn = wk[w].turn
      BY <2>1
    <3>2. PICK s \in Nat, n \in Nat : s = wk[w].seq + 1 /\ n = s + Len(turn)
      BY <1>0, TurnLength
    <3>3. PICK asked : asked = Numbered(s, turn)
      OBVIOUS
    <3>4. PICK pc \in {"complete", "check"} :
             wk' = [wk EXCEPT ![w].pc = pc, ![w].seq = n, ![w].pending = asked,
                              ![w].turn = <<>>, ![w].stray = CountedStray(w)]
      <4>1. (IF turn = <<>> THEN "complete" ELSE "check") \in {"complete", "check"}
        OBVIOUS
      <4>2. wk' = [wk EXCEPT ![w].pc = IF turn = <<>> THEN "complete" ELSE "check",
                             ![w].seq = n, ![w].pending = asked,
                             ![w].turn = <<>>, ![w].stray = CountedStray(w)]
        BY <1>5, <2>3, <3>1, <3>2, <3>3, Zenon DEF RecordModel
      <4> QED BY <4>1, <4>2
    <3>5. wk'[w].pc = pc /\ wk'[w].seq = n /\ wk'[w].pending = asked
      BY <1>0, <3>4 DEF Worker
    <3>6. IsFiniteSet(asked) /\ Cardinality(asked) \in 0 .. MaxCalls
      BY <3>3, FewCalls
    <3>7. /\ TurnsLeft(n) \in Nat /\ TurnsLeft(wk[w].seq) \in Nat
          /\ TurnsLeft(n) + MaxCalls + 1 <= TurnsLeft(wk[w].seq)
      <4>1. wk[w].seq < n /\ wk[w].seq <= n
        BY <1>0, <3>2, TurnLength
      <4> QED BY <1>0, <2>1, <4>1, TurnsRunDown
    <3>8. Cardinality(wk[w].pending) = 0
      BY <2>1, FS_EmptySet
    <3> QED BY <1>1, <1>2, <2>1, <3>5, <3>6, <3>7, <3>8
  <2> QED BY <2>2, <2>3
<1> QED BY <1>4, <1>5

\* The end of an attempt, wherever the process dies.
LEMMA EndingRunsDown ==
    ASSUME TypeOK, LogInv, NEW w \in Workers, WorkerOK(w), wk[w].pc \notin {"reap", "claim"},
           \/ Cancel(w) \/ LeaseLost(w) \/ BeginComplete(w) \/ PostReply(w) \/ ReplyRefused(w)
           \/ FinishComplete(w) \/ EndAttempt(w) \/ Die(w)
    PROVE  Left(wk'[w], completing'[w].phase) < Left(wk[w], completing[w].phase)
<1>0. /\ wk \in [Workers -> Worker] /\ wk[w].pc \in Pc
      /\ wk[w].pc \in Executing => RoundsLeft(wk[w]) \in Nat
      /\ completing \in [Workers -> Completing]
  BY RoundsOfWorker DEF LogInv, WorkersOK, Worker, TypeOK
<1>1. CASE GiveUp(w)
  <2>1. wk'[w].pc = "reap"
    BY <1>0, <1>1 DEF GiveUp, Polling
  <2> QED BY <1>0, <2>1, LeftAtEnd
<1>2. CASE BeginComplete(w)
  <2>1. wk[w].pc = "complete" /\ wk'[w].pc = "completing" /\ completing'[w].phase = "locked"
    BY <1>0, <1>2 DEF BeginComplete, At, CompleteBegin, Worker
  <2> QED BY <1>0, <2>1, LeftAtEnd
<1>3. CASE PostReply(w)
  <2>1. /\ wk[w].pc = "completing" /\ wk'[w].pc = "completing"
        /\ completing[w].phase = "locked" /\ completing'[w].phase = "replied"
    BY <1>0, <1>3 DEF PostReply, At, CompleteReply, Completing
  <2> QED BY <1>0, <2>1, LeftAtEnd
<1>4. CASE ReplyRefused(w)
  <2>1. wk[w].pc = "completing" /\ wk'[w].pc = "fail"
    BY <1>0, <1>4 DEF ReplyRefused, At, Fail, Worker
  <2> QED BY <1>0, <2>1, LeftAtEnd
<1> QED BY <1>1, <1>2, <1>3, <1>4 DEF Cancel, LeaseLost, FinishComplete, EndAttempt, Die

(***************************************************************************)
(* Every step of an attempt brings it nearer to its end, so it has an end: *)
(* seq counts the calls with the turns, and grows with every turn up to    *)
(* the step limit.                                                         *)
(***************************************************************************)
THEOREM AttemptsEnd == RunnerSpec => AttemptsRunDown
<1> DEFINE Nearer == \A w \in Workers : wk[w].pc \notin {"reap", "claim"} =>
                         \/ wk'[w] = wk[w] /\ completing'[w] = completing[w]
                         \/ AttemptLeft(w)' < AttemptLeft(w)
<1>1. TypeOK /\ LogInv /\ LogInv' /\ LeaseInv /\ [RunnerNext]_runnerVars => [Nearer]_runnerVars
  <2> SUFFICES ASSUME TypeOK, LogInv, LogInv', LeaseInv, RunnerNext,
                      NEW w \in Workers, wk[w].pc \notin {"reap", "claim"}
               PROVE  \/ wk'[w] = wk[w] /\ completing'[w] = completing[w]
                      \/ AttemptLeft(w)' < AttemptLeft(w)
    OBVIOUS
  <2>1. ASSUME NEW v \in Workers, WorkerStep(v) \/ Die(v) \/ Revive(v), v # w
        PROVE  wk'[w] = wk[w] /\ completing'[w] = completing[w]
    BY <2>1, OthersStay
  <2>2. CASE Revive(w)
    <3>1. completing[w].phase = "crashed"
      BY <2>2 DEF Revive, Restart
    <3> QED BY <3>1 DEF LeaseInv, WorkerOK, HandsOK
  <2>3. CASE WorkerStep(w) \/ Die(w)
    <3>1. ~Reap(w) /\ ~Claim(w) /\ ~ClaimNone(w) /\ WorkerOK(w)
      BY DEF Reap, Claim, ClaimNone, At, LeaseInv
    <3>2. Left(wk'[w], completing'[w].phase) < Left(wk[w], completing[w].phase)
      BY <2>3, <3>1, WorkingRunsDown, RecordingRunsDown, EndingRunsDown DEF WorkerStep
    <3> QED BY <3>2, LeftOfAttempt, LeftOfAttemptNext
  <2>4. CASE ClientStep \/ ClockStep
    BY <2>4 DEF ClientStep, ClockStep, ClientNext, Tick, EnqueueBegin, EnqueueMessage,
                EnqueueRun, EnqueueAbort, RequestCancelRead, RequestCancelWrite
  <2> QED BY <2>1, <2>2, <2>3, <2>4 DEF RunnerNext
<1> QED BY <1>1, WorkersCorrect, PTL DEF RunnerSpec, AttemptsRunDown

\* And it has no more steps than the limits allow, wherever in the log it begins.
THEOREM AttemptsAreShort ==
    RunnerSpec => [](\A w \in Workers : AttemptLeft(w) <= 4 * MostRounds + 9)
<1> DEFINE Short == \A w \in Workers : AttemptLeft(w) <= 4 * MostRounds + 9
<1>1. LogInv => Short
  <2> SUFFICES ASSUME LogInv, NEW w \in Workers
               PROVE  Left(wk[w], completing[w].phase) <= 4 * MostRounds + 9
    BY LeftOfAttempt
  <2>1. wk[w].pc \in Executing => RoundsLeft(wk[w]) \in Nat /\ RoundsLeft(wk[w]) <= MostRounds
    BY RoundsOfWorker
  <2> QED BY <2>1, MostRoundsNat DEF Left, Executing
<1> QED BY <1>1, LogCorrect, PTL

-----------------------------------------------------------------------------
(* What the queue promises, of the running system.                         *)

(***************************************************************************)
(* Workers, clients and clocks together behave as the abstract queue:      *)
(* every refinement below carries over.                                    *)
(***************************************************************************)
THEOREM RunnerImplementsJobQueue == RunnerSpec => ImplementsJobQueue
BY RunnerImplementsRunStore, StoreImplementsJobQueue DEF ImplementsRunStore

\* With the bound of the queue, max_attempts bounds what a run costs: no call is
\* executed more often, and no more replies are posted.
THEOREM AttemptsBoundEffects ==
    RunnerSpec => [](\A r \in Runs : /\ Cardinality(Replies(r)) <= MaxAttempts
                                     /\ \A s \in Slots : Len(executed[r][s]) <= MaxAttempts)
<1> DEFINE Bounded == \A r \in Runs : /\ Cardinality(Replies(r)) <= MaxAttempts
                                      /\ \A s \in Slots : Len(executed[r][s]) <= MaxAttempts
<1>1. RunnerSpec => StoreSpec
  BY RunnerImplementsRunStore DEF ImplementsRunStore
<1>2. TypeOK /\ QueueInv /\ LogInv /\ ExecutionsBounded /\ RepliesBoundedByAttempts => Bounded
  <2> SUFFICES ASSUME TypeOK, QueueInv, LogInv, ExecutionsBounded, RepliesBoundedByAttempts,
                      NEW r \in Runs
               PROVE  /\ Cardinality(Replies(r)) <= MaxAttempts
                      /\ \A s \in Slots : Len(executed[r][s]) <= MaxAttempts
    OBVIOUS
  <2>1. run[r].attempts \in Nat /\ run[r].attempts <= MaxAttempts /\ MaxAttempts \in Nat
    BY AttemptsAssumption DEF QueueInv, RowOK, TypeOK, RunRow
  <2>2. Cardinality(Replies(r)) <= run[r].attempts /\ Cardinality(Replies(r)) \in Nat
    BY RepliesFinite DEF RepliesBoundedByAttempts
  <2>3. \A s \in Slots : Len(executed[r][s]) <= run[r].attempts /\ Len(executed[r][s]) \in Nat
    BY ExecutedTyped DEF ExecutionsBounded
  <2> QED BY <2>1, <2>2, <2>3
<1> QED BY <1>1, <1>2, QueueCorrect, LogCorrect, ExecutionsAreBounded, RepliesAreBounded, PTL
=============================================================================
