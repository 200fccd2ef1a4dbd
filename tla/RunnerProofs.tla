---------------------------- MODULE RunnerProofs ----------------------------
(***************************************************************************)
(* Theorems about workers executing runs, for any number of runs, workers  *)
(* and threads, any tool calls, and any limits.                            *)
(*                                                                         *)
(* First, Runner implements RunStore: the workers of worker.py and         *)
(* runner.py, the clients and the clock use the queue as RunStore allows.  *)
(* The only thing to know of a worker for it is that past its claim it has *)
(* a run.                                                                  *)
(*                                                                         *)
(* Then, the step log: a worker at each program counter follows the log of *)
(* its run (StepLogProofs), which other workers may be writing too.        *)
(***************************************************************************)
EXTENDS RunStoreProofs, StepLogProofs

USE ThreadsAssumption, NullAssumption, AttemptsAssumption, TimesAssumption, StepsAssumption

-----------------------------------------------------------------------------

Fields == {"pc", "run", "seq", "pending", "turn", "seen", "retryable", "stray", "late"}

\* Every worker's state has the fields of Worker, whatever they hold.
Shaped == /\ wk = [w \in Workers |-> wk[w]]
          /\ \A w \in Workers : wk[w] = [f \in Fields |-> wk[w][f]]

HasRun(w) == wk[w].pc \notin {"reap", "claim"} => wk[w].run \in Runs

RunsKnown == Shaped /\ \A w \in Workers : HasRun(w)

LEMMA RunsKnownInit == RunnerInit => RunsKnown
<1> SUFFICES ASSUME RunnerInit PROVE RunsKnown
  OBVIOUS
<1>1. wk = [w \in Workers |-> Polling]
  BY DEF RunnerInit
<1>2. Polling = [f \in Fields |-> Polling[f]] /\ Polling.pc = "reap"
  BY DEF Polling, Fields
<1> QED BY <1>1, <1>2 DEF RunsKnown, Shaped, HasRun

\* A worker whose state is replaced.
LEMMA WorkerMoves ==
    ASSUME RunsKnown, NEW w \in Workers, NEW x, wk' = [wk EXCEPT ![w] = x],
           x = [f \in Fields |-> x[f]], x.pc \notin {"reap", "claim"} => x.run \in Runs
    PROVE  RunsKnown'
BY DEF RunsKnown, Shaped, HasRun

LEMMA GiveUpMoves ==
    ASSUME RunsKnown, NEW w \in Workers, GiveUp(w)
    PROVE  RunsKnown'
<1>1. Polling = [f \in Fields |-> Polling[f]] /\ Polling.pc = "reap"
  BY DEF Polling, Fields
<1> QED BY <1>1, WorkerMoves DEF GiveUp

LEMMA RunsKnownNext ==
    ASSUME RunsKnown, [RunnerNext]_runnerVars
    PROVE  RunsKnown'
<1>1. ASSUME NEW w \in Workers, WorkerStep(w) PROVE RunsKnown'
  <2>0. ASSUME wk[w].pc \notin {"reap", "claim"}, NEW retryable, Fail(w, retryable) PROVE RunsKnown'
    BY <2>0 DEF Fail, RunsKnown, Shaped, HasRun, Fields
  <2>1. CASE Reap(w)
    BY <2>1 DEF Reap, Goto, At, RunsKnown, Shaped, HasRun, Fields
  <2>2. CASE Claim(w)
    BY <2>2 DEF Claim, RunsKnown, Shaped, HasRun, Fields
  <2>3. CASE ClaimNone(w) \/ Cancel(w) \/ LeaseLost(w) \/ FinishComplete(w) \/ EndAttempt(w)
    BY <2>3, GiveUpMoves DEF ClaimNone, Cancel, LeaseLost, FinishComplete, EndAttempt
  <2>4. CASE PostReply(w)
    BY <2>4 DEF PostReply, RunsKnown, Shaped, HasRun
  <2>5. CASE Load(w)
    <3>1. PICK pc, seq, pending, seen :
             wk' = [wk EXCEPT ![w].pc = pc, ![w].seq = seq, ![w].pending = pending, ![w].seen = seen]
      BY <2>5 DEF Load
    <3>2. wk[w].pc = "load"
      BY <2>5 DEF Load, At
    <3> QED BY <3>1, <3>2 DEF RunsKnown, Shaped, HasRun, Fields
  <2>6. CASE CheckCancel(w)
    BY <2>6 DEF CheckCancel, Goto, At, RunsKnown, Shaped, HasRun, Fields
  <2>7. CASE Beat(w)
    BY <2>7 DEF Beat, At, RunsKnown, Shaped, HasRun, Fields
  <2>8. CASE ExecTool(w)
    <3>1. \/ wk' = [wk EXCEPT ![w].pc = "record", ![w].late = CountedLate(w)]
          \/ \E retryable : Fail(w, retryable)
      BY <2>8 DEF ExecTool
    <3>2. wk[w].pc = "tool"
      BY <2>8 DEF ExecTool, At
    <3>3. CASE wk' = [wk EXCEPT ![w].pc = "record", ![w].late = CountedLate(w)]
      BY <3>2, <3>3 DEF RunsKnown, Shaped, HasRun, Fields
    <3> QED BY <2>0, <3>1, <3>2, <3>3
  <2>9. CASE Generate(w)
    <3>1. PICK turn, late, retryable :
             \/ wk' = [wk EXCEPT ![w].pc = "recordModel", ![w].turn = turn, ![w].late = late]
             \/ Fail(w, retryable)
      BY <2>9 DEF Generate
    <3>2. wk[w].pc = "generate"
      BY <2>9 DEF Generate, At
    <3>3. CASE wk' = [wk EXCEPT ![w].pc = "recordModel", ![w].turn = turn, ![w].late = late]
      BY <3>2, <3>3 DEF RunsKnown, Shaped, HasRun, Fields
    <3> QED BY <2>0, <3>1, <3>2, <3>3
  <2>10. CASE RecordTool(w)
    <3>1. PICK pc, rest, stray :
             \/ wk' = [wk EXCEPT ![w].pc = pc, ![w].pending = rest, ![w].stray = stray]
             \/ Fail(w, FALSE)
      BY <2>10 DEF RecordTool, RecordRefused
    <3>2. wk[w].pc = "record"
      BY <2>10 DEF RecordTool, At
    <3>3. CASE wk' = [wk EXCEPT ![w].pc = pc, ![w].pending = rest, ![w].stray = stray]
      BY <3>2, <3>3 DEF RunsKnown, Shaped, HasRun, Fields
    <3> QED BY <2>0, <3>1, <3>2, <3>3
  <2>11. CASE RecordModel(w)
    <3>0. wk[w].pc = "recordModel"
      BY <2>11 DEF RecordModel, At
    <3>1. CASE Fail(w, FALSE)
      BY <2>0, <3>0, <3>1
    <3>2. CASE ~Fail(w, FALSE)
      <4> DEFINE s == wk[w].seq + 1
                 turn == wk[w].turn
                 pc == IF turn = <<>> THEN "complete" ELSE "check"
                 seq == s + Len(turn)
                 pending == Numbered(s, turn)
                 stray == CountedStray(w)
      <4>1. wk' = [wk EXCEPT ![w].pc = pc, ![w].seq = seq, ![w].pending = pending,
                             ![w].turn = <<>>, ![w].stray = stray]
        BY <2>11, <3>2, Zenon DEF RecordModel, RecordRefused
      <4> HIDE DEF s, turn, pc, seq, pending, stray
      <4> QED BY <3>0, <4>1 DEF RunsKnown, Shaped, HasRun, Fields
    <3> QED BY <3>1, <3>2
  <2>12. CASE BeginComplete(w)
    BY <2>12 DEF BeginComplete, At, RunsKnown, Shaped, HasRun, Fields
  <2>13. CASE ReplyRefused(w)
    BY <2>13 DEF ReplyRefused, Fail, At, RunsKnown, Shaped, HasRun, Fields
  <2> QED
    BY <1>1, <2>1, <2>2, <2>3, <2>4, <2>5, <2>6, <2>7, <2>8, <2>9, <2>10, <2>11, <2>12, <2>13
       DEF WorkerStep
<1>2. ASSUME NEW w \in Workers, Die(w) PROVE RunsKnown'
  BY <1>2, GiveUpMoves DEF Die
<1>3. CASE wk' = wk
  BY <1>3 DEF RunsKnown, Shaped, HasRun
<1> QED
  BY <1>1, <1>2, <1>3 DEF RunnerNext, Revive, ClientStep, ClockStep, runnerVars

-----------------------------------------------------------------------------

\* One step of Runner is one of RunStore, or changes only the workers and the log.
LEMMA StepImplementsStore ==
    ASSUME RunsKnown, [RunnerNext]_runnerVars
    PROVE  [StoreNext]_storeVars
<1>1. ASSUME NEW w \in Workers, WorkerStep(w) PROVE [StoreNext]_storeVars
  <2>0. wk[w].pc \notin {"reap", "claim"} => wk[w].run \in Runs
    BY DEF RunsKnown, HasRun
  <2>1. CASE Reap(w)
    BY <2>1 DEF Reap, StoreNext
  <2>2. CASE Claim(w)
    BY <2>2 DEF Claim, StoreNext, LeaseNext
  <2>3. CASE Cancel(w)
    BY <2>0, <2>3 DEF Cancel, At, StoreNext, LeaseNext
  <2>4. CASE Beat(w)
    BY <2>0, <2>4 DEF Beat, At, StoreNext, LeaseNext
  <2>5. CASE BeginComplete(w)
    <3>1. PICK n \in {1, NextSeq(ThreadOf[wk[w].run])} : CompleteBegin(w, wk[w].run, n)
      BY <2>5 DEF BeginComplete
    <3> QED BY <2>0, <2>5, <3>1 DEF BeginComplete, At, StoreNext, LeaseNext
  <2>6. CASE PostReply(w) \/ ReplyRefused(w) \/ FinishComplete(w)
    BY <2>6 DEF PostReply, ReplyRefused, FinishComplete, StoreNext, WorkerNext
  <2>7. CASE EndAttempt(w)
    <3>1. PICK retryable \in BOOLEAN : FailAttempt(w, wk[w].run, retryable)
      <4>1. CASE wk[w].retryable
        <5>1. FailAttempt(w, wk[w].run, TRUE)
          BY <2>7, <4>1 DEF EndAttempt, FailAttempt
        <5> QED BY <5>1
      <4>2. CASE ~wk[w].retryable
        <5>1. FailAttempt(w, wk[w].run, FALSE)
          BY <2>7, <4>2 DEF EndAttempt, FailAttempt
        <5> QED BY <5>1
      <4> QED BY <4>1, <4>2
    <3> QED BY <2>0, <2>7, <3>1 DEF EndAttempt, At, StoreNext, LeaseNext
  <2>8. CASE UNCHANGED storeVars
    BY <2>8
  <2> QED
    BY <1>1, <2>1, <2>2, <2>3, <2>4, <2>5, <2>6, <2>7, <2>8
       DEF WorkerStep, ClaimNone, Load, CheckCancel, LeaseLost, ExecTool, RecordTool, RecordRefused,
           Generate, RecordModel, StoreUnchanged
<1>2. ASSUME NEW w \in Workers, Die(w) PROVE [StoreNext]_storeVars
  BY <1>2 DEF Die, StoreUnchanged, StoreNext, WorkerNext
<1>3. ASSUME NEW w \in Workers, Revive(w) PROVE [StoreNext]_storeVars
  BY <1>3 DEF Revive, StoreNext, WorkerNext
<1>4. CASE ClientStep \/ ClockStep
  BY <1>4 DEF ClientStep, ClockStep, StoreNext
<1>5. CASE UNCHANGED runnerVars
  BY <1>5 DEF runnerVars, storeVars
<1> QED BY <1>1, <1>2, <1>3, <1>4, <1>5 DEF RunnerNext

(***************************************************************************)
(* Whatever turns models make, workers call the queue only as RunStore     *)
(* says: its theorems hold of the running system.                          *)
(***************************************************************************)
THEOREM RunnerImplementsRunStore == RunnerSpec => ImplementsRunStore
<1>1. RunnerInit => StoreInit
  BY DEF RunnerInit
<1>2. RunnerSpec => []RunsKnown
  BY RunsKnownInit, RunsKnownNext, PTL DEF RunnerSpec
<1>3. RunsKnown /\ [RunnerNext]_runnerVars => [StoreNext]_storeVars
  BY StepImplementsStore
<1> QED BY <1>1, <1>2, <1>3, PTL DEF RunnerSpec, ImplementsRunStore, StoreSpec

-----------------------------------------------------------------------------
(* The step log.                                                           *)

LogsOK == /\ steps \in [Runs -> Log]
          /\ \A r \in Runs : LogOK(steps[r])

\* A worker in the state x.
Placed(x) ==
    /\ x.pc \notin {"reap", "claim"} => x.run \in Runs
    /\ x.pc \in Executing => Follows(steps[x.run], x.seq, x.pending)
    /\ x.pc \in {"check", "cancel", "beat"} => x.pending # {} \/ x.seq < MaxSteps
    /\ x.pc \in {"tool", "record"} => x.pending # {}
    /\ x.pc \in {"generate", "recordModel"} => x.pending = {} /\ x.seq < MaxSteps
    /\ x.pc \in {"complete", "completing"} => HasAnswer(steps[x.run])

WorkersOK == /\ wk \in [Workers -> Worker]
             /\ \A w \in Workers : Placed(wk[w])

ExecutedOK == /\ executed \in [Runs -> [Slots -> Seq(Calls)]]
              /\ \A r \in Runs, s \in Slots : \A i \in DOMAIN executed[r][s] :
                    Asked(steps[r], s, executed[r][s][i])

LogInv == LogsOK /\ WorkersOK /\ ExecutedOK

\* No row of a log is changed or taken back.
LogsGrow == \A r \in Runs : Longer(steps[r], steps'[r])

LEMMA PlacedStays ==
    ASSUME LogsOK, LogsGrow, NEW x, Placed(x)
    PROVE  Placed(x)'
<1>1. CASE x.run \in Runs
  <2>1. LogOK(steps[x.run]) /\ Longer(steps[x.run], steps'[x.run])
    BY <1>1 DEF LogsOK, LogsGrow
  <2>2. x.pc \in Executing => Follows(steps'[x.run], x.seq, x.pending)
    BY <2>1, FollowsStays DEF Placed
  <2>3. x.pc \in {"complete", "completing"} => HasAnswer(steps'[x.run])
    BY <2>1, AnswerStays DEF Placed
  <2> QED BY <1>1, <2>2, <2>3 DEF Placed
<1>2. CASE x.run \notin Runs
  BY <1>2 DEF Placed, Executing
<1> QED BY <1>1, <1>2

LEMMA ExecutedStays ==
    ASSUME LogInv, LogsGrow, UNCHANGED executed
    PROVE  ExecutedOK'
<1> SUFFICES ASSUME NEW r \in Runs, NEW s \in Slots, NEW i \in DOMAIN executed[r][s]
             PROVE  Asked(steps'[r], s, executed[r][s][i])
  BY DEF LogInv, ExecutedOK
<1>1. Asked(steps[r], s, executed[r][s][i])
  BY DEF LogInv, ExecutedOK
<1> QED BY <1>1, AskedStays DEF LogsGrow

LEMMA SameLogs ==
    ASSUME LogsOK, UNCHANGED steps
    PROVE  LogsGrow /\ LogsOK'
BY DEF LogsOK, LogsGrow, LogOK, Longer

\* A worker goes on in the state x.
LEMMA WorkerGoesOn ==
    ASSUME LogInv, NEW w \in Workers, NEW x \in Worker, wk' = [wk EXCEPT ![w] = x],
           LogsOK', LogsGrow, ExecutedOK', Placed(x)'
    PROVE  LogInv'
<1>1. wk' \in [Workers -> Worker]
  BY DEF LogInv, WorkersOK
<1>2. ASSUME NEW v \in Workers PROVE Placed(wk[v])'
  <2>1. CASE v = w
    BY <2>1 DEF LogInv, WorkersOK
  <2>2. CASE v # w
    <3>1. wk'[v] = wk[v] /\ Placed(wk[v])
      BY <2>2 DEF LogInv, WorkersOK
    <3>2. PICK y : y = wk[v]
      OBVIOUS
    <3>3. Placed(y)'
      BY <3>1, <3>2, PlacedStays DEF LogInv
    <3> QED BY <3>1, <3>2, <3>3
  <2> QED BY <2>1, <2>2
<1> QED BY <1>1, <1>2 DEF LogInv, WorkersOK

LEMMA ExecutedSame ==
    ASSUME LogInv, UNCHANGED <<steps, executed>>
    PROVE  ExecutedOK'
BY SameLogs, ExecutedStays DEF LogInv

\* and has recorded nothing.
LEMMA WorkerMovesOn ==
    ASSUME LogInv, NEW w \in Workers, NEW x \in Worker, wk' = [wk EXCEPT ![w] = x],
           UNCHANGED steps, ExecutedOK', Placed(x)
    PROVE  LogInv'
<1>1. LogsGrow /\ LogsOK'
  BY SameLogs DEF LogInv
<1>2. Placed(x)'
  BY <1>1, PlacedStays DEF LogInv
<1> QED BY <1>1, <1>2, WorkerGoesOn

-----------------------------------------------------------------------------
(* What each action does to a worker's state and the log.                  *)

LEMMA PollingTyped == Polling \in Worker /\ Placed(Polling)
<1>1. <<>> \in Turns
  <2>1. <<>> \in [1 .. 0 -> Calls] /\ 0 \in 0 .. MaxCalls
    OBVIOUS
  <2> QED BY <2>1 DEF Turns
<1>2. Closed \in Seen
  BY DEF Closed, Seen
<1>3. Polling \in Worker
  BY <1>1, <1>2 DEF Polling, Worker, Pc
<1>4. Polling.pc = "reap"
  BY DEF Polling
<1> QED BY <1>3, <1>4 DEF Placed, Executing

LEMMA LogGiveUp ==
    ASSUME LogInv, NEW w \in Workers, GiveUp(w), LogUnchanged
    PROVE  LogInv'
BY PollingTyped, ExecutedSame, WorkerMovesOn DEF GiveUp, LogUnchanged

LEMMA LogFail ==
    ASSUME LogInv, NEW w \in Workers, NEW retryable \in BOOLEAN, Fail(w, retryable),
           wk[w].pc \notin {"reap", "claim"}, UNCHANGED steps, ExecutedOK'
    PROVE  LogInv'
<1>1. PICK me \in Worker : me = wk[w] /\ Placed(me)
  BY DEF LogInv, WorkersOK
<1>2. PICK x : x = [me EXCEPT !.pc = "fail", !.retryable = retryable]
  OBVIOUS
<1>3. x \in Worker /\ x.pc = "fail" /\ x.run = me.run
  BY <1>2 DEF Worker, Pc
<1>4. wk' = [wk EXCEPT ![w] = x]
  BY <1>1, <1>2, Zenon DEF Fail
<1>5. Placed(x)
  BY <1>1, <1>3 DEF Placed, Executing
<1> QED BY <1>3, <1>4, <1>5, WorkerMovesOn

\* A worker goes from one program counter to another that needs no more.
LEMMA LogGoto ==
    ASSUME LogInv, NEW w \in Workers, NEW pc \in Pc, Goto(w, pc), LogUnchanged,
           \/ pc = "claim"
           \/ wk[w].pc \in {"check", "cancel", "beat"} /\ pc \in {"cancel", "beat"}
    PROVE  LogInv'
<1>1. PICK me \in Worker : me = wk[w] /\ Placed(me)
  BY DEF LogInv, WorkersOK
<1>2. PICK x : x = [me EXCEPT !.pc = pc]
  OBVIOUS
<1>3. /\ x \in Worker /\ x.pc = pc
      /\ x.run = me.run /\ x.seq = me.seq /\ x.pending = me.pending
  BY <1>2 DEF Worker
<1>4. wk' = [wk EXCEPT ![w] = x]
  BY <1>1, <1>2, Zenon DEF Goto
<1>5. Placed(x)
  BY <1>1, <1>3 DEF Placed, Executing
<1> QED BY <1>3, <1>4, <1>5, ExecutedSame, WorkerMovesOn DEF LogUnchanged

LEMMA LogClaim ==
    ASSUME LogInv, NEW w \in Workers, Claim(w)
    PROVE  LogInv'
<1>1. PICK me \in Worker : me = wk[w] /\ Placed(me)
  BY DEF LogInv, WorkersOK
<1>2. PICK r \in Runs : wk' = [wk EXCEPT ![w].pc = "load", ![w].run = r]
  BY DEF Claim
<1>3. PICK x : x = [me EXCEPT !.pc = "load", !.run = r]
  OBVIOUS
<1>4. x \in Worker /\ x.pc = "load" /\ x.run = r
  BY <1>3 DEF Worker, Pc
<1>5. wk' = [wk EXCEPT ![w] = x]
  BY <1>1, <1>2, <1>3, Zenon
<1>6. Placed(x)
  BY <1>4 DEF Placed, Executing
<1> QED BY <1>4, <1>5, <1>6, ExecutedSame, WorkerMovesOn DEF LogUnchanged, Claim

LEMMA LogLoad ==
    ASSUME TypeOK, LogInv, NEW w \in Workers, Load(w)
    PROVE  LogInv'
<1>1. PICK me \in Worker : me = wk[w] /\ Placed(me)
  BY DEF LogInv, WorkersOK
<1>2. me.pc = "load" /\ me.run \in Runs
  BY <1>1 DEF Load, At, Placed
<1>3. PICK r \in Runs : r = me.run
  BY <1>2
<1>4. LogOK(steps[r])
  BY DEF LogInv, LogsOK
<1>5. PICK known : known = Rebuilt(steps[r])
  OBVIOUS
<1>6. known.seq \in {0} \cup Slots /\ known.pending \in SUBSET Pending
  <2>1. KnownAt(steps[r], Last, known)
    BY <1>4, <1>5, RebuiltKnows
  <2> QED BY <2>1 DEF KnownAt
<1>7. PICK seen : seen = [open |-> TRUE, cancel |-> run[r].cancel_requested,
                          next |-> NextSeq(ThreadOf[r])]
  OBVIOUS
<1>8. seen \in Seen
  BY <1>7 DEF Seen, TypeOK, RunRow, NextSeq
<1>9. PICK pc : pc = IF HasAnswer(steps[r]) THEN "complete"
                     ELSE LoopPc(known.pending, known.seq)
  OBVIOUS
<1>10. PICK x : x = [me EXCEPT !.pc = pc, !.seq = known.seq, !.pending = known.pending,
                               !.seen = seen]
  OBVIOUS
<1>11. wk' = [wk EXCEPT ![w] = x]
  <2>1. wk' = [wk EXCEPT ![w].pc = pc, ![w].seq = known.seq, ![w].pending = known.pending,
                         ![w].seen = seen]
    BY <1>1, <1>3, <1>5, <1>7, <1>9, Zenon DEF Load
  <2> QED BY <1>1, <1>10, <2>1, Zenon
<1>12. pc \in {"complete", "fail", "check"}
  BY <1>9 DEF LoopPc
<1>13. /\ x \in Worker /\ x.pc = pc
       /\ x.run = r /\ x.seq = known.seq /\ x.pending = known.pending
  BY <1>3, <1>6, <1>8, <1>10, <1>12 DEF Worker, Pc
<1>14. ~HasAnswer(steps[r]) => Follows(steps[r], known.seq, known.pending)
  BY <1>4, <1>5, RebuiltFollows
<1>15. pc = "check" => /\ ~HasAnswer(steps[r])
                       /\ known.pending # {} \/ known.seq < MaxSteps
  BY <1>6, <1>9 DEF LoopPc, Slots
<1>16. pc = "complete" => HasAnswer(steps[r])
  BY <1>9 DEF LoopPc
<1>17. Placed(x)
  BY <1>12, <1>13, <1>14, <1>15, <1>16 DEF Placed, Executing
<1> QED BY <1>11, <1>13, <1>17, ExecutedSame, WorkerMovesOn DEF Load, LogUnchanged

LEMMA LogBeat ==
    ASSUME LogInv, NEW w \in Workers, Beat(w)
    PROVE  LogInv'
<1>1. PICK me \in Worker : me = wk[w] /\ Placed(me)
  BY DEF LogInv, WorkersOK
<1>2. PICK pc : pc = IF me.pending = {} THEN "generate" ELSE "tool"
  OBVIOUS
<1>3. PICK x : x = [me EXCEPT !.pc = pc, !.seen = Closed]
  OBVIOUS
<1>4. wk' = [wk EXCEPT ![w] = x]
  BY <1>1, <1>2, <1>3, Zenon DEF Beat
<1>5. /\ x \in Worker /\ x.pc = pc
      /\ x.run = me.run /\ x.seq = me.seq /\ x.pending = me.pending
  BY <1>2, <1>3 DEF Worker, Pc, Closed, Seen
<1>6. me.pc = "beat"
  BY <1>1 DEF Beat, At
<1>7. Placed(x)
  BY <1>1, <1>2, <1>5, <1>6 DEF Placed, Executing
<1> QED BY <1>4, <1>5, <1>7, ExecutedSame, WorkerMovesOn DEF Beat, LogUnchanged

\* The first of the calls a worker has to answer.
LEMMA FirstCall ==
    ASSUME LogInv, NEW me \in Worker, Placed(me), me.run \in Runs, me.pc \in {"tool", "record"}
    PROVE  /\ Follows(steps[me.run], me.seq, me.pending)
           /\ First(me.pending) \in me.pending /\ First(me.pending) \in Pending
           /\ Asked(steps[me.run], First(me.pending).seq, First(me.pending).call)
<1>1. LogOK(steps[me.run])
  BY DEF LogInv, LogsOK
<1>2. me.pending \in SUBSET Pending /\ me.pending # {}
  BY DEF Worker, Placed
<1>3. Follows(steps[me.run], me.seq, me.pending)
  BY DEF Placed, Executing
<1>4. PICK p \in Pending : p = First(me.pending) /\ p \in me.pending
  BY <1>2, FirstIsLeast
<1>5. PICK m \in Slots : FollowsTurn(steps[me.run], me.seq, me.pending, m)
  BY <1>2, <1>3 DEF Follows
<1>6. steps[me.run][m].kind = "model" /\ p \in Numbered(m, steps[me.run][m].calls)
  BY <1>4, <1>5 DEF FollowsTurn, Demands
<1>7. m < p.seq /\ p.seq <= m + Len(steps[me.run][m].calls)
      /\ p.call = steps[me.run][m].calls[p.seq - m]
  BY <1>1, <1>6, DemandedSlots
<1>8. Asked(steps[me.run], p.seq, p.call)
  BY <1>5, <1>7 DEF Asked, FollowsTurn
<1> QED BY <1>3, <1>4, <1>8

LEMMA CountsNat ==
    ASSUME NEW w \in Workers, wk[w].late \in Nat, wk[w].stray \in Nat
    PROVE  CountedLate(w) \in Nat /\ CountedStray(w) \in Nat
BY DEF CountedLate, CountedStray

LEMMA LogExecTool ==
    ASSUME LogInv, NEW w \in Workers, ExecTool(w)
    PROVE  LogInv'
<1>1. PICK me \in Worker : me = wk[w] /\ Placed(me)
  BY DEF LogInv, WorkersOK
<1>2. me.pc = "tool" /\ me.run \in Runs
  BY <1>1 DEF ExecTool, At, Placed
<1>3. PICK p : p = First(me.pending)
  OBVIOUS
<1>4. p \in Pending /\ Asked(steps[me.run], p.seq, p.call)
  BY <1>1, <1>2, <1>3, FirstCall
<1>5. executed' = [executed EXCEPT ![me.run][p.seq] = Append(@, p.call)] /\ UNCHANGED steps
  BY <1>1, <1>3 DEF ExecTool
<1>6. ExecutedOK'
  <2>1. p.seq \in Slots /\ p.call \in Calls
    BY <1>4 DEF Pending
  <2>2. executed' \in [Runs -> [Slots -> Seq(Calls)]]
    BY <1>2, <1>5, <2>1 DEF LogInv, ExecutedOK
  <2>3. ASSUME NEW r \in Runs, NEW s \in Slots, NEW i \in DOMAIN executed'[r][s]
        PROVE  Asked(steps'[r], s, executed'[r][s][i])
    <3>1. CASE executed'[r][s] = executed[r][s]
      BY <1>5, <3>1 DEF LogInv, ExecutedOK
    <3>2. CASE executed'[r][s] # executed[r][s]
      <4>1. r = me.run /\ s = p.seq /\ executed'[r][s] = Append(executed[r][s], p.call)
        BY <1>2, <1>5, <2>1, <3>2 DEF LogInv, ExecutedOK
      <4>2. PICK calls \in Seq(Calls) : calls = executed[r][s]
        BY DEF LogInv, ExecutedOK
      <4>3. \/ i \in DOMAIN calls /\ executed'[r][s][i] = calls[i]
            \/ executed'[r][s][i] = p.call
        BY <2>1, <4>1, <4>2
      <4> QED BY <1>4, <1>5, <4>1, <4>2, <4>3 DEF LogInv, ExecutedOK
    <3> QED BY <3>1, <3>2
  <2> QED BY <2>2, <2>3 DEF ExecutedOK
<1>7. CASE wk' = [wk EXCEPT ![w].pc = "record", ![w].late = CountedLate(w)]
  <2>1. PICK x : x = [me EXCEPT !.pc = "record", !.late = CountedLate(w)]
    OBVIOUS
  <2>2. wk' = [wk EXCEPT ![w] = x]
    BY <1>1, <1>7, <2>1, Zenon
  <2>3. CountedLate(w) \in Nat
    BY <1>1, CountsNat DEF Worker
  <2>4. /\ x \in Worker /\ x.pc = "record"
        /\ x.run = me.run /\ x.seq = me.seq /\ x.pending = me.pending
    BY <2>1, <2>3 DEF Worker, Pc
  <2>5. Placed(x)
    BY <1>1, <1>2, <2>4 DEF Placed, Executing
  <2> QED BY <1>5, <1>6, <2>2, <2>4, <2>5, WorkerMovesOn
<1>8. CASE \E retryable \in BOOLEAN : Fail(w, retryable)
  BY <1>1, <1>2, <1>5, <1>6, <1>8, LogFail
<1> QED BY <1>7, <1>8 DEF ExecTool

LEMMA LogGenerate ==
    ASSUME LogInv, NEW w \in Workers, Generate(w)
    PROVE  LogInv'
<1>1. PICK me \in Worker : me = wk[w] /\ Placed(me)
  BY DEF LogInv, WorkersOK
<1>2. me.pc = "generate" /\ me.run \in Runs
  BY <1>1 DEF Generate, At, Placed
<1>3. UNCHANGED <<steps, executed>> /\ ExecutedOK'
  BY ExecutedSame DEF Generate, LogUnchanged
<1>4. ASSUME NEW turn \in Turns,
             wk' = [wk EXCEPT ![w].pc = "recordModel", ![w].turn = turn, ![w].late = CountedLate(w)]
      PROVE  LogInv'
  <2>1. PICK x : x = [me EXCEPT !.pc = "recordModel", !.turn = turn, !.late = CountedLate(w)]
    OBVIOUS
  <2>2. wk' = [wk EXCEPT ![w] = x]
    BY <1>1, <1>4, <2>1, Zenon
  <2>3. CountedLate(w) \in Nat
    BY <1>1, CountsNat DEF Worker
  <2>4. /\ x \in Worker /\ x.pc = "recordModel"
        /\ x.run = me.run /\ x.seq = me.seq /\ x.pending = me.pending
    BY <2>1, <2>3 DEF Worker, Pc
  <2>5. Placed(x)
    BY <1>1, <1>2, <2>4 DEF Placed, Executing
  <2> QED BY <1>3, <2>2, <2>4, <2>5, WorkerMovesOn
<1>5. CASE \E retryable \in BOOLEAN : Fail(w, retryable)
  BY <1>1, <1>2, <1>3, <1>5, LogFail
<1> QED BY <1>4, <1>5 DEF Generate

\* The log of one run is written, and the others stay.
LEMMA LogWritten ==
    ASSUME LogsOK, NEW r \in Runs, NEW after, steps' = [steps EXCEPT ![r] = after],
           LogOK(after), Longer(steps[r], after)
    PROVE  LogsOK' /\ LogsGrow /\ steps'[r] = after
<1>1. \A q \in Runs : steps'[q] = IF q = r THEN after ELSE steps[q]
  BY DEF LogsOK
<1>2. LogsOK'
  BY <1>1 DEF LogsOK, LogOK
<1>3. LogsGrow
  BY <1>1 DEF LogsGrow, LogsOK, Longer
<1> QED BY <1>1, <1>2, <1>3

LEMMA LogRecordTool ==
    ASSUME LogInv, NEW w \in Workers, RecordTool(w)
    PROVE  LogInv'
<1>1. PICK me \in Worker : me = wk[w] /\ Placed(me)
  BY DEF LogInv, WorkersOK
<1>2. me.pc = "record" /\ me.run \in Runs /\ me.pending # {}
  BY <1>1 DEF RecordTool, At, Placed
<1>3. PICK p : p = First(me.pending)
  OBVIOUS
<1>4. PICK r \in Runs : r = me.run
  BY <1>2
<1>5. p \in Pending /\ Follows(steps[r], me.seq, me.pending)
  BY <1>1, <1>2, <1>3, <1>4, FirstCall
<1>6. CASE RecordRefused(w, p.seq)
  BY <1>1, <1>2, <1>6, LogFail, ExecutedSame DEF RecordRefused, LogUnchanged
<1>7. CASE ~RecordRefused(w, p.seq)
  <2> DEFINE rest == me.pending \ {p}
  <2>1. /\ steps[r][p.seq] = NoStep
        /\ steps' = [steps EXCEPT ![r][p.seq] = Answer(p)]
        /\ wk' = [wk EXCEPT ![w].pc = LoopPc(rest, wk[w].seq), ![w].pending = rest,
                            ![w].stray = CountedStray(w)]
        /\ UNCHANGED executed
    BY <1>1, <1>3, <1>4, <1>7, Zenon DEF RecordTool, Taken, Answer
  <2>2. PICK after : after = [steps[r] EXCEPT ![p.seq] = Answer(p)]
    OBVIOUS
  <2>3. steps' = [steps EXCEPT ![r] = after] /\ Writes(steps[r], p.seq, Answer(p), after)
    BY <2>1, <2>2, Zenon DEF Writes
  <2>4. LogOK(steps[r])
    BY DEF LogInv, LogsOK
  <2>5. LogOK(after) /\ Longer(steps[r], after) /\ Follows(after, me.seq, rest)
    BY <1>2, <1>3, <1>5, <2>1, <2>3, <2>4, AnswerRecorded
  <2>6. LogsOK' /\ LogsGrow /\ steps'[r] = after
    BY <2>3, <2>5, LogWritten DEF LogInv
  <2>7. PICK pc, rst, stray : pc = LoopPc(rest, me.seq) /\ rst = rest /\ stray = CountedStray(w)
    OBVIOUS
  <2>8. PICK x : x = [me EXCEPT !.pc = pc, !.pending = rst, !.stray = stray]
    OBVIOUS
  <2>9. wk' = [wk EXCEPT ![w] = x]
    BY <1>1, <2>1, <2>7, <2>8, Zenon
  <2>10. stray \in Nat /\ rst \in SUBSET Pending /\ pc \in {"fail", "check"}
    BY <1>1, <2>7, CountsNat DEF Worker, LoopPc
  <2>11. /\ x \in Worker /\ x.pc = pc
         /\ x.run = r /\ x.seq = me.seq /\ x.pending = rst
    BY <1>4, <2>8, <2>10 DEF Worker, Pc
  <2>12. pc = "check" => rst # {} \/ me.seq < MaxSteps
    BY <2>7 DEF LoopPc, Worker, Slots
  <2>13. Follows(steps'[r], x.seq, x.pending)
    BY <2>5, <2>6, <2>7, <2>11
  <2>14. Placed(x)'
    BY <2>10, <2>11, <2>12, <2>13 DEF Placed, Executing
  <2>15. ExecutedOK'
    BY <2>1, <2>6, ExecutedStays
  <2> QED BY <2>6, <2>9, <2>11, <2>14, <2>15, WorkerGoesOn
<1> QED BY <1>6, <1>7

LEMMA LogRecordModel ==
    ASSUME LogInv, NEW w \in Workers, RecordModel(w)
    PROVE  LogInv'
<1>1. PICK me \in Worker : me = wk[w] /\ Placed(me)
  BY DEF LogInv, WorkersOK
<1>2. /\ me.pc = "recordModel" /\ me.run \in Runs /\ me.seq < MaxSteps
      /\ Follows(steps[me.run], me.seq, {})
  BY <1>1 DEF RecordModel, At, Placed, Executing
<1>3. PICK r \in Runs : r = me.run
  BY <1>2
<1>4. PICK turn \in Turns : turn = me.turn
  BY DEF Worker
<1>5. CASE RecordRefused(w, me.seq + 1)
  BY <1>1, <1>2, <1>5, LogFail, ExecutedSame DEF RecordRefused, LogUnchanged
<1>6. CASE ~RecordRefused(w, me.seq + 1)
  <2> DEFINE step == [kind |-> "model", calls |-> turn]
  <2>0. PICK s, seq, asked, pc, stray :
           /\ s = me.seq + 1 /\ seq = s + Len(turn) /\ asked = Numbered(s, turn)
           /\ pc = (IF turn = <<>> THEN "complete" ELSE "check")
           /\ stray = CountedStray(w)
    OBVIOUS
  <2>1. /\ steps[r][s] = NoStep
        /\ steps' = [steps EXCEPT ![r][s] = step]
        /\ wk' = [wk EXCEPT ![w].pc = pc, ![w].seq = seq, ![w].pending = asked,
                            ![w].turn = <<>>, ![w].stray = stray]
        /\ UNCHANGED executed
    BY <1>1, <1>3, <1>4, <1>6, <2>0, Zenon DEF RecordModel, Taken
  <2>2. PICK after : after = [steps[r] EXCEPT ![s] = step]
    OBVIOUS
  <2>3. steps' = [steps EXCEPT ![r] = after] /\ Writes(steps[r], s, step, after)
    BY <2>1, <2>2, Zenon DEF Writes
  <2>4. LogOK(steps[r])
    BY DEF LogInv, LogsOK
  <2>5. /\ LogOK(after) /\ Longer(steps[r], after)
        /\ seq \in Slots /\ asked \in SUBSET Pending
        /\ IF turn = <<>> THEN HasAnswer(after) ELSE Follows(after, seq, asked)
    <3>1. Writes(steps[r], me.seq + 1, step, after) /\ steps[r][me.seq + 1] = NoStep
      BY <2>0, <2>1, <2>3
    <3>2. /\ LogOK(after) /\ Longer(steps[r], after)
          /\ me.seq + 1 + Len(turn) \in Slots /\ Numbered(me.seq + 1, turn) \in SUBSET Pending
          /\ IF turn = <<>> THEN HasAnswer(after)
             ELSE Follows(after, me.seq + 1 + Len(turn), Numbered(me.seq + 1, turn))
      BY <1>2, <1>3, <2>4, <3>1, TurnRecorded
    <3> QED BY <2>0, <3>2
  <2>6. LogsOK' /\ LogsGrow /\ steps'[r] = after
    BY <2>3, <2>5, LogWritten DEF LogInv
  <2>7. PICK x : x = [me EXCEPT !.pc = pc, !.seq = seq, !.pending = asked, !.turn = <<>>,
                                !.stray = stray]
    OBVIOUS
  <2>8. wk' = [wk EXCEPT ![w] = x]
    BY <1>1, <2>1, <2>7, Zenon
  <2>9. stray \in Nat /\ pc \in {"complete", "check"} /\ <<>> \in Turns
    <3>1. <<>> \in Turns
      BY PollingTyped DEF Polling, Worker
    <3> QED BY <1>1, <2>0, <3>1, CountsNat DEF Worker
  <2>10. /\ x \in Worker /\ x.pc = pc
         /\ x.run = r /\ x.seq = seq /\ x.pending = asked
    BY <1>3, <2>5, <2>7, <2>9 DEF Worker, Pc
  <2>11. pc = "check" => asked # {}
    <3>1. turn # <<>> => Len(turn) \in Nat /\ Len(turn) # 0
      BY TurnLength
    <3>2. turn # <<>> => [seq |-> s + 1, call |-> turn[1]] \in Numbered(s, turn)
      BY <3>1 DEF Numbered
    <3> QED BY <2>0, <3>2
  <2>12. pc = "check" => Follows(steps'[r], x.seq, x.pending)
    BY <2>0, <2>5, <2>6, <2>10
  <2>13. pc = "complete" => HasAnswer(steps'[r])
    BY <2>0, <2>5, <2>6
  <2>14. Placed(x)'
    BY <2>9, <2>10, <2>11, <2>12, <2>13 DEF Placed, Executing
  <2>15. ExecutedOK'
    BY <2>1, <2>6, ExecutedStays
  <2> QED BY <2>6, <2>8, <2>10, <2>14, <2>15, WorkerGoesOn
<1> QED BY <1>5, <1>6

LEMMA LogBeginComplete ==
    ASSUME LogInv, NEW w \in Workers, BeginComplete(w)
    PROVE  LogInv'
<1>1. PICK me \in Worker : me = wk[w] /\ Placed(me)
  BY DEF LogInv, WorkersOK
<1>2. PICK x : x = [me EXCEPT !.pc = "completing", !.seen = Closed]
  OBVIOUS
<1>3. wk' = [wk EXCEPT ![w] = x]
  BY <1>1, <1>2, Zenon DEF BeginComplete
<1>4. x \in Worker /\ x.pc = "completing" /\ x.run = me.run
  BY <1>2 DEF Worker, Pc, Closed, Seen
<1>5. me.pc = "complete"
  BY <1>1 DEF BeginComplete, At
<1>6. Placed(x)
  BY <1>1, <1>4, <1>5 DEF Placed, Executing
<1> QED BY <1>3, <1>4, <1>6, ExecutedSame, WorkerMovesOn DEF BeginComplete, LogUnchanged

LEMMA LogSame ==
    ASSUME LogInv, UNCHANGED <<wk, steps, executed>>
    PROVE  LogInv'
<1>1. LogsGrow /\ LogsOK' /\ ExecutedOK'
  BY SameLogs, ExecutedSame DEF LogInv
<1> QED BY <1>1 DEF LogInv, WorkersOK, Placed, Follows, FollowsTurn

-----------------------------------------------------------------------------

LEMMA LogInit == RunnerInit => LogInv
<1> SUFFICES ASSUME RunnerInit PROVE LogInv
  OBVIOUS
<1>1. ASSUME NEW r \in Runs PROVE LogOK(steps[r])
  <2>1. steps[r] = [s \in Slots |-> NoStep]
    BY DEF RunnerInit
  <2> QED BY <2>1 DEF LogOK, Log, WellFormed, ModelsInTime, NoStep
<1>2. LogsOK
  BY <1>1 DEF LogsOK, RunnerInit, Log
<1>3. WorkersOK
  BY PollingTyped DEF WorkersOK, RunnerInit
<1> QED BY <1>2, <1>3 DEF LogInv, ExecutedOK, RunnerInit

LEMMA LogNext ==
    ASSUME TypeOK, LogInv, [RunnerNext]_runnerVars
    PROVE  LogInv'
<1>1. ASSUME NEW w \in Workers, WorkerStep(w) PROVE LogInv'
  <2>1. CASE Reap(w)
    <3>1. PICK pc \in Pc : pc = "claim" /\ Goto(w, pc) /\ LogUnchanged
      <4>1. "claim" \in Pc
        BY DEF Pc
      <4> QED BY <2>1, <4>1, Zenon DEF Reap
    <3> QED BY <3>1, LogGoto
  <2>2. CASE Claim(w) \/ Load(w) \/ Beat(w) \/ BeginComplete(w)
    BY <2>2, LogClaim, LogLoad, LogBeat, LogBeginComplete
  <2>3. CASE ClaimNone(w) \/ Cancel(w) \/ LeaseLost(w) \/ FinishComplete(w) \/ EndAttempt(w)
    BY <2>3, LogGiveUp DEF ClaimNone, Cancel, LeaseLost, FinishComplete, EndAttempt
  <2>4. CASE CheckCancel(w)
    <3>1. PICK pc \in {"cancel", "beat"} : Goto(w, pc)
      BY <2>4 DEF CheckCancel
    <3> QED BY <2>4, <3>1, LogGoto DEF CheckCancel, At, Pc
  <2>5. CASE ExecTool(w) \/ Generate(w) \/ RecordTool(w) \/ RecordModel(w)
    BY <2>5, LogExecTool, LogGenerate, LogRecordTool, LogRecordModel
  <2>6. CASE PostReply(w)
    BY <2>6, LogSame DEF PostReply, LogUnchanged
  <2>7. CASE ReplyRefused(w)
    BY <2>7, LogFail, ExecutedSame DEF ReplyRefused, LogUnchanged, At
  <2> QED BY <1>1, <2>1, <2>2, <2>3, <2>4, <2>5, <2>6, <2>7 DEF WorkerStep
<1>2. ASSUME NEW w \in Workers, Die(w) PROVE LogInv'
  BY <1>2, LogGiveUp DEF Die
<1>3. CASE UNCHANGED <<wk, steps, executed>>
  BY <1>3, LogSame
<1> QED BY <1>1, <1>2, <1>3 DEF RunnerNext, Revive, LogUnchanged, ClientStep, ClockStep, runnerVars

LEMMA WorkersHaveRuns == LogInv => RunsKnown
BY DEF LogInv, WorkersOK, Placed, RunsKnown, Shaped, HasRun, Worker, Fields

\* The invariant, with that of the queue below.
LEMMA LogCorrect == RunnerSpec => [](TypeOK /\ QueueInv /\ LogInv)
<1>1. RunnerSpec => StoreSpec
  BY RunnerImplementsRunStore DEF ImplementsRunStore
<1>2. RunnerInit => LogInv
  BY LogInit
<1>3. TypeOK /\ LogInv /\ [RunnerNext]_runnerVars => LogInv'
  BY LogNext
<1> QED BY <1>1, <1>2, <1>3, QueueCorrect, PTL DEF RunnerSpec

\* Runs, workers and their logs are what the code's types say, always.
THEOREM RunnerTyping == RunnerSpec => []RunnerTypeOK
<1>1. TypeOK /\ LogInv => RunnerTypeOK
  BY DEF RunnerTypeOK, LogInv, LogsOK, WorkersOK, ExecutedOK, Log
<1> QED BY <1>1, LogCorrect, PTL

(***************************************************************************)
(* However many workers record steps of a run, believing they hold it, its *)
(* log is one that rebuild can read.                                       *)
(***************************************************************************)
THEOREM LogsAreWellFormed == RunnerSpec => []StepLogWellFormed
<1>1. LogInv => StepLogWellFormed
  BY DEF LogInv, LogsOK, LogOK, StepLogWellFormed
<1> QED BY <1>1, LogCorrect, PTL

(***************************************************************************)
(* A call is executed again only with the name and arguments it had: the   *)
(* idempotency key of a step never changes.                                *)
(***************************************************************************)
THEOREM CallsAreRepeatedExactly == RunnerSpec => []OneCallPerStep
<1>1. LogInv => OneCallPerStep
  <2> SUFFICES ASSUME LogInv, NEW r \in Runs, NEW s \in Slots,
                      NEW i \in DOMAIN executed[r][s], NEW j \in DOMAIN executed[r][s]
               PROVE  executed[r][s][i] = executed[r][s][j]
    BY DEF OneCallPerStep
  <2>1. Asked(steps[r], s, executed[r][s][i]) /\ Asked(steps[r], s, executed[r][s][j])
    BY DEF LogInv, ExecutedOK
  <2>2. LogOK(steps[r])
    BY DEF LogInv, LogsOK
  <2> QED BY <2>1, <2>2, AskedOnce
<1> QED BY <1>1, LogCorrect, PTL

(***************************************************************************)
(* rebuild never takes a run back behind a worker that is executing it.    *)
(***************************************************************************)
THEOREM ResumesLoseNothing == RunnerSpec => []ResumedNoEarlier
<1>1. LogInv => ResumedNoEarlier
  <2> SUFFICES ASSUME LogInv, NEW w \in Workers, wk[w].pc \in Executing,
                      ~HasAnswer(steps[wk[w].run])
               PROVE  \/ Rebuilt(steps[wk[w].run]).seq > wk[w].seq
                      \/ /\ Rebuilt(steps[wk[w].run]).seq = wk[w].seq
                         /\ Rebuilt(steps[wk[w].run]).pending \subseteq wk[w].pending
    BY DEF ResumedNoEarlier
  <2>1. wk[w].run \in Runs /\ Follows(steps[wk[w].run], wk[w].seq, wk[w].pending)
    BY DEF LogInv, WorkersOK, Placed, Executing
  <2>2. LogOK(steps[wk[w].run])
    BY <2>1 DEF LogInv, LogsOK
  <2> QED BY <2>1, <2>2, RebuiltNoEarlier
<1> QED BY <1>1, LogCorrect, PTL
=============================================================================
