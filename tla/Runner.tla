------------------------------- MODULE Runner -------------------------------
(***************************************************************************)
(* Workers executing runs: app/worker.py (run_once) and app/runner.py      *)
(* (execute_run, rebuild) on top of the run queue of RunStore.             *)
(*                                                                         *)
(* A worker is a loop with a program counter: reap, claim, rebuild the run *)
(* from its step log, then check for a cancel request and send a heartbeat *)
(* before every tool call and every model turn, record each as a row of    *)
(* run_step, and complete.  Its connection reads from a snapshot that      *)
(* lasts until its next commit, which matters for what it reads between    *)
(* the claim and the first commit after it (seen).                         *)
(*                                                                         *)
(* The model provider is outside: it answers any turn, or fails with a     *)
(* retryable or a final AgentError.  Contents and results are left out; a  *)
(* tool call is its name and arguments, an element of Calls.               *)
(***************************************************************************)
EXTENDS RunStore

CONSTANTS
    Calls,     \* the tool calls (name and args) a model may ask for
    MaxSteps,  \* MAX_STEPS
    MaxCalls   \* bound: the most calls of one model turn

ASSUME StepsAssumption == MaxSteps \in Nat \ {0} /\ MaxCalls \in Nat \ {0}
ASSUME ProcessesAssumption == IsFiniteSet(Workers)

VARIABLES
    steps,     \* the tables run_step and tool_call: per run, by seq
    wk,        \* the workers' local state
    executed   \* history: per run and seq, the tool calls executed there, in order

runnerVars == <<run, message, enqueuing, completing, cancelling, now, steps, wk, executed>>

-----------------------------------------------------------------------------

\* A new turn starts at seq < MAX_STEPS and may ask for MaxCalls calls.
Slots == 1 .. MaxSteps + MaxCalls

Turns == UNION {[1 .. n -> Calls] : n \in 0 .. MaxCalls}

\* A model step carries the calls it asks for, none when it is the answer; a
\* tool step carries the one call it answers.
Step == [kind : {"model", "tool"}, calls : Turns]
NoStep == [kind |-> "none", calls |-> <<>>]

\* A call to be answered and the seq of the answer.  The program keeps these in
\* a list in the order of seq: here a set, of which the least seq comes first.
Pending == [seq : Slots, call : Calls]

\* What the open snapshot of the connection shows: the flag and MAX(seq) + 1.
Seen == [open : BOOLEAN, cancel : BOOLEAN, next : Nat]
Closed == [open |-> FALSE, cancel |-> FALSE, next |-> 0]

Pc == {"reap", "claim", "load", "check", "beat", "cancel", "tool", "record",
       "generate", "recordModel", "complete", "completing", "fail"}

Worker == [pc : Pc,
           run : Runs \cup {NULL},
           seq : {0} \cup Slots,
           pending : SUBSET Pending,
           turn : Turns,
           seen : Seen,
           retryable : BOOLEAN,
           stray : Nat,   \* history: steps recorded without the lease since the claim
           late : Nat]    \* history: steps begun after the cancel request since the claim

Polling == [pc |-> "reap", run |-> NULL, seq |-> 0, pending |-> {}, turn |-> <<>>,
            seen |-> Closed, retryable |-> FALSE, stray |-> 0, late |-> 0]

RunnerTypeOK == /\ TypeOK
                /\ steps \in [Runs -> [Slots -> Step \cup {NoStep}]]
                /\ wk \in [Workers -> Worker]
                /\ executed \in [Runs -> [Slots -> Seq(Calls)]]

-----------------------------------------------------------------------------
(* rebuild: what a worker knows of a run from its step log.                *)

\* The final text: a model step that asks for no call.
HasAnswer(log) == \E s \in Slots : log[s].kind = "model" /\ log[s].calls = <<>>

\* The calls a model step at seq s asks for, with the seq of their answers.
Numbered(s, calls) == {[seq |-> s + i, call |-> calls[i]] : i \in 1 .. Len(calls)}

First(pending) == CHOOSE p \in pending : \A q \in pending : p.seq <= q.seq

\* (the calls of a turn count as answered)
FoldedForgetting(known, s, step) ==
    IF step.kind = "model" THEN [seq |-> s + Len(step.calls), pending |-> {}] ELSE known

\* (the calls answered before stay pending)
FoldedRepeating(known, s, step) ==
    IF step.kind = "model" /\ step.calls # <<>>
    THEN [seq |-> s + Len(step.calls), pending |-> Numbered(s, step.calls)] ELSE known

\* The body of its loop, for the step at seq s; NoStep is not a row.
Folded(known, s, step) ==
    CASE step.kind = "model" /\ step.calls # <<>> ->
            [seq |-> s + Len(step.calls), pending |-> Numbered(s, step.calls)]
      [] step.kind = "model" /\ step.calls = <<>> -> [known EXCEPT !.seq = s]
      [] step.kind = "tool" ->
            [known EXCEPT !.pending = {p \in @ : p.seq # s}]
      [] OTHER -> known

Rebuilt(log) ==
    LET known[s \in {0} \cup Slots] ==
            IF s = 0 THEN [seq |-> 0, pending |-> {}]
            ELSE Folded(known[s - 1], s, log[s])
    IN  known[MaxSteps + MaxCalls]

-----------------------------------------------------------------------------
(* Steps of a worker.  Each takes it from one program counter to the next. *)

At(w, pc) == wk[w].pc = pc /\ completing[w].phase # "crashed"
Goto(w, pc) == wk' = [wk EXCEPT ![w].pc = pc]
GiveUp(w) == wk' = [wk EXCEPT ![w] = Polling]    \* run_once returns
\* (the exception is only logged)
FailSilently(w, retryable) == GiveUp(w)
Fail(w, retryable) == wk' = [wk EXCEPT ![w].pc = "fail", ![w].retryable = retryable]

\* (no step limit)
LoopPcUnlimited(pending, seq) == "check"
\* (between_steps only before a model turn)
LoopPcUnchecked(pending, seq) ==
    IF pending # {} THEN "tool" ELSE IF seq >= MaxSteps THEN "fail" ELSE "check"

\* Where the loop of execute_run goes with these calls pending: the next call,
\* or past the step limit to the next model turn.  Both begin with between_steps.
LoopPc(pending, seq) == IF pending = {} /\ seq >= MaxSteps THEN "fail" ELSE "check"

\* Every step but those of complete leaves the rest of the store alone.
StoreUnchanged == UNCHANGED storeVars
LogUnchanged == UNCHANGED <<steps, executed>>

Reap(w) ==
    /\ At(w, "reap")
    /\ ReapExpired
    /\ Goto(w, "claim")
    /\ LogUnchanged

Claim(w) ==
    /\ At(w, "claim")
    /\ \E r \in Runs : /\ ClaimNext(w, r)
                       /\ wk' = [wk EXCEPT ![w].pc = "load", ![w].run = r]
    /\ LogUnchanged

\* Nothing to claim: run_forever sleeps and starts over.
ClaimNone(w) ==
    /\ At(w, "claim")
    /\ ~AnyLocked
    /\ \A r \in Runs : ~Available(r)
    /\ GiveUp(w)
    /\ StoreUnchanged /\ LogUnchanged

\* get_thread opens the snapshot that load_history and load_steps read, and
\* that stays open after them.
Load(w) ==
    LET r == wk[w].run
        known == Rebuilt(steps[r])
    IN  /\ At(w, "load")
        /\ wk' = [wk EXCEPT
                    ![w].pc = IF HasAnswer(steps[r]) THEN "complete"
                              ELSE LoopPc(known.pending, known.seq),
                    ![w].seq = known.seq,
                    ![w].pending = known.pending,
                    ![w].seen = [open |-> TRUE, cancel |-> run[r].cancel_requested,
                                 next |-> NextSeq(ThreadOf[r])]]
        /\ StoreUnchanged /\ LogUnchanged

\* between_steps, first half: cancel_requested.
CheckCancel(w) ==
    LET cancel == IF wk[w].seen.open THEN wk[w].seen.cancel
                                     ELSE run[wk[w].run].cancel_requested
    IN  /\ At(w, "check")
        /\ Goto(w, IF cancel THEN "cancel" ELSE "beat")
        /\ StoreUnchanged /\ LogUnchanged

\* between_steps, second half: a cancel acknowledged, a heartbeat, or LeaseLost.
Cancel(w) ==
    /\ At(w, "cancel")
    /\ MarkCancelled(w, wk[w].run)
    /\ GiveUp(w)
    /\ LogUnchanged

\* (the flag is still read in the snapshot of load_steps)
BeatInSnapshot(w) ==
    /\ At(w, "beat")
    /\ Heartbeat(w, wk[w].run)
    /\ Goto(w, IF wk[w].pending = {} THEN "generate" ELSE "tool")
    /\ LogUnchanged

\* (UPDATE run SET lease_until ... WHERE id, and nothing more)
BeatBlindly(w) ==
    /\ At(w, "beat")
    /\ run' = [run EXCEPT ![wk[w].run].lease_until = now + LeaseSeconds]
    /\ wk' = [wk EXCEPT ![w].pc = IF wk[w].pending = {} THEN "generate" ELSE "tool",
                        ![w].seen = Closed]
    /\ UNCHANGED <<message, enqueuing, completing, cancelling, now>> /\ LogUnchanged

Beat(w) ==
    /\ At(w, "beat")
    /\ Heartbeat(w, wk[w].run)
    /\ wk' = [wk EXCEPT ![w].pc = IF wk[w].pending = {} THEN "generate" ELSE "tool",
                        ![w].seen = Closed]
    /\ LogUnchanged

\* mark_cancelled, heartbeat, complete or fail_attempt finds the run not leased
\* to this worker: it stops, whatever it was doing.
LeaseLost(w) ==
    /\ \E pc \in {"cancel", "beat", "complete", "fail"} : At(w, pc)
    /\ ~Locked(wk[w].run)
    /\ ~Holds(w, wk[w].run)
    /\ GiveUp(w)
    /\ StoreUnchanged /\ LogUnchanged

CountedLate(w) == IF run[wk[w].run].cancel_requested THEN wk[w].late + 1 ELSE wk[w].late

\* run_tool: a result, or the AgentError of a delegation's provider.
ExecTool(w) ==
    LET p == First(wk[w].pending) IN
    /\ At(w, "tool")
    /\ executed' = [executed EXCEPT ![wk[w].run][p.seq] = Append(@, p.call)]
    /\ \/ wk' = [wk EXCEPT ![w].pc = "record", ![w].late = CountedLate(w)]
       \/ \E retryable \in BOOLEAN : Fail(w, retryable)
    /\ StoreUnchanged /\ UNCHANGED steps

\* (a turn is acted on and not recorded)
GenerateUnrecorded(w) ==
    LET s == wk[w].seq + 1 IN
    /\ At(w, "generate")
    /\ \E turn \in Turns :
          wk' = [wk EXCEPT ![w].pc = IF turn = <<>> THEN "complete" ELSE "check",
                           ![w].seq = s + Len(turn), ![w].pending = Numbered(s, turn)]
    /\ StoreUnchanged /\ LogUnchanged

\* provider.generate: a turn, or an AgentError.
Generate(w) ==
    /\ At(w, "generate")
    /\ \/ \E turn \in Turns : wk' = [wk EXCEPT ![w].pc = "recordModel", ![w].turn = turn,
                                               ![w].late = CountedLate(w)]
       \/ \E retryable \in BOOLEAN : Fail(w, retryable)
    /\ StoreUnchanged /\ LogUnchanged

-----------------------------------------------------------------------------
(* Recording a step: an insert into run_step that waits for a lock on the  *)
(* run's row (foreign key) but asks neither who owns the run nor whether   *)
(* it is still running.  uq_run_step refuses a seq that is taken.          *)

Taken(r, s) == steps[r][s] # NoStep

CountedStray(w) == IF Holds(w, wk[w].run) THEN wk[w].stray ELSE wk[w].stray + 1

\* (the exception is only logged)
RecordRefusedSilently(w, s) ==
    /\ ~Locked(wk[w].run)
    /\ Taken(wk[w].run, s)
    /\ Goto(w, "check")
    /\ StoreUnchanged /\ LogUnchanged

\* The exception ends the attempt as internal_error.
RecordRefused(w, s) ==
    /\ ~Locked(wk[w].run)
    /\ Taken(wk[w].run, s)
    /\ Fail(w, FALSE)
    /\ StoreUnchanged /\ LogUnchanged

RecordTool(w) ==
    LET p == First(wk[w].pending)
        rest == wk[w].pending \ {p}
        r == wk[w].run
    IN  /\ At(w, "record")
        /\ \/ RecordRefused(w, p.seq)
           \/ /\ ~Locked(r)
              /\ ~Taken(r, p.seq)
              /\ steps' = [steps EXCEPT ![r][p.seq] = [kind |-> "tool", calls |-> <<p.call>>]]
              /\ wk' = [wk EXCEPT ![w].pc = LoopPc(rest, wk[w].seq), ![w].pending = rest,
                                  ![w].stray = CountedStray(w)]
              /\ StoreUnchanged /\ UNCHANGED executed

RecordModel(w) ==
    LET s == wk[w].seq + 1
        turn == wk[w].turn
        seq == s + Len(turn)
        r == wk[w].run
    IN  /\ At(w, "recordModel")
        /\ \/ RecordRefused(w, s)
           \/ /\ ~Locked(r)
              /\ ~Taken(r, s)
              /\ steps' = [steps EXCEPT ![r][s] = [kind |-> "model", calls |-> turn]]
              /\ wk' = [wk EXCEPT ![w].pc = IF turn = <<>> THEN "complete" ELSE "check",
                                  ![w].seq = seq, ![w].pending = Numbered(s, turn),
                                  ![w].turn = <<>>, ![w].stray = CountedStray(w)]
              /\ StoreUnchanged /\ UNCHANGED executed

-----------------------------------------------------------------------------
(* The end of an attempt.                                                  *)

\* The seq of the reply is read in the open snapshot, if there is one; 1 stands
\* for every seq that is taken by now.
BeginComplete(w) ==
    LET r == wk[w].run
        stale == wk[w].seen.open /\ wk[w].seen.next # NextSeq(ThreadOf[r])
        n == IF stale THEN 1 ELSE NextSeq(ThreadOf[r])
    IN  /\ At(w, "complete")
        /\ CompleteBegin(w, r, n)
        /\ wk' = [wk EXCEPT ![w].pc = "completing", ![w].seen = Closed]
        /\ LogUnchanged

PostReply(w) ==
    /\ At(w, "completing")
    /\ CompleteReply(w)
    /\ UNCHANGED wk /\ LogUnchanged

ReplyRefused(w) ==
    /\ At(w, "completing")
    /\ CompleteCollide(w)
    /\ Fail(w, FALSE)
    /\ LogUnchanged

FinishComplete(w) ==
    /\ At(w, "completing")
    /\ CompleteFinish(w)
    /\ GiveUp(w)
    /\ LogUnchanged

EndAttempt(w) ==
    /\ At(w, "fail")
    /\ FailAttempt(w, wk[w].run, wk[w].retryable)
    /\ GiveUp(w)
    /\ LogUnchanged

-----------------------------------------------------------------------------
(* Processes die at any point of a run and are started again, at once when *)
(* they lose neither a lease nor a call.                                   *)

Die(w) ==
    /\ wk[w].run # NULL
    /\ IF Busy(w) THEN Crash(w) ELSE StoreUnchanged
    /\ GiveUp(w)
    /\ LogUnchanged

Revive(w) ==
    /\ Restart(w)
    /\ UNCHANGED wk /\ LogUnchanged

-----------------------------------------------------------------------------

RunnerInit ==
    /\ StoreInit
    /\ steps = [r \in Runs |-> [s \in Slots |-> NoStep]]
    /\ wk = [w \in Workers |-> Polling]
    /\ executed = [r \in Runs |-> [s \in Slots |-> <<>>]]

WorkerStep(w) ==
    \/ Reap(w) \/ Claim(w) \/ ClaimNone(w) \/ Load(w)
    \/ CheckCancel(w) \/ Cancel(w) \/ Beat(w) \/ LeaseLost(w)
    \/ ExecTool(w) \/ RecordTool(w) \/ Generate(w) \/ RecordModel(w)
    \/ BeginComplete(w) \/ PostReply(w) \/ ReplyRefused(w) \/ FinishComplete(w)
    \/ EndAttempt(w)

ClientStep == ClientNext /\ UNCHANGED <<steps, wk, executed>>
ClockStep == Tick /\ UNCHANGED <<steps, wk, executed>>

RunnerNext ==
    \/ \E w \in Workers : WorkerStep(w) \/ Die(w) \/ Revive(w)
    \/ ClientStep
    \/ ClockStep

(***************************************************************************)
(* run_forever keeps calling run_once, database and provider calls return, *)
(* dead processes are started again, and time passes.  Nothing makes a     *)
(* client enqueue or cancel, or a process die.                             *)
(***************************************************************************)
Fairness ==
    /\ \A w \in Workers : WF_runnerVars(WorkerStep(w)) /\ WF_runnerVars(Revive(w))
    /\ WF_runnerVars(ClockStep)

RunnerSpec == RunnerInit /\ [][RunnerNext]_runnerVars
FairRunnerSpec == RunnerSpec /\ Fairness

-----------------------------------------------------------------------------
(* Properties.                                                             *)

Demands(log, s) == log[s].kind = "model" /\ log[s].calls # <<>>

(***************************************************************************)
(* What rebuild relies on: the log of a run has no gaps; a tool step       *)
(* answers, in order, a call of the model step before it; a model step is  *)
(* recorded only when every call of the one before is answered; nothing    *)
(* follows the answer.  Workers that lost the run may have written part.   *)
(***************************************************************************)
AnswersOnly(log, first, last) == \A q \in first .. last : log[q].kind = "tool"

WellFormed(log) ==
    \A s \in Slots :
        /\ log[s] = NoStep => \A q \in Slots : q > s => log[q] = NoStep
        /\ log[s].kind = "tool" =>
              \E m \in 1 .. s - 1 : /\ Demands(log, m)
                                    /\ s - m <= Len(log[m].calls)
                                    /\ log[s].calls = <<log[m].calls[s - m]>>
                                    /\ AnswersOnly(log, m + 1, s - 1)
        /\ log[s].kind = "model" /\ s > 1 =>
              \E m \in 1 .. s - 1 : /\ Demands(log, m)
                                    /\ s = m + Len(log[m].calls) + 1
                                    /\ AnswersOnly(log, m + 1, s - 1)

StepLogWellFormed == \A r \in Runs : WellFormed(steps[r])

(***************************************************************************)
(* However often a run is claimed and whoever else still works on it, all  *)
(* executions of the call at one step are of the same call, and so have   *)
(* the same idempotency key: a turn is recorded before it is acted on, and *)
(* uq_run_step keeps one turn per step.                                    *)
(***************************************************************************)
OneCallPerStep ==
    \A r \in Runs, s \in Slots :
        \A i, j \in DOMAIN executed[r][s] : executed[r][s][i] = executed[r][s][j]

(***************************************************************************)
(* An attempt executes no step twice: however many workers execute a run   *)
(* at the same time, with a lease or after it, and whatever is recorded or *)
(* refused meanwhile, the call at a step is executed at most once for each *)
(* time the run was claimed, so at most max_attempts times.                *)
(***************************************************************************)
ExecutionsBounded ==
    \A r \in Runs, s \in Slots : Len(executed[r][s]) <= run[r].attempts

(***************************************************************************)
(* Whoever resumes a run finds it at least as far as every worker that is  *)
(* executing it, live or late: rebuild gives the same turn with the same   *)
(* calls still to be answered, or with fewer of them, or a later turn, or  *)
(* the answer.  No step that a worker has left behind is made again.       *)
(***************************************************************************)
Executing == {"check", "cancel", "beat", "tool", "record", "generate", "recordModel"}

ResumedNoEarlier ==
    \A w \in Workers : wk[w].pc \in Executing =>
        LET known == Rebuilt(steps[wk[w].run])
        IN  \/ HasAnswer(steps[wk[w].run])
            \/ known.seq > wk[w].seq
            \/ known.seq = wk[w].seq /\ known.pending \subseteq wk[w].pending

\* between_steps before every call and every turn: a worker that has lost its
\* run records at most one step before it notices.
StrayWritesBounded == \A w \in Workers : wk[w].stray <= 1

\* and after a cancel request is committed, begins at most one more step, even
\* when the snapshot it reads the flag in is older than the request.
CancelStopsNextStep == \A w \in Workers : wk[w].late <= 1

\* Workers call the queue in the order of worker.py and runner.py, and that is
\* one of the uses RunStore allows: all that is said there of any callers holds
\* of these.
ImplementsRunStore == StoreSpec

\* run_once claims only after it has ended what it claimed before: however an
\* attempt ends, its worker does not keep the lease while it works on another.
OneRunPerWorker ==
    \A w \in Workers : \A q, r \in Runs : Holds(w, q) /\ Holds(w, r) => q = r

(***************************************************************************)
(* A reply in the conversation and the status succeeded both mean that the *)
(* answer is in the step log, so that an attempt that dies after it is     *)
(* resumed to the same answer and never asks the model again.              *)
(***************************************************************************)
RepliesAreLogged ==
    \A r \in Runs : Replies(r) # {} \/ run[r].status = "succeeded" => HasAnswer(steps[r])

\* Rounds of the loop of execute_run: one for each pending call, and for every
\* turn that may still begin, it and its calls.
RoundsLeft(x) == Cardinality(x.pending)
                   + (MaxCalls + 1) * (IF x.seq < MaxSteps THEN MaxSteps - x.seq ELSE 0)
MostRounds == MaxCalls + (MaxCalls + 1) * MaxSteps

\* The most steps that are left of the attempt of w, four of them in a round.
AttemptLeft(w) ==
    LET rounds == RoundsLeft(wk[w])
    IN  CASE wk[w].pc = "load" -> 4 * MostRounds + 9
          [] wk[w].pc = "check" -> 4 * rounds + 8
          [] wk[w].pc = "beat" -> 4 * rounds + 7
          [] wk[w].pc \in {"tool", "generate"} -> 4 * rounds + 6
          [] wk[w].pc \in {"record", "recordModel"} -> 4 * rounds + 5
          [] wk[w].pc = "complete" -> 4
          [] wk[w].pc = "completing" -> IF completing[w].phase = "locked" THEN 3 ELSE 2
          [] wk[w].pc \in {"cancel", "fail"} -> 1
          [] OTHER -> 0

(***************************************************************************)
(* No attempt goes round forever, whatever the model asks for: each step   *)
(* of a worker brings the attempt it makes nearer to its end.  seq, which  *)
(* rebuild takes from the log, counts calls as well as turns, and the step *)
(* limit is compared before every turn.                                    *)
(***************************************************************************)
AttemptsRunDown ==
    [][\A w \in Workers : wk[w].pc \notin {"reap", "claim"} =>
          \/ wk'[w] = wk[w] /\ completing'[w] = completing[w]
          \/ AttemptLeft(w)' < AttemptLeft(w)]_runnerVars

\* Every run that is enqueued ends, whatever workers die, lose their lease or
\* fail: attempts are limited, and every lease and every backoff runs out.
EveryRunEnds == \A r \in Runs : run[r].status = "queued" ~> run[r].status \in TERMINAL
=============================================================================
