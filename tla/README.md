# Verification of the support agent's queue, runner and side effects

TLA+ models of the service in `src/`: a queue of runs in MySQL, workers that
lease, execute and resume them, the clients that wait for them, the specialists
that a run delegates to, and the tables that their tools change. The models are
checked with TLC on small instances, and every safety property that a passing
run checks is also proved with TLAPS, for any number of runs, workers, calls and
attempts.

## 1. The system

A client saves a question and a *run* in the schema `agent`. Worker processes
claim runs under a *lease*, let a model (the supervisor) ask for tool calls,
record every model turn and tool result in a *step log*, and finish with a reply
in the conversation. A worker may die or lose its lease at any point; another
one then rebuilds the run from its log and goes on. Two of the supervisor's tool
calls are *delegations*: each runs the whole loop of a specialist, which is not
logged and starts anew when the call is repeated. Tools change the schema
`support` through `once`, which stores each result under an idempotency key.

| Component | State | Operations | Module |
|---|---|---|---|
| Run queue and lease, `app/memory.py` | `run` | `enqueue`, `claim_next`, `heartbeat`, `reap_expired`, `complete`, `request_cancel`, `mark_cancelled`, `fail_attempt` | `RunStore`; what it promises: `JobQueue` |
| Conversations, `app/memory.py` | `message` | `append_message` in `enqueue` and in `complete` | `RunStore` |
| Waiting client, `scripts/ask.py` | the snapshot of its connection | enqueue, poll, print | `Client` |
| Step log and replay, `app/runner.py`, `app/memory.py` | `run_step`, `tool_call` | `record_model_step`, `record_tool_call`, `rebuild` | `Runner` |
| Runner and worker loop, `app/runner.py`, `app/worker.py` | local variables of `execute_run` | `run_once`, `between_steps`, the step limit, `LeaseLost` | `Runner` |
| Support database and resolution tools, `app/support_db.py`, `app/tools/support_tools.py` | `ticket`, `assignment`, `escalation`, `outbox`, `idempotency`, the snapshot of each connection | `create_ticket`, `assign_moderator`, `escalate_ticket`, `notify_user`, `once` | `SupportDb` |
| Specialists, delegation, tool execution, `app/agents.py` | local variables of `run_specialist` | `delegate`, `run_specialist`, `run_tool` | `Delegation` |
| Seed data, `SupportDb.migrate` | the seed rows | count, insert under fixed ids | `Delegation` |
| Triage tools | none, reads only | four lookups | `Browse` in `SupportDb`, `CallPlainTool` in `Delegation` |
| Idempotency keys, `app/idempotency.py` | none | `idempotency_key`, `canonical_json` | in part `Delegation`: what a key is made of |
| Argument validation, `app/tools/dispatch.py` | none | `dispatch` | in part `SupportDb`: refusals |
| Providers, demo, terminal, configuration | | | not modelled |

Components interact through rows only: clients and workers share `run` and
`message`, workers share `run_step` and the tables of `support`. There are no
threads and no callbacks that change state; all concurrency is between
processes, and between their transactions.

What makes it hard:

* **Transactions that end early.** `db.transaction` commits the *connection*. A
  transaction inside another one (`append_message` inside `enqueue` and inside
  `complete`; every tool's own transaction inside `once`) commits the outer
  one's work and gives up its row locks.
* **Snapshots that last.** A connection reads from the snapshot of its current
  transaction. The read methods never end one, so what they read may be
  arbitrarily old: the cancel flag, `MAX(seq)`, a key, a count of tickets, the
  status a client waits for.
* **Leases that run out under live workers.** Nothing sends a heartbeat while a
  model turn or a delegation runs, and recording a step asks no one who owns the
  run. Two workers may execute one run, and one delegation, at the same time.
* **Crashes between two commits**: of reply and status, of effect and key.
* **Replays that ask again.** A delegation that is repeated asks its model again,
  and only calls that come out the same, at the same position, have the same key.
* **Read, then write**, without a lock: `request_cancel`, `migrate`.

`PROJECT.json` lists these hazards at their lines, with the properties that
would show them going wrong.

## 2. Modules

```
JobQueue                     the abstract queue: jobs, leases, answers
RunStore  => JobQueue        the queue under the most general callers
  RunStoreProofs               rows, attempts, leases
    JobQueueProofs             the bound on replies; RunStore implements JobQueue
  Client  => RunStore        processes that enqueue, poll and print
      ClientProofs             what a client prints
  Runner  => RunStore        workers in the order of worker.py and runner.py
    StepLogProofs              what rebuild makes of a log
      RunnerProofs             Runner implements RunStore; the log
        WorkerProofs           leases, repetitions, the length of an attempt
SupportDb                    the tools' tables under the most general callers
  SupportDbProofs              true results, statuses, tickets, the cap
  Delegation  => SupportDb   specialists, delegations, migrate
    DelegationProofs           Delegation implements SupportDb; replays
MCRunStore, MCClient, MCRunner, MCSupportDb, MCDelegation    instances for TLC
```

`=>` reads "implements". `RunStore` and `SupportDb` let any worker make any call
at any time, so what holds there holds for every use of the classes; that
`Runner`, `Client` and `Delegation`, which fix the order of the calls, only use
them so is a property that TLC checks (the client's is a lemma of
`ClientProofs`) and a theorem.

**JobQueue.** A job is submitted once, leased to one owner at a time for at most
`MaxAttempts` attempts, answered at most once per attempt and only while leased,
and ended for good. `RunStore` maps a run to a job by `JobOf` (status, owner and
attempts; the terminal statuses are one state) and counts its replies as answers.

**RunStore.** `run` is the table, `message` the conversations as sequences, whose
index is `seq`. One action is one transaction, or the part of one between two
commits:

| Code | Actions |
|---|---|
| `enqueue` | `EnqueueBegin` (reads `MAX(seq) + 1`), `EnqueueMessage` (insert and commit), `EnqueueRun`; `EnqueueAbort` when `uq_message` refuses the insert or the client dies |
| `claim_next`, `heartbeat`, `reap_expired` | `ClaimNext`, `Heartbeat`, `ReapExpired` |
| `complete` | `CompleteBegin` (row locked, tests passed), `CompleteReply` (insert and commit, lock given up) or `CompleteCollide`, `CompleteFinish` (the unguarded update) |
| `request_cancel` | `RequestCancelRead`, `RequestCancelWrite` |
| `mark_cancelled`, `fail_attempt` | `MarkCancelled`, `FailAttempt` |
| process death | `Crash`, `Restart` |

The row lock of `complete` blocks the others (`Locked`); the two operations that
scan the table wait for any locked row (`AnyLocked`). The clock `now` counts in
units of 0.001 s, by which `heartbeat` pushes a lease.

**Client** extends `RunStore`. `Ask` is `enqueue`, whose last commit is the last
one of the connection; `Poll` is a round of the loop, which reads status and
history in the snapshot that the first round opened; `Leave` is a refused or
dying client. Everything else is `Elsewhere`.

**Runner** extends `RunStore` with the step log `steps`, the workers' program
counters `wk` and the history `executed`, the sequence of calls executed at each
step of each run. Each program counter is a
point between two database or provider calls of `run_once` and `execute_run`;
`between_steps` is `CheckCancel` and then `Cancel`, `Beat` or `LeaseLost`.
`rebuild` is its loop: `Folded` is what one row does to seq and pending calls,
`Rebuilt` the recursive function over the rows. The pending list is a set
ordered by seq (`First` is its head). A provider answers any turn or fails, and
a tool call is its name and arguments; a whole delegation is one `ExecTool`.
`seen` is what the snapshot opened by `get_thread` shows until the first commit.

**SupportDb** has the committed tables `db`, and per connection the snapshot
`view` and the progress `call` of one `once`. An effect works on the committed
rows where the code writes or locks, on the snapshot where it only reads.
`Committed` is the effect's own commit, `StoreKey` the later one of the key,
`Refusal` a result without an effect (arguments that `dispatch` refuses, the cap,
an unknown type), `FindTicket` the lookup of the id that `create_ticket` returns,
and `ToolFailed` what `run_tool` makes of an exception. The caller repeats any
key with any worker at any time, as resumed runs do. Statuses of tickets move
only forward, and `closed` is never written by the code.

**Delegation** extends `SupportDb` with the specialists: `agent` is per process
the state of `run_specialist`, `passes` counts how often a delegation was begun,
`seeded` says whether the seed rows have been committed.

| Code | Actions |
|---|---|
| `migrate` | `MigrateCount`, `MigrateInsert`; `MigrateRefused` when another process was faster and the primary key of `account` refuses the rows |
| `delegate`, and its repetition by whoever resumes the run | `Delegate` |
| `provider.generate` in `run_specialist` | `Generate` (a turn with calls), `Return` (an answer, an `AgentError`, the step limit) |
| `run_tool`: a lookup, an unknown tool | `CallPlainTool` |
| `run_tool`: a side effect through `once` | `Replay`, or `BeginEffect`, `RunEffect`, `StoreResult` |
| process death | `Die` |

A definition whose comment is in parentheses is a *slip*: what the definition
after it would be with a plausible mistake. No specification uses one. Each
checked property is known to fail when one of the slips is put in place.

## 3. Runs

| Run | Instance | Shows |
|---|---|---|
| `queue` | 1 run and its client, 3 workers, 3 attempts, clock to 7 | `ClientTypeOK`, `QueueInv`, `AnswerComesWithReply`, `NoResurrection`, `LeaseIsExclusive` |
| `conversation` | 2 runs of one thread, 2 workers, 2 attempts, clock to 2 | `TypeOK`, `RepliesBoundedByAttempts`, `SucceededHasReply`, `ReplyFromHolder`, `ImplementsJobQueue` |
| `runner` | 1 run, 2 workers, 2 attempts, turns of 0 to 2 calls out of 2, `MAX_STEPS` 3 | `RunnerTypeOK`, `StepLogWellFormed`, `OneCallPerStep`, `ExecutionsBounded`, `ResumedNoEarlier`, `StrayWritesBounded`, `CancelStopsNextStep`, `RepliesAreLogged`, no deadlock |
| `two_runs` | 2 runs of one thread, 2 workers, 1 attempt, turns of at most 1 call, `MAX_STEPS` 1, clock to 2 | `OneRunPerWorker`, `RepliesAreLogged`, `ImplementsRunStore` |
| `liveness` | as `runner` with 1 call and `MAX_STEPS` 2, no symmetry | `EveryRunEnds`, `AttemptsRunDown` |
| `support` | 2 connections, 2 accounts, 6 keys (two ticket types, an unknown one and a message of one account; assign and escalate, of its first ticket, from the other), cap 1 | `SupportTypeOK`, `OneOpenPerType`, `StatusMatchesTables`, `CapOvershootBounded`, `StoredResultsAreTrue`, no deadlock |
| `delegation` | 2 workers; one delegation to `resolution`, executed twice, one to `triage`; three turns of up to 2 calls, one of them the same write twice; `SPECIALIST_MAX_STEPS` 3 | `DelegationTypeOK`, `HeardIsStored`, `NotReplayedAtFirst`, `EffectsBoundedByPasses`, `ImplementsSupportDb`, `DelegationsReturn`, `LoopsRunDown` |
| `enqueue_atomic`, `succeeds_for_owner`, `at_most_once`, `cap`, `client_waits` | small | counterexamples, section 5 |

What the properties say:

* `QueueInv`: a queued run has no lease and an attempt left; a running one has
  an owner and an expiry; attempts stop at `max_attempts`; the row `complete` has
  locked is still its caller's; no write in flight aims at a row that does not
  exist.
* `NoResurrection`, `LeaseIsExclusive`: although `complete` and
  `request_cancel` write without a guard, a terminal run is never queued or
  running again and gets no further attempt, its end is overwritten with
  `succeeded` or `cancelled` only, and a lease changes hands only by way of the
  queue and never shrinks.
* `RepliesBoundedByAttempts`, `ReplyFromHolder`, `SucceededHasReply`: a crash
  between reply and status can double the reply, but only once per attempt, and
  only a holder replies; a run never succeeds without its reply, also when the
  last update of `complete` comes after the lease was lost.
* `ImplementsJobQueue`: rows, messages, locks and calls in flight together never
  do more than the abstract queue.
* `AnswerComesWithReply`: a client prints an answer only with a conversation that
  holds its run's reply. (The one it prints is the last message of the thread.)
* `StepLogWellFormed`: what `rebuild` relies on. No gaps, answers in order, a new
  turn only after all answers, although several workers write the log unfenced.
* `OneCallPerStep`: the call executed at a step is always the same one, so its
  idempotency key is; `ResumedNoEarlier`: what `rebuild` finds is never behind a
  worker that still executes the run; `RepliesAreLogged`: a reply is never posted
  before the answer is in the log, so a resumed run repeats it.
* `ExecutionsBounded`: a tool call is made before it is recorded, so it may be
  made again; but at most once for each time the run was claimed, however many
  workers execute the run at once and whatever their records are refused.
* `AttemptsRunDown`: no attempt goes round forever. Each step of a worker makes
  `AttemptLeft` smaller, whatever the model asks for and whoever wrote the log.
* `OneRunPerWorker`: however an attempt ends, its worker does not keep its lease
  while it works on another run.
* `StrayWritesBounded`, `CancelStopsNextStep`: a worker that lost its run writes
  at most one step, and begins at most one after a cancel request, although the
  flag may be read in an old snapshot.
* `EveryRunEnds`: every run that is queued ends.
* `OneOpenPerType`, `StatusMatchesTables`: whatever races, one open ticket per
  account and type, and a status that agrees with `assignment` and `escalation`.
* `CapOvershootBounded`: the cap is not respected (section 5), but a connection
  counts its own tickets, so each further one adds at most one.
* `StoredResultsAreTrue`: what `once` replays is so. The change a result reports
  was made; the ticket that `create_ticket` names is the account's, of the type
  that is said to be open, and never older than the call's own; a refusal for the
  cap, counted in a snapshot of whatever age, is of an account that has as many
  tickets. The ticket of an assignment or escalation exists and was moved; whose
  it is the code does not ask (section 5), and the property does not say.
* `HeardIsStored`: what `once` told a specialist is what is stored under the key,
  also while two workers execute one delegation. `NotReplayedAtFirst`: nothing is
  replayed in the only execution of a delegation, a write asked for twice is
  carried out twice. `EffectsBoundedByPasses`: `once` does not make effects
  exactly-once, but an effect is made at most as often as its delegation was
  begun. `DelegationsReturn`: every delegation ends, whatever turns the model
  makes; `LoopsRunDown`: because each step makes `LoopLeft` smaller.

## 4. Bounds

| Bound | Where | Why it is enough |
|---|---|---|
| `MaxTime` | guard of `Tick` | in `queue`, three leases and two backoffs run out before 7; in `conversation` and `two_runs`, a lease runs out and is reaped; in `runner` and `liveness` the bound of 20 is never reached |
| `MaxBump` | guard of `Heartbeat` | one bump already makes a lease longer than asked for; in `runner` and `liveness` 6 is never reached, so the guard blocks nothing; in `two_runs`, 2 |
| clock stops without a deadline | `DeadlineAhead` | times are only compared with leases and backoffs |
| `MaxSteps`, `MaxCalls` of `Runner` | constants | two full turns of two calls and the limit are reached |
| `SPECIALIST_MAX_STEPS`, `Turns`, `MaxCalls` of `Delegation` | constants | a full turn, then one that begins below the limit and ends beyond it |
| `MaxPasses` | guard of `Delegate` | two executions of one delegation are what can overlap or differ. In `Runner` a delegation is one tool call, executed at most `max_attempts` times (`AttemptsBoundEffects`), so a bound there is one the system has; the theorems hold for any |
| `MaxTickets` | guard of `CreateTicket` | 3 in `support`: one more than the overshoot allows with cap 1 and two connections; 2 in `delegation`, where one ticket type allows one |
| `MaxDay` 2 | guard of `NextDay` | a message is repeated on the same day and on the next one |
| `Apart` | constraint of `support` | messages and days touch no row that the other calls read, so they are explored in the behaviours without tickets; `delegation` explores both together |

Runs, workers and calls are interchangeable, so the safety runs use symmetry;
the runs with liveness do not. The queue runs switch deadlock checking off: a
queue whose runs are all terminal and whose clients are silent rests. `runner`,
`two_runs`, `liveness`, `support` and `delegation` check it.

**Fairness.** In `liveness`, each worker keeps taking steps, because
`run_forever` and `scripts/worker.py` loop and every database and provider call
returns; a dead process is started again; time passes. Nothing is assumed of
clients, and crashes are not prevented. Weak fairness suffices: a worker's step
stays enabled until it is taken, or until a row lock that its holder will give
up. A new process takes a new worker id; in the model, the id of a dead process
that leases nothing stands for it, so the instance has more ids than runs.
In `delegation`, the loop of a specialist goes on (`Loop`) for the same reason;
nothing is assumed of processes that start or die, nor that a delegation is
begun. In `client_waits` only the client's polling is fair, and that is all its
counterexample needs: the client polls for ever and never stops waiting.

## 5. Where code and documentation differ

* `enqueue_atomic`: the user message is committed before the run. A client that
  dies in between leaves a question that no run answers (`README.md:69`).
* `succeeds_for_owner`: `complete` gives its lock up with the reply's commit. If
  the lease runs out and another worker claims the run before the last update,
  that run is set to succeeded under its new owner
  (`test_complete_only_works_for_the_owner`).
* `at_most_once`: effect and key do not commit together. After a crash between
  them, or with two workers on one key, the effect runs again; unique keys stop
  most repetitions, but a ticket that was escalated meanwhile is opened anew, and
  a message is sent again on the next day (`app/support_db.py:167`).
* `cap`: both counts of open tickets are read in one snapshot that may be older
  than tickets of other workers (`README.md:24`).
* `client_waits`: `scripts/ask.py` polls on a connection without autocommit
  (`app/db.py:19`) whose reads end no transaction (`app/db.py:53`). If its first
  read comes before the run has ended, it sees that snapshot for ever, although
  its first line says that it waits for the answer.

The models also show smaller ones that no run is spent on:

* The id that `create_ticket` reports as created is the account's newest ticket,
  which may be another worker's; the one it reports as already open is the oldest
  of the type, which may be one that was assigned before.
* `assign_moderator` and `escalate_ticket` take any ticket id
  (`app/tools/support_tools.py:178`, `:197`) and their statements compare no
  account (`app/support_db.py:127-152`), although the toolset is "bound to ONE
  handle. The model cannot pick a different user" (`app/tools/support_tools.py:111`),
  the specialist is told that it is "acting for user {handle} only"
  (`app/agents.py:29`) and the supervisor that it "Acts only for the current user"
  (`app/agents.py:111`). In the run `support` one account moves the other's ticket.
* A duplicate message may end as `tool_failed` when its row is missing in the
  snapshot of the call.
* When two workers execute one key, the refusal of the one that found the cap
  reached may be stored although the other one opened a ticket under that key.
* The last update of `complete` turns a cancelled, failed or dead run into a
  succeeded one, after a client may have reported the first status.
* With two questions queued in one thread, a run's model sees the other question,
  and a client may print the other run's answer.

## 6. Proofs

Every invariant, action property and refinement of section 3 is a theorem, for
any sets of runs, workers, threads, calls, accounts, types, keys and turns, any
limits, and any natural bounds, from the named assumptions in the modules
(`AttemptsAssumption`, `StepsAssumption`, `DelegationAssumption` and the like:
positive limits, a finite set of workers where they are counted, a key for every
call). `MaxCalls`, the most calls of one turn, is a bound of the models: the code
has none, and the lengths that `AttemptLeft` and `LoopLeft` count depend on it.

| Module | Theorems, and the property each states |
|---|---|
| `RunStoreProofs` | `QueueCorrect` (`QueueInv`), `StoreTyping` (`TypeOK`), `TerminalStaysTerminal` (`NoResurrection`), `LeasesAreExclusive` (`LeaseIsExclusive`), `RepliesComeFromHolders` (`ReplyFromHolder`) |
| `JobQueueProofs` | `RepliesAreBounded` (`RepliesBoundedByAttempts`), `SucceededRunsHaveReplies` (`SucceededHasReply`), `StoreImplementsJobQueue` (`ImplementsJobQueue`) |
| `ClientProofs` | `AnswersComeWithReplies` (`AnswerComesWithReply`), `ClientTyping` (`ClientTypeOK`) |
| `RunnerProofs` | `RunnerImplementsRunStore` (`ImplementsRunStore`), `RunnerTyping` (`RunnerTypeOK`), `LogsAreWellFormed` (`StepLogWellFormed`), `CallsAreRepeatedExactly` (`OneCallPerStep`), `ResumesLoseNothing` (`ResumedNoEarlier`) |
| `WorkerProofs` | `WorkersHoldOneRun` (`OneRunPerWorker`), `StrayWritesAreBounded` (`StrayWritesBounded`), `CancelsAreNoticed` (`CancelStopsNextStep`), `RepliesStandInTheLog` (`RepliesAreLogged`), `ExecutionsAreBounded` (`ExecutionsBounded`), `AttemptsEnd` (`AttemptsRunDown`), `AttemptsAreShort`, `RunnerImplementsJobQueue` (`ImplementsJobQueue`), `AttemptsBoundEffects` |
| `SupportDbProofs` | `ReplayedResultsAreTrue` (`StoredResultsAreTrue`), `StatusAgrees` (`StatusMatchesTables`), `NoSecondOpenTicket` (`OneOpenPerType`), `OvershootIsBounded` (`CapOvershootBounded`), `Typing` (`SupportTypeOK`) |
| `DelegationProofs` | `SpecialistsImplementSupportDb` (`ImplementsSupportDb`), `ToldTheStoredResult` (`HeardIsStored`), `FirstTimeIsCarriedOut` (`NotReplayedAtFirst`), `EffectsAreBounded` (`EffectsBoundedByPasses`), `LoopsEnd` (`LoopsRunDown`), `SpecialistsAreTyped` (`DelegationTypeOK`), `SpecialistsKeepTheTables`, `ModelsAreToldTheTruth` |

**The queue.** The inductive invariant is `TypeOK /\ QueueInv`. The bound on
attempts alone is not inductive: that `claim_next` does not exceed it needs that
*queued* rows have an attempt left, which needs that the reaper and `fail_attempt`
compare, and that `request_cancel` and `complete`, which write blindly, never
write to a row that is not there and never write `queued` or `running`. That a
reply comes from a holder needs that the row locked by `complete` stays its
caller's: every other operation on the row waits for the lock (`LockedIsHeld`).
Preservation is proved once for steps that rewrite a single unlocked row
(`RowStep`) and once for steps that only start or end calls (`CallStep`); each
action is then an instance. The action properties are read off `MovesNext`, which
says how any step may change any row.

**Replies.** The bound needs an invariant of its own, `RepliesInv`: a worker that
holds a run and may still post for it finds fewer replies than attempts. A
worker may not (`Spent`) once it has posted and not yet set the status, or once
it has died; a claim makes a holder that may, but counts an attempt too
(`RoomKept`). Two workers never post in one attempt, because the one that posts
still holds the run (`LockedIsHeld`) and a run names one owner.

**RunStore implements JobQueue.** With these invariants each action is one action
of the abstract queue or leaves it alone: a reap is `RunOut` of all expired rows,
the unguarded updates are `End` of a job that has not ended or a stutter. The
last update of `complete` may come after the lease was lost; that its run still
has a reply needs that a call past `CompleteReply` has posted one, and that no
message is ever removed (`RepliesGrow`).

**The client** adds one invariant, `ClientInv`: a client that waits has its run
inserted, rows stay, and its snapshot pairs the status with the history of the
same moment.

**Runner implements RunStore.** Each step of a worker is an operation of the store
on the worker's own run or leaves the store alone. All it needs is that a worker
past its claim has a run (`RunsKnown`).

**The step log.** `StepLogProofs` says what the recursive function `Rebuilt` makes
of a well-formed log of any length: the seq and the pending calls *follow* the log
(`Follows`: they are the end and the calls of one recorded turn, and each call of
it that is not pending has its answer recorded; one that is pending may have been
answered by somebody else meanwhile). The library's induction
theorems take an operator as parameter, so induction is done by hand: the least
number for which a statement fails (`LeastOf`).

**Workers.** `LogInv` says that logs are well-formed, that every worker follows
its run's log at every program counter (`Placed`), although others write it, and
that every executed call was asked for at its seq. It is preserved because a
worker writes only where `uq_run_step` finds no row, and what it writes follows
the log it knows. `LeaseInv` adds the lease: a worker holds a lease only by its own
claim of the run it is at, a worker without it is stopped by the next heartbeat,
which comes before every step it begins, and the flag read after the commit of
a heartbeat or a record is the flag of now.

**How often a call is executed.** `ExecutionsBounded` is not inductive: it says
nothing of a worker that is about to execute a call once more. `ExecutionsInv`
counts those too. A worker is `Able` to execute a step if it is in an attempt and
has the step still before it, and for every run and step, the executions and the
able workers together are no more than the attempts. A claim counts an attempt
and makes one worker able; an execution uses its worker's right up; and a worker
comes back to no step it has passed, because the calls it takes from the log or
from a turn lie beyond its seq, and because a refused record ends its attempt.
Workers whose lease is gone keep their right, which is why the bound is the
number of claims and not one.

**How long an attempt is.** `AttemptLeft` is a variant: rounds of the loop, one
for each pending call and `MaxCalls + 1` for each step below the limit, and four
steps in a round. A turn that begins below `MAX_STEPS` takes at least one of those
off (`TurnsRunDown`). What `rebuild` finds has few calls pending because the
pending ones are calls of one recorded turn (`RoundsFew`, from the invariant of
the log), so the bound holds of a resumed attempt as well. With weak fairness of a
worker's steps, a variant is what termination rests on; the temporal conclusion
itself, `EveryRunEnds`, stays with TLC.

**What the queue promises, of the running system.** The two refinements compose
(`RunnerImplementsJobQueue`), and the bounds meet: `AttemptsBoundEffects` says
that `max_attempts` bounds the executions of every call and the replies of every
run, whatever crashes, expires or is taken over.

**Support tables.** Everything rests on tables that only grow: a snapshot is an
older version of the committed tables (`Grows`), so what was true of a ticket, a
message, a full account (`CapStays`) or a stored key when a result was made is true
when it is replayed. For
the cap, each connection whose snapshot is too old to see the cap reached counts
as one more ticket to come; the one that inserted last is never among them.

**Delegations.** A specialist in the middle of a side effect is at the call that
its key was made of (`AgentFine`), and the step limit is tested before every turn,
so every key it uses is one of `Keys` and every step is one of `SupportDb`'s.
What it heard is stored because a stored key is never overwritten. That nothing
is replayed at first needs `FirstInv`: while a delegation was begun once, one
worker is in it, and every stored key of it is at a position that this worker has
passed. The bound on effects is proved like the one on executions: a worker that
executes the delegation and has the key's position still before it, its effect not
yet committed, may make the effect (`MayMake`), and for every key, the effects made
and the workers that may make one are no more than the passes (`EffectsInv`). A
tool that fails after its commit is not called again under the key, which is what
`Counted` says of every step of the tools. `LoopLeft` is the variant of the loop, as
`AttemptLeft` is of an attempt. What SupportDb promises holds of the specialists
by the refinement (`SpecialistsKeepTheTables`), and with `HeardIsStored` it makes
what every model was told true (`ModelsAreToldTheTruth`), in the sense of
`StoredResultsAreTrue`.

**Only model-checked**: liveness (`EveryRunEnds`, `DelegationsReturn`), whose
variants are proved but whose fairness is out of the proof system's reach, and the
counterexamples of section 5.

## 7. Left out

* Texts, token counts, error codes, latencies and the columns no statement reads.
  What a model makes of the texts is not modelled: it answers any turn.
* Runs and tickets are never deleted, tickets never closed by the code.
* `dispatch` converts arguments before it calls a tool; the models begin after
  that, with valid arguments or a refusal. A call is one value, so `12` and
  `"12"`, which `_coerce` makes equal and `canonical_json` does not, are two keys
  of one effect: `SupportDb` allows any caller to use two keys for one call.
* The hash of a key, the spelling of numbers and of JSON: pure functions without
  state, which no property here tells apart. `call_check`, a test of one argument
  of a lookup, changes nothing.
* The seeded ticket belongs to an account the models do not use.
* InnoDB is modelled by row locks, consistent reads from snapshots, unique and
  foreign keys and rollback of one side of a deadlock. The deadlock of two gap
  locks is an action (`CreateDeadlock`); those between updates or through the lock
  that a foreign key takes on its parent row, and lock wait timeouts, are not
  separate: they look like a call that fails or crashes (`Fail`, `EnqueueAbort`,
  `ToolFailed`, `CrashCall`).
* Gemini is outside, the scripted providers serve the demo and the tests; the
  demo and the terminal output have no state that anything depends on.

## 8. Status

The plan the development started from is carried out: the queue and what it
promises, the conversations, the client, the runner with its log, the tools'
tables, the specialists, the proofs of all their safety properties, and the
variants of both loops.

`Runner` and `Delegation` are not composed step by step. In `Runner` a delegation
is one `ExecTool`, which may be repeated by any worker; in `Delegation` any worker
may begin it again at any time. Two theorems of all runs join them:
`OneCallPerStep`, whoever repeats a supervisor's call repeats the same one at the
same seq, so with the same parent key; and `ExecutionsBounded`, it is repeated at
most once per attempt. A pass of `Delegation` is an execution of `Runner`, so with
`EffectsBoundedByPasses` no effect is made more than `max_attempts` times. This
last step, across the two modules, is an argument and not a theorem. The product of both state spaces would be
far beyond enumeration and add no row that both write.

What could be added is the conversion of arguments and keys (`_coerce`,
`_normalise`) as operators over a few spellings, and the demo's scenario as a
fixed behaviour of `Delegation`.
