------------------------------ MODULE RunStore ------------------------------
(***************************************************************************)
(* The run queue and the conversations of the schema `agent`, as           *)
(* app/memory.py keeps them, seen through app/db.py.                       *)
(*                                                                         *)
(* A step is one database transaction, or the part of one between two      *)
(* commits.  db.transaction commits the whole CONNECTION, so a             *)
(* transaction opened inside another one (append_message inside enqueue    *)
(* and inside complete) commits the outer one's work and releases its row  *)
(* locks: those two operations take several steps.  request_cancel reads   *)
(* without a lock and writes later.  Every other operation holds its row   *)
(* with SELECT ... FOR UPDATE to its only commit and is one step.          *)
(*                                                                         *)
(* The callers are the most general ones: any worker process may call any  *)
(* operation on any run at any time, one call after the other on its own   *)
(* connection.  Runner.tla restricts them to the order of runner.py.       *)
(*                                                                         *)
(* Time is a natural number; its unit is the 0.001 s by which heartbeat    *)
(* pushes a lease that would not grow.  error_code, token counts, texts    *)
(* and the *_at columns that no statement reads are left out.              *)
(***************************************************************************)
EXTENDS Integers, Sequences, FiniteSets

CONSTANTS
    Runs,            \* ids of run rows, present and future
    Workers,         \* worker ids, one per worker process
    Threads,         \* conversations
    ThreadOf,        \* run.thread_id
    NULL,            \* SQL NULL
    MaxAttempts,     \* run.max_attempts
    LeaseSeconds,    \* the lease a worker asks for
    BackoffSeconds,  \* backoff_seconds of fail_attempt
    MaxBump,         \* bound: how far heartbeats may push a lease beyond LeaseSeconds
    MaxTime          \* bound: the clock stops here

Backoff(attempts) == BackoffSeconds * 2^(attempts - 1)

ASSUME ThreadsAssumption == ThreadOf \in [Runs -> Threads]
ASSUME NullAssumption == NULL \notin Workers /\ NULL \notin Nat /\ NULL \notin Runs
ASSUME AttemptsAssumption == MaxAttempts \in Nat \ {0}
ASSUME TimesAssumption == /\ LeaseSeconds \in Nat \ {0}
                          /\ MaxBump \in Nat
                          /\ MaxTime \in Nat
                          /\ \A a \in 1 .. MaxAttempts : Backoff(a) \in Nat

VARIABLES
    run,         \* the table run
    message,     \* the table message: per thread, ordered by seq
    enqueuing,   \* progress of the enqueue call that creates the run
    completing,  \* progress of each worker's complete call
    cancelling,  \* the status a request_cancel call has read and not yet acted on
    now          \* clock()

storeVars == <<run, message, enqueuing, completing, cancelling, now>>

-----------------------------------------------------------------------------

TERMINAL == {"succeeded", "failed", "cancelled", "dead"}
Status == {"queued", "running"} \cup TERMINAL

RunRow == [status : Status \cup {"absent"}, attempts : Nat, available_at : Nat,
           lease_owner : Workers \cup {NULL}, lease_until : Nat \cup {NULL},
           cancel_requested : BOOLEAN]
\* (cancel_requested without its DEFAULT 0)
NoRowWithoutDefault == [status |-> "absent", attempts |-> 0, available_at |-> 0,
                        lease_owner |-> NULL, lease_until |-> NULL, cancel_requested |-> NULL]
NoRow == [status |-> "absent", attempts |-> 0, available_at |-> 0,
          lease_owner |-> NULL, lease_until |-> NULL, cancel_requested |-> FALSE]

Message == [role : {"user", "model"}, run : Runs]

\* enqueue: not called; MAX(seq) + 1 read; message committed; row inserted; given up
Enqueuing == [phase : {"idle", "reading", "messaged", "done", "aborted"}, seq : Nat]

\* complete: no call; row locked and seq read; reply committed and the lock gone;
\* "crashed" is a process that died, whose worker id is in no one's hands
Completing == [phase : {"none", "locked", "replied", "crashed"},
               run : Runs \cup {NULL}, seq : Nat]
NoCompletion == [phase |-> "none", run |-> NULL, seq |-> 0]

TypeOK == /\ run \in [Runs -> RunRow]
          /\ message \in [Threads -> Seq(Message)]
          /\ enqueuing \in [Runs -> Enqueuing]
          /\ completing \in [Workers -> Completing]
          /\ cancelling \in [Runs -> {"none", "queued", "running"}]
          /\ now \in Nat

-----------------------------------------------------------------------------
(* The conditions the statements test, and the row updates they share.     *)
(* A definition whose comment is in parentheses is a slip that the one     *)
(* after it does not make: no specification uses it, and a property is     *)
(* worth checking when it fails with the slip in the place of the original.*)

\* (the owner is not compared)
HoldsAnyone(w, r) == run[r].status = "running"
\* (the status is not tested: a cancelled row may still name an owner)
HoldsByOwner(w, r) == run[r].lease_owner = w
\* The check every guarded operation makes on the row it has locked.
Holds(w, r) == run[r].status = "running" /\ run[r].lease_owner = w

\* (no FOR UPDATE in complete)
NeverLocked(r) == FALSE
\* complete is the only operation that keeps a row lock across a step.
Locked(r) == \E w \in Workers : completing[w].phase = "locked" /\ completing[w].run = r

\* A FOR UPDATE without an index scans, and waits for, every row.
AnyLocked == \E r \in Runs : Locked(r)

\* The worker process is between two calls on its connection.
Idle(w) == completing[w].phase = "none"

\* (claim_next does not test the status)
AvailableInAnyStatus(r) == run[r].status # "absent" /\ run[r].available_at <= now
Available(r) == run[r].status = "queued" /\ run[r].available_at <= now
Expired(r) == run[r].status = "running" /\ run[r].lease_until < now

\* (the lease columns are kept)
ReleasedWithLease(row, status) == [row EXCEPT !.status = status]
Released(row, status) ==
    [row EXCEPT !.status = status, !.lease_owner = NULL, !.lease_until = NULL]

NextSeq(t) == Len(message[t]) + 1
Posted(r, role) ==
    [message EXCEPT ![ThreadOf[r]] = Append(@, [role |-> role, run |-> r])]

-----------------------------------------------------------------------------
(* enqueue: append_message reads MAX(seq) + 1, inserts, and commits; only  *)
(* then is the run inserted.                                               *)

EnqueueBegin(r) ==
    /\ enqueuing[r].phase = "idle"
    /\ enqueuing' = [enqueuing EXCEPT ![r] = [phase |-> "reading", seq |-> NextSeq(ThreadOf[r])]]
    /\ UNCHANGED <<run, message, completing, cancelling, now>>

EnqueueMessage(r) ==
    /\ enqueuing[r].phase = "reading"
    /\ enqueuing[r].seq = NextSeq(ThreadOf[r])
    /\ message' = Posted(r, "user")
    /\ enqueuing' = [enqueuing EXCEPT ![r] = [phase |-> "messaged", seq |-> 0]]
    /\ UNCHANGED <<run, completing, cancelling, now>>

EnqueueRun(r) ==
    /\ enqueuing[r].phase = "messaged"
    /\ run' = [run EXCEPT ![r] = [NoRow EXCEPT !.status = "queued", !.available_at = now]]
    /\ enqueuing' = [enqueuing EXCEPT ![r].phase = "done"]
    /\ UNCHANGED <<message, completing, cancelling, now>>

\* The seq was taken meanwhile (uq_message), or the caller died.
EnqueueAbort(r) ==
    /\ enqueuing[r].phase \in {"reading", "messaged"}
    /\ enqueuing' = [enqueuing EXCEPT ![r] = [phase |-> "aborted", seq |-> 0]]
    /\ UNCHANGED <<run, message, completing, cancelling, now>>

-----------------------------------------------------------------------------
(* The lease: claim_next, heartbeat, reap_expired.                         *)

\* created_at breaks ties of available_at; it has a resolution of one second,
\* so the choice among equals is left open.
ClaimNext(w, r) ==
    /\ Idle(w)
    /\ ~AnyLocked
    /\ Available(r)
    /\ \A q \in Runs : Available(q) => run[r].available_at <= run[q].available_at
    /\ run' = [run EXCEPT ![r].status = "running", ![r].lease_owner = w,
                          ![r].lease_until = now + LeaseSeconds, ![r].attempts = @ + 1]
    /\ UNCHANGED <<message, enqueuing, completing, cancelling, now>>

Heartbeat(w, r) ==
    LET newUntil == now + LeaseSeconds
        current == run[r].lease_until
    IN  /\ Idle(w)
        /\ ~Locked(r)
        /\ Holds(w, r)
        /\ current < newUntil + MaxBump
        /\ run' = [run EXCEPT ![r].lease_until =
                       IF newUntil <= current THEN current + 1 ELSE newUntil]
        /\ UNCHANGED <<message, enqueuing, completing, cancelling, now>>

\* (a run without attempts left is skipped)
ReapRetriesOnly ==
    /\ ~AnyLocked
    /\ run' = [r \in Runs |->
                 IF ~Expired(r) \/ run[r].attempts >= MaxAttempts THEN run[r]
                 ELSE [Released(run[r], "queued") EXCEPT !.available_at = now]]
    /\ UNCHANGED <<message, enqueuing, completing, cancelling, now>>

ReapExpired ==
    /\ ~AnyLocked
    /\ run' = [r \in Runs |->
                 IF ~Expired(r) THEN run[r]
                 ELSE IF run[r].attempts >= MaxAttempts THEN Released(run[r], "dead")
                 ELSE [Released(run[r], "queued") EXCEPT !.available_at = now]]
    /\ UNCHANGED <<message, enqueuing, completing, cancelling, now>>

-----------------------------------------------------------------------------
(* complete: lock the row and read MAX(seq) + 1; append_message inserts    *)
(* the reply and commits, which also gives the lock back; then the row is  *)
(* set to succeeded by an UPDATE that tests neither owner nor status.      *)

\* The snapshot the seq is read in may be older than the lock, so n may be taken.
CompleteBegin(w, r, n) ==
    /\ Idle(w)
    /\ ~Locked(r)
    /\ Holds(w, r)
    /\ n \in 1 .. NextSeq(ThreadOf[r])
    /\ completing' = [completing EXCEPT ![w] = [phase |-> "locked", run |-> r, seq |-> n]]
    /\ UNCHANGED <<run, message, enqueuing, cancelling, now>>

CompleteReply(w) ==
    LET r == completing[w].run IN
    /\ completing[w].phase = "locked"
    /\ completing[w].seq = NextSeq(ThreadOf[r])
    /\ message' = Posted(r, "model")
    /\ completing' = [completing EXCEPT ![w] = [phase |-> "replied", run |-> r, seq |-> 0]]
    /\ UNCHANGED <<run, enqueuing, cancelling, now>>

\* (the refusal is swallowed)
CompleteAnyway(w) ==
    /\ completing[w].phase = "locked"
    /\ completing[w].seq # NextSeq(ThreadOf[completing[w].run])
    /\ completing' = [completing EXCEPT ![w] = [phase |-> "replied", run |-> @.run, seq |-> 0]]
    /\ UNCHANGED <<run, message, enqueuing, cancelling, now>>

\* uq_message refuses the insert: rollback, and the exception leaves complete.
CompleteCollide(w) ==
    /\ completing[w].phase = "locked"
    /\ completing[w].seq # NextSeq(ThreadOf[completing[w].run])
    /\ completing' = [completing EXCEPT ![w] = NoCompletion]
    /\ UNCHANGED <<run, message, enqueuing, cancelling, now>>

CompleteFinish(w) ==
    LET r == completing[w].run IN
    /\ completing[w].phase = "replied"
    /\ ~Locked(r)
    /\ run' = [run EXCEPT ![r] = Released(@, "succeeded")]
    /\ completing' = [completing EXCEPT ![w] = NoCompletion]
    /\ UNCHANGED <<message, enqueuing, cancelling, now>>

-----------------------------------------------------------------------------
(* Cancelling: request_cancel reads the status in one step and acts on     *)
(* what it read in another; mark_cancelled is guarded.                     *)

RequestCancelRead(r) ==
    /\ cancelling[r] = "none"
    /\ run[r].status \in {"queued", "running"}
    /\ cancelling' = [cancelling EXCEPT ![r] = run[r].status]
    /\ UNCHANGED <<run, message, enqueuing, completing, now>>

RequestCancelWrite(r) ==
    /\ cancelling[r] # "none"
    /\ ~Locked(r)
    /\ run' = IF cancelling[r] = "queued"
              THEN [run EXCEPT ![r].status = "cancelled"]
              ELSE [run EXCEPT ![r].cancel_requested = TRUE]
    /\ cancelling' = [cancelling EXCEPT ![r] = "none"]
    /\ UNCHANGED <<message, enqueuing, completing, now>>

MarkCancelled(w, r) ==
    /\ Idle(w)
    /\ ~Locked(r)
    /\ Holds(w, r)
    /\ run' = [run EXCEPT ![r] = Released(@, "cancelled")]
    /\ UNCHANGED <<message, enqueuing, completing, cancelling, now>>

-----------------------------------------------------------------------------
(* fail_attempt: back to the queue with exponential backoff, or terminal.  *)

FailAttempt(w, r, retryable) ==
    /\ Idle(w)
    /\ ~Locked(r)
    /\ Holds(w, r)
    /\ run' = [run EXCEPT ![r] =
                 IF retryable /\ @.attempts < MaxAttempts
                 THEN [Released(@, "queued") EXCEPT !.available_at = now + Backoff(run[r].attempts)]
                 ELSE Released(@, IF retryable THEN "dead" ELSE "failed")]
    /\ UNCHANGED <<message, enqueuing, completing, cancelling, now>>

-----------------------------------------------------------------------------
(* The environment.                                                        *)

\* The process dies: an open transaction is rolled back, which frees the row.
Crash(w) ==
    /\ completing[w].phase # "crashed"
    /\ completing' = [completing EXCEPT ![w] = [phase |-> "crashed", run |-> NULL, seq |-> 0]]
    /\ UNCHANGED <<run, message, enqueuing, cancelling, now>>

\* A new process takes a new worker id; the id of a dead one stands for it as
\* soon as it leases no run.
Restart(w) ==
    /\ completing[w].phase = "crashed"
    /\ \A r \in Runs : ~Holds(w, r)
    /\ completing' = [completing EXCEPT ![w] = NoCompletion]
    /\ UNCHANGED <<run, message, enqueuing, cancelling, now>>

\* Only differences of times are ever compared, so nothing is lost by stopping
\* the clock while no lease and no backoff is running.
DeadlineAhead == \E r \in Runs : \/ run[r].status = "running" /\ run[r].lease_until >= now
                                 \/ run[r].status = "queued" /\ run[r].available_at > now

Tick ==
    /\ DeadlineAhead
    /\ now < MaxTime
    /\ now' = now + 1
    /\ UNCHANGED <<run, message, enqueuing, completing, cancelling>>

-----------------------------------------------------------------------------

StoreInit ==
    /\ run = [r \in Runs |-> NoRow]
    /\ message = [t \in Threads |-> <<>>]
    /\ enqueuing = [r \in Runs |-> [phase |-> "idle", seq |-> 0]]
    /\ completing = [w \in Workers |-> NoCompletion]
    /\ cancelling = [r \in Runs |-> "none"]
    /\ now = 0

ClientNext == \E r \in Runs :
    \/ EnqueueBegin(r) \/ EnqueueMessage(r) \/ EnqueueRun(r) \/ EnqueueAbort(r)
    \/ RequestCancelRead(r) \/ RequestCancelWrite(r)

LeaseNext == \E w \in Workers, r \in Runs :
    \/ ClaimNext(w, r)
    \/ Heartbeat(w, r)
    \/ MarkCancelled(w, r)
    \/ \E retryable \in BOOLEAN : FailAttempt(w, r, retryable)
    \/ \E n \in {1, NextSeq(ThreadOf[r])} : CompleteBegin(w, r, n)  \* 1: as stale as any

\* A process that holds no run and is in no call loses nothing by dying.
Busy(w) == ~Idle(w) \/ \E r \in Runs : Holds(w, r)

WorkerNext == \E w \in Workers :
    \/ CompleteReply(w) \/ CompleteCollide(w) \/ CompleteFinish(w)
    \/ Busy(w) /\ Crash(w)
    \/ Restart(w)

StoreNext == ClientNext \/ LeaseNext \/ WorkerNext \/ ReapExpired \/ Tick

StoreSpec == StoreInit /\ [][StoreNext]_storeVars
-----------------------------------------------------------------------------
(* Properties.                                                             *)

(***************************************************************************)
(* What each row satisfies between transactions.  A queued run has no      *)
(* lease and an attempt left, so claim_next never exceeds max_attempts; a  *)
(* running run has an owner and a lease_until, without which the test      *)
(* lease_until < now of reap_expired would be NULL and the run lost.       *)
(***************************************************************************)
RowOK(r) ==
    /\ run[r].status = "absent" => run[r].attempts = 0
    /\ run[r].status = "queued" => /\ run[r].lease_owner = NULL
                                   /\ run[r].lease_until = NULL
                                   /\ run[r].attempts < MaxAttempts
    /\ run[r].status = "running" => /\ run[r].lease_owner \in Workers
                                    /\ run[r].lease_until \in Nat
                                    /\ run[r].attempts > 0
    /\ run[r].attempts <= MaxAttempts

(***************************************************************************)
(* Calls in flight against the rows they will write: the row complete has  *)
(* locked is still leased to its caller, and no write to come would create *)
(* a row that enqueue has not inserted or insert one a second time.        *)
(***************************************************************************)
WritesTargetRows ==
    /\ \A w \in Workers : completing[w].phase \in {"locked", "replied"} =>
           completing[w].run \in Runs /\ run[completing[w].run].status # "absent"
    /\ \A r \in Runs : cancelling[r] # "none" => run[r].status # "absent"

LockedIsHeld ==
    \A w \in Workers : completing[w].phase = "locked" => Holds(w, completing[w].run)

RowsAreEnqueued ==
    \A r \in Runs : enqueuing[r].phase = "done" <=> run[r].status # "absent"

CallsOK == WritesTargetRows /\ LockedIsHeld /\ RowsAreEnqueued

\* The inductive invariant of the queue: rows and calls in flight together.
QueueInv == CallsOK /\ \A r \in Runs : RowOK(r)

(***************************************************************************)
(* A run that reached a terminal status is never queued or running again   *)
(* and gets no further attempt, although complete and request_cancel write *)
(* statuses without a guard: a late one of them may overwrite the end that *)
(* a client has read, but only with succeeded or cancelled.                *)
(***************************************************************************)
NoResurrection ==
    [][\A r \in Runs : run[r].status \in TERMINAL =>
          /\ run'[r].status \in {run[r].status, "succeeded", "cancelled"}
          /\ run'[r].attempts = run[r].attempts]_storeVars

(***************************************************************************)
(* While a run is leased, its lease changes hands only through the queue,  *)
(* and only grows: claim_next and heartbeat never give a running run to a  *)
(* second worker or shorten the lease of the first.                        *)
(***************************************************************************)
LeaseIsExclusive ==
    [][\A r \in Runs : run[r].status = "running" /\ run'[r].status = "running" =>
          /\ run'[r].lease_owner = run[r].lease_owner
          /\ run'[r].attempts = run[r].attempts
          /\ run'[r].lease_until >= run[r].lease_until]_storeVars

Replies(r) == {i \in DOMAIN message[ThreadOf[r]] :
                  message[ThreadOf[r]][i] = [role |-> "model", run |-> r]}

\* The row lock of complete outlives the test of the lease until the reply is
\* committed: a reply is only ever posted while some worker holds the run.
ReplyFromHolder ==
    [][\A r \in Runs : Replies(r)' # Replies(r) => \E w \in Workers : Holds(w, r)]_storeVars

\* complete posts at most one reply per attempt, even when the process dies
\* between the reply and the status.
RepliesBoundedByAttempts == \A r \in Runs : Cardinality(Replies(r)) <= run[r].attempts

\* complete commits the reply before the status, and gives up when the reply is
\* refused: whoever reads succeeded finds a reply in the same snapshot.
SucceededHasReply == \A r \in Runs : run[r].status = "succeeded" => Replies(r) # {}

-----------------------------------------------------------------------------
(* The queue that the table, the conversations and the calls implement.    *)

\* All terminal statuses are one end; an owner counts while the run is running.
JobState(status) == CASE status \in TERMINAL -> "ended"
                      [] status = "running" -> "leased"
                      [] OTHER -> status

JobOf(r) == [state |-> JobState(run[r].status),
             owner |-> IF run[r].status = "running" THEN run[r].lease_owner ELSE NULL,
             attempts |-> run[r].attempts]

Queue == INSTANCE JobQueue WITH
            Jobs <- Runs, Owners <- Workers, Nobody <- NULL,
            job <- [r \in Runs |-> JobOf(r)],
            answers <- [r \in Runs |-> Cardinality(Replies(r))]

\* Unguarded updates, nested commits, expired leases and crashes never show as
\* anything but the life of a job.
ImplementsJobQueue == Queue!QueueSpec

-----------------------------------------------------------------------------
(* What the repository says and the code does not do.                      *)

\* README: "enqueue saves the user message and the run in one transaction": a
\* call that gave up leaves no message behind.
EnqueueIsAtomic ==
    \A r \in Runs : enqueuing[r].phase = "aborted" =>
        \A i \in DOMAIN message[ThreadOf[r]] :
            message[ThreadOf[r]][i] # [role |-> "user", run |-> r]

\* test_complete_only_works_for_the_owner: a run is set to succeeded only while
\* it is leased to the worker that calls complete.
SucceedsOnlyForOwner ==
    [][\A w \in Workers : completing[w].phase = "replied" /\ completing'[w] = NoCompletion
          => Holds(w, completing[w].run)]_storeVars
=============================================================================
