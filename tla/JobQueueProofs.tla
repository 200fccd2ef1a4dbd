--------------------------- MODULE JobQueueProofs ---------------------------
(***************************************************************************)
(* RunStore implements JobQueue: every step of the table, the              *)
(* conversations and the calls in flight is a step of the abstract queue   *)
(* or leaves it alone.                                                     *)
(*                                                                         *)
(* For that, complete posts at most one reply per attempt.  The bound      *)
(* alone is not inductive: a worker that holds a run and may still post    *)
(* for it needs room for one more.  It is spent when the worker has posted *)
(* (and not yet set the status) or has died.  And a run that succeeded has *)
(* a reply.                                                                *)
(***************************************************************************)
EXTENDS RunStoreProofs, FiniteSetTheorems

USE ThreadsAssumption, NullAssumption, AttemptsAssumption, TimesAssumption
USE DEF storeVars

-----------------------------------------------------------------------------
(* One reply per attempt.                                                  *)

\* The worker can post no reply for the run in the attempt it is in.
Spent(w, r) ==
    \/ completing[w].phase = "crashed"
    \/ completing[w].phase = "replied" /\ completing[w].run = r

ReplyRoom(r) ==
    /\ Cardinality(Replies(r)) <= run[r].attempts
    /\ \A w \in Workers : Holds(w, r) /\ ~Spent(w, r)
                            => Cardinality(Replies(r)) < run[r].attempts

RepliesInv == \A r \in Runs : ReplyRoom(r)

-----------------------------------------------------------------------------

\* The replies of a run can be counted.
LEMMA RepliesFinite ==
    ASSUME TypeOK, NEW r \in Runs
    PROVE  IsFiniteSet(Replies(r)) /\ Cardinality(Replies(r)) \in Nat
<1>1. message[ThreadOf[r]] \in Seq(Message)
  BY DEF TypeOK
<1>2. Len(message[ThreadOf[r]]) \in Nat /\ Replies(r) \subseteq 1 .. Len(message[ThreadOf[r]])
  BY <1>1 DEF Replies
<1>3. IsFiniteSet(1 .. Len(message[ThreadOf[r]]))
  BY <1>2, FS_Interval
<1>4. IsFiniteSet(Replies(r))
  BY <1>2, <1>3, FS_Subset
<1> QED BY <1>4, FS_CardinalityType

\* complete's insert adds one reply of its run.
LEMMA ReplyPosted ==
    ASSUME TypeOK, NEW r \in Runs, message' = Posted(r, "model")
    PROVE  Replies(r)' = Replies(r) \cup {Len(message[ThreadOf[r]]) + 1}
<1> DEFINE t == ThreadOf[r]
           m == [role |-> "model", run |-> r]
<1>1. t \in Threads /\ message[t] \in Seq(Message) /\ m \in Message
  BY DEF TypeOK, Message
<1>2. message'[t] = Append(message[t], m)
  BY <1>1 DEF Posted, TypeOK
<1>3. Replies(r)' = {i \in DOMAIN message'[t] : message'[t][i] = m}
      /\ Replies(r) = {i \in DOMAIN message[t] : message[t][i] = m}
  BY DEF Replies
<1> HIDE DEF m
<1>4. DOMAIN message[t] = 1 .. Len(message[t]) /\ Len(message[t]) \in Nat
  BY <1>1
<1>5. /\ DOMAIN message'[t] = 1 .. Len(message[t]) + 1
      /\ message'[t][Len(message[t]) + 1] = m
      /\ \A i \in DOMAIN message[t] : message'[t][i] = message[t][i]
  BY <1>1, <1>2, <1>4
<1> QED BY <1>3, <1>4, <1>5

\* Room is kept by a step that posts no reply of the run, unless it makes a
\* worker its holder without counting an attempt.
LEMMA RoomKept ==
    ASSUME TypeOK, TypeOK', NEW r \in Runs, ReplyRoom(r), Replies(r)' = Replies(r),
           run'[r].attempts >= run[r].attempts,
           \A w \in Workers : Holds(w, r)' /\ ~Spent(w, r)' =>
               run'[r].attempts > run[r].attempts \/ (Holds(w, r) /\ ~Spent(w, r))
    PROVE  ReplyRoom(r)'
<1> DEFINE n == Cardinality(Replies(r))
<1>1. n \in Nat /\ run[r].attempts \in Nat /\ run'[r].attempts \in Nat
  BY RepliesFinite DEF TypeOK, RunRow
<1>2. n <= run'[r].attempts
  BY <1>1 DEF ReplyRoom
<1>3. ASSUME NEW w \in Workers, Holds(w, r)', ~Spent(w, r)' PROVE n < run'[r].attempts
  BY <1>1, <1>3 DEF ReplyRoom
<1> QED BY <1>2, <1>3 DEF ReplyRoom

\* A step that leaves the row and the replies of the run alone and makes no
\* worker that could not post able to.
LEMMA RoomSame ==
    ASSUME TypeOK, TypeOK', NEW r \in Runs, ReplyRoom(r), Replies(r)' = Replies(r),
           run'[r] = run[r], \A w \in Workers : Spent(w, r) /\ Holds(w, r) => Spent(w, r)'
    PROVE  ReplyRoom(r)'
<1>1. run[r].attempts \in Nat
  BY DEF TypeOK, RunRow
<1>2. run'[r].attempts >= run[r].attempts
  BY <1>1
<1>3. \A w \in Workers : Holds(w, r)' <=> Holds(w, r)
  BY DEF Holds
<1> QED BY <1>2, <1>3, RoomKept

\* A step that takes the run from its holder and keeps its attempts.
LEMMA RoomReleased ==
    ASSUME TypeOK, TypeOK', NEW r \in Runs, ReplyRoom(r), Replies(r)' = Replies(r),
           run'[r].attempts = run[r].attempts, run'[r].status # "running"
    PROVE  ReplyRoom(r)'
<1>1. run'[r].attempts >= run[r].attempts
  BY DEF TypeOK, RunRow
<1>2. \A w \in Workers : ~Holds(w, r)'
  BY DEF Holds
<1> QED BY <1>1, <1>2, RoomKept

-----------------------------------------------------------------------------

\* No run has an attempt or a reply at the start.
LEMMA RoomInit == StoreInit => RepliesInv
<1> SUFFICES ASSUME StoreInit, NEW r \in Runs PROVE ReplyRoom(r)
  BY DEF RepliesInv
<1>1. Replies(r) = {}
  BY DEF StoreInit, Replies
<1>2. run[r].attempts = 0 /\ run[r].status = "absent"
  BY DEF StoreInit, NoRow
<1> QED BY <1>1, <1>2, FS_EmptySet DEF ReplyRoom, Holds

\* enqueue and request_cancel keep the room for replies.
LEMMA RoomClient ==
    ASSUME TypeOK, TypeOK', QueueInv, ClientNext, NEW r \in Runs, ReplyRoom(r)
    PROVE  ReplyRoom(r)'
<1>1. PICK q \in Runs :
         \/ EnqueueBegin(q) \/ EnqueueMessage(q) \/ EnqueueRun(q) \/ EnqueueAbort(q)
         \/ RequestCancelRead(q) \/ RequestCancelWrite(q)
  BY DEF ClientNext
<1>2. completing' = completing
  BY <1>1 DEF EnqueueBegin, EnqueueMessage, EnqueueRun, EnqueueAbort,
              RequestCancelRead, RequestCancelWrite
<1>3. \A w \in Workers : Spent(w, r)' <=> Spent(w, r)
  BY <1>2 DEF Spent
<1>4. CASE EnqueueMessage(q)
  <2>1. Replies(r)' = Replies(r) /\ run' = run
    BY <1>4, RepliesSame DEF EnqueueMessage
  <2> QED BY <2>1, <1>3, RoomSame
<1>5. CASE EnqueueBegin(q) \/ EnqueueAbort(q) \/ RequestCancelRead(q)
  <2>1. Replies(r)' = Replies(r) /\ run' = run
    BY <1>5 DEF EnqueueBegin, EnqueueAbort, RequestCancelRead, Replies
  <2> QED BY <2>1, <1>3, RoomSame
<1>6. CASE EnqueueRun(q)
  <2>1. Replies(r)' = Replies(r)
    BY <1>6 DEF EnqueueRun, Replies
  <2>2. CASE q # r
    <3>1. run'[r] = run[r]
      BY <1>6, <2>2 DEF EnqueueRun, TypeOK
    <3> QED BY <2>1, <3>1, <1>3, RoomSame
  <2>3. CASE q = r
    <3>1. run[r].status = "absent" /\ run[r].attempts = 0
      BY <1>6, <2>3 DEF EnqueueRun, QueueInv, CallsOK, RowsAreEnqueued, RowOK, TypeOK, RunRow
    <3>2. run'[r].status = "queued" /\ run'[r].attempts = 0
      BY <1>6, <2>3 DEF EnqueueRun, NoRow, TypeOK
    <3> QED BY <2>1, <3>1, <3>2, RoomReleased
  <2> QED BY <2>2, <2>3
<1>7. CASE RequestCancelWrite(q)
  <2>1. Replies(r)' = Replies(r)
    BY <1>7 DEF RequestCancelWrite, Replies
  <2>2. CASE q # r
    <3>1. run'[r] = run[r]
      BY <1>7, <2>2 DEF RequestCancelWrite, TypeOK
    <3> QED BY <2>1, <3>1, <1>3, RoomSame
  <2>3. CASE q = r
    <3>1. run[r] \in RunRow
      BY DEF TypeOK
    <3>2. \/ run'[r] = [run[r] EXCEPT !.status = "cancelled"]
          \/ run'[r] = [run[r] EXCEPT !.cancel_requested = TRUE]
      BY <1>7, <2>3 DEF RequestCancelWrite, TypeOK
    <3>3. /\ run'[r].attempts = run[r].attempts /\ run'[r].lease_owner = run[r].lease_owner
          /\ run'[r].status = "running" => run[r].status = "running"
      BY <3>1, <3>2 DEF RunRow
    <3>4. \A w \in Workers : Holds(w, r)' => Holds(w, r)
      BY <3>3 DEF Holds
    <3>5. run'[r].attempts >= run[r].attempts
      BY <3>1, <3>3 DEF RunRow
    <3> QED BY <2>1, <3>4, <3>5, <1>3, RoomKept
  <2> QED BY <2>2, <2>3
<1> QED BY <1>1, <1>4, <1>5, <1>6, <1>7

-----------------------------------------------------------------------------

\* claim_next, heartbeat, mark_cancelled, fail_attempt and the first part of
\* complete keep the room for replies: a claim makes a holder and counts an
\* attempt.
LEMMA RoomLease ==
    ASSUME TypeOK, TypeOK', QueueInv, NEW w \in Workers, NEW q \in Runs,
           \/ ClaimNext(w, q) \/ Heartbeat(w, q) \/ MarkCancelled(w, q)
           \/ \E retryable \in BOOLEAN : FailAttempt(w, q, retryable)
           \/ \E n \in {1, NextSeq(ThreadOf[q])} : CompleteBegin(w, q, n),
           NEW r \in Runs, ReplyRoom(r)
    PROVE  ReplyRoom(r)'
<1>1. message' = message
  BY DEF ClaimNext, Heartbeat, MarkCancelled, FailAttempt, CompleteBegin
<1>2. Replies(r)' = Replies(r)
  BY <1>1 DEF Replies
<1>3. run[r] \in RunRow /\ run'[r] \in RunRow /\ RowOK(r)
  BY DEF TypeOK, QueueInv
<1>4. \A v \in Workers : Spent(v, r) => Spent(v, r)'
  BY DEF ClaimNext, Heartbeat, MarkCancelled, FailAttempt, CompleteBegin, Spent, Idle, TypeOK
<1>5. CASE run'[r] = run[r]
  BY <1>2, <1>4, <1>5, RoomSame
<1>6. CASE q = r /\ ClaimNext(w, r)
  <2>1. run'[r].attempts = run[r].attempts + 1
    BY <1>3, <1>6 DEF ClaimNext, TypeOK, RunRow
  <2>2. run'[r].attempts > run[r].attempts
    BY <1>3, <2>1 DEF RunRow
  <2> QED BY <1>2, <2>2, <1>3, RoomKept DEF RunRow
<1>7. CASE q = r /\ Heartbeat(w, r)
  <2>1. /\ run'[r].status = run[r].status /\ run'[r].attempts = run[r].attempts
        /\ run'[r].lease_owner = run[r].lease_owner
    BY <1>3, <1>7 DEF Heartbeat, TypeOK, RunRow
  <2>2. run'[r].attempts >= run[r].attempts
    BY <1>3, <2>1 DEF RunRow
  <2>3. \A v \in Workers : Holds(v, r)' /\ ~Spent(v, r)' => Holds(v, r) /\ ~Spent(v, r)
    BY <1>4, <2>1 DEF Holds
  <2> QED BY <1>2, <2>2, <2>3, RoomKept
<1>8. CASE q = r /\ MarkCancelled(w, r)
  <2>1. run'[r].status = "cancelled" /\ run'[r].attempts = run[r].attempts
    BY <1>3, <1>8 DEF MarkCancelled, Released, TypeOK, RunRow
  <2> QED BY <1>2, <2>1, RoomReleased
<1>9. CASE q = r /\ \E retryable \in BOOLEAN : FailAttempt(w, r, retryable)
  <2>1. PICK retryable \in BOOLEAN : FailAttempt(w, r, retryable)
    BY <1>9
  <2>2. \/ run'[r] = [Released(run[r], "queued") EXCEPT
                        !.available_at = now + Backoff(run[r].attempts)]
        \/ run'[r] = Released(run[r], IF retryable THEN "dead" ELSE "failed")
    BY <2>1 DEF FailAttempt, TypeOK
  <2>3. run'[r].status # "running" /\ run'[r].attempts = run[r].attempts
    BY <1>3, <2>2 DEF Released, RunRow
  <2> QED BY <1>2, <2>3, RoomReleased
<1>10. CASE q # r \/ \E n \in {1, NextSeq(ThreadOf[q])} : CompleteBegin(w, q, n)
  <2>1. run'[r] = run[r]
    BY <1>10, MovesOne DEF CompleteBegin
  <2> QED BY <2>1, <1>5
<1> QED BY <1>6, <1>7, <1>8, <1>9, <1>10

\* complete posts the reply of a worker that had room for it, and that worker
\* is spent from then on.
LEMMA RoomReply ==
    ASSUME TypeOK, TypeOK', QueueInv, NEW w \in Workers, CompleteReply(w),
           NEW r \in Runs, ReplyRoom(r)
    PROVE  ReplyRoom(r)'
<1> DEFINE q == completing[w].run
<1>1. /\ completing[w].phase = "locked" /\ q \in Runs /\ Holds(w, q)
  BY DEF CompleteReply, QueueInv, CallsOK, WritesTargetRows, LockedIsHeld
<1>2. /\ run' = run /\ message' = Posted(q, "model")
      /\ completing' = [completing EXCEPT ![w] = [phase |-> "replied", run |-> q, seq |-> 0]]
  BY DEF CompleteReply
<1>3. CASE q # r
  <2>1. Replies(r)' = Replies(r)
    BY <1>1, <1>2, <1>3, RepliesSame
  <2>2. \A v \in Workers : Spent(v, r) => Spent(v, r)'
    BY <1>1, <1>2 DEF Spent, TypeOK
  <2> QED BY <1>2, <2>1, <2>2, RoomSame
<1>4. CASE q = r
  <2> DEFINE last == Len(message[ThreadOf[r]]) + 1
             n == Cardinality(Replies(r))
  <2>1. n < run[r].attempts
    BY <1>1, <1>4 DEF ReplyRoom, Spent
  <2>2. Replies(r)' = Replies(r) \cup {last}
    BY <1>2, <1>4, ReplyPosted
  <2>3. last \notin Replies(r)
    <3>1. message[ThreadOf[r]] \in Seq(Message)
      BY DEF TypeOK
    <3> QED BY <3>1 DEF Replies
  <2>4. Cardinality(Replies(r))' = n + 1 /\ n \in Nat
    BY <2>2, <2>3, RepliesFinite, FS_AddElement
  <2>5. Cardinality(Replies(r))' <= run'[r].attempts
    <3>1. run[r].attempts \in Nat
      BY DEF TypeOK, RunRow
    <3> QED BY <1>2, <2>1, <2>4, <3>1
  <2>6. \A v \in Workers : Holds(v, r)' => v = w
    BY <1>1, <1>2, <1>4 DEF Holds
  <2>7. Spent(w, r)'
    BY <1>2, <1>4 DEF Spent, TypeOK
  <2> QED BY <2>5, <2>6, <2>7 DEF ReplyRoom
<1> QED BY <1>3, <1>4

\* The rest of complete, a crash and a restart keep the room for replies.
LEMMA RoomWorker ==
    ASSUME TypeOK, TypeOK', QueueInv, NEW w \in Workers,
           \/ CompleteCollide(w) \/ CompleteFinish(w) \/ Crash(w) \/ Restart(w),
           NEW r \in Runs, ReplyRoom(r)
    PROVE  ReplyRoom(r)'
<1>1. message' = message /\ \A v \in Workers \ {w} : completing'[v] = completing[v]
  BY DEF CompleteCollide, CompleteFinish, Crash, Restart, TypeOK
<1>2. Replies(r)' = Replies(r)
  BY <1>1 DEF Replies
<1>3. CASE CompleteCollide(w) \/ Crash(w) \/ Restart(w)
  <2>1. run' = run
    BY <1>3 DEF CompleteCollide, Crash, Restart
  <2>2. Spent(w, r) /\ Holds(w, r) => Spent(w, r)'
    BY <1>3 DEF CompleteCollide, Crash, Restart, Spent, TypeOK
  <2>3. \A v \in Workers : Spent(v, r) /\ Holds(v, r) => Spent(v, r)'
    BY <1>1, <2>2 DEF Spent
  <2> QED BY <1>2, <2>1, <2>3, RoomSame
<1>4. CASE CompleteFinish(w)
  <2>1. completing[w].phase = "replied" /\ completing[w].run \in Runs
    BY <1>4 DEF CompleteFinish, QueueInv, CallsOK, WritesTargetRows
  <2>2. CASE completing[w].run = r
    <3>1. run'[r].status = "succeeded" /\ run'[r].attempts = run[r].attempts
      BY <1>4, <2>1, <2>2 DEF CompleteFinish, Released, TypeOK, RunRow
    <3> QED BY <1>2, <3>1, RoomReleased
  <2>3. CASE completing[w].run # r
    <3>1. run'[r] = run[r]
      BY <1>4, <2>1, <2>3 DEF CompleteFinish, TypeOK
    <3>2. ~Spent(w, r)
      BY <2>1, <2>3 DEF Spent
    <3>3. \A v \in Workers : Spent(v, r) /\ Holds(v, r) => Spent(v, r)'
      BY <1>1, <3>2 DEF Spent
    <3> QED BY <1>2, <3>1, <3>3, RoomSame
  <2> QED BY <2>2, <2>3
<1> QED BY <1>3, <1>4

\* reap_expired and the clock keep the room for replies.
LEMMA RoomTime ==
    ASSUME TypeOK, TypeOK', ReapExpired \/ Tick, NEW r \in Runs, ReplyRoom(r)
    PROVE  ReplyRoom(r)'
<1>1. message' = message /\ completing' = completing
  BY DEF ReapExpired, Tick
<1>2. Replies(r)' = Replies(r) /\ \A v \in Workers : Spent(v, r)' <=> Spent(v, r)
  BY <1>1 DEF Replies, Spent
<1>3. CASE run'[r] = run[r]
  BY <1>2, <1>3, RoomSame
<1>4. CASE ReapExpired /\ Expired(r)
  <2>1. \/ run'[r] = Released(run[r], "dead")
        \/ run'[r] = [Released(run[r], "queued") EXCEPT !.available_at = now]
    BY <1>4 DEF ReapExpired
  <2>2. run[r] \in RunRow
    BY DEF TypeOK
  <2>3. run'[r].status # "running" /\ run'[r].attempts = run[r].attempts
    BY <2>1, <2>2 DEF Released, RunRow
  <2> QED BY <1>2, <2>3, RoomReleased
<1> QED BY <1>3, <1>4 DEF ReapExpired, Tick

\* Every step of the queue keeps the room for replies of every run.
LEMMA RoomNext ==
    TypeOK /\ QueueInv /\ RepliesInv /\ [StoreNext]_storeVars => RepliesInv'
<1> SUFFICES ASSUME TypeOK, QueueInv, RepliesInv, [StoreNext]_storeVars, NEW r \in Runs
             PROVE  ReplyRoom(r)'
  BY DEF RepliesInv
<1>1. TypeOK' /\ ReplyRoom(r)
  BY TypeNext DEF RepliesInv
<1>2. CASE ClientNext
  BY <1>1, <1>2, RoomClient
<1>3. CASE LeaseNext
  BY <1>1, <1>3, RoomLease DEF LeaseNext
<1>4. CASE WorkerNext
  BY <1>1, <1>4, RoomReply, RoomWorker DEF WorkerNext
<1>5. CASE ReapExpired \/ Tick
  BY <1>1, <1>5, RoomTime
<1>6. CASE UNCHANGED storeVars
  <2>1. Replies(r)' = Replies(r) /\ run' = run /\ completing' = completing
    BY <1>6 DEF Replies
  <2> QED BY <1>1, <2>1, RoomSame DEF Spent
<1> QED BY <1>2, <1>3, <1>4, <1>5, <1>6 DEF StoreNext

\* However calls interleave and processes die, complete posts at most one
\* reply of a run for each attempt claim_next counted.
THEOREM RepliesAreBounded == StoreSpec => []RepliesBoundedByAttempts
<1>1. StoreInit => RepliesInv
  BY RoomInit
<1>2. TypeOK /\ QueueInv /\ RepliesInv /\ [StoreNext]_storeVars => RepliesInv'
  BY RoomNext
<1>3. RepliesInv => RepliesBoundedByAttempts
  BY DEF RepliesInv, ReplyRoom, RepliesBoundedByAttempts
<1> QED BY <1>1, <1>2, <1>3, QueueCorrect, PTL DEF StoreSpec

-----------------------------------------------------------------------------
(* A reply that was posted stays.                                          *)

\* No step takes a reply out of the conversation, and the reply complete posts
\* is one of its run.
LEMMA RepliesGrow ==
    ASSUME TypeOK, QueueInv, [StoreNext]_storeVars, NEW r \in Runs
    PROVE  Replies(r) # {} => Replies(r)' # {}
<1>1. CASE message' = message
  BY <1>1 DEF Replies
<1>2. CASE \E q \in Runs : EnqueueMessage(q)
  <2>1. Replies(r)' = Replies(r)
    BY <1>2, RepliesSame DEF EnqueueMessage
  <2> QED BY <2>1
<1>3. ASSUME NEW w \in Workers, CompleteReply(w) PROVE Replies(r) # {} => Replies(r)' # {}
  <2>1. completing[w].run \in Runs /\ message' = Posted(completing[w].run, "model")
    BY <1>3 DEF CompleteReply, QueueInv, CallsOK, WritesTargetRows
  <2>2. CASE completing[w].run = r
    BY <2>1, <2>2, ReplyPosted
  <2>3. CASE completing[w].run # r
    BY <2>1, <2>3, RepliesSame
  <2> QED BY <2>2, <2>3
<1>4. \/ message' = message
      \/ \E q \in Runs : EnqueueMessage(q)
      \/ \E w \in Workers : CompleteReply(w)
  BY DEF StoreNext, ClientNext, EnqueueBegin, EnqueueRun, EnqueueAbort, RequestCancelRead,
         RequestCancelWrite, LeaseNext, ClaimNext, Heartbeat, MarkCancelled, FailAttempt,
         CompleteBegin, WorkerNext, CompleteCollide, CompleteFinish, Crash, Restart,
         ReapExpired, Tick
<1> QED BY <1>1, <1>2, <1>3, <1>4

\* A complete call that has passed its reply's commit has left a reply behind.
RepliedHasReply ==
    \A w \in Workers : completing[w].phase = "replied" => Replies(completing[w].run) # {}

LEMMA RepliedNext ==
    ASSUME TypeOK, QueueInv, RepliedHasReply, [StoreNext]_storeVars
    PROVE  RepliedHasReply'
<1> SUFFICES ASSUME NEW w \in Workers, completing'[w].phase = "replied"
             PROVE  Replies(completing[w].run)' # {}
  BY DEF RepliedHasReply
<1>1. CASE completing'[w] = completing[w]
  <2> DEFINE r == completing[w].run
  <2>1. r \in Runs /\ Replies(r) # {}
    BY <1>1 DEF RepliedHasReply, QueueInv, CallsOK, WritesTargetRows
  <2>2. \A q \in Runs : Replies(q) # {} => Replies(q)' # {}
    BY RepliesGrow
  <2> QED BY <1>1, <2>1, <2>2 DEF Replies
<1>2. CASE CompleteReply(w)
  <2> DEFINE r == completing[w].run
  <2>1. r \in Runs /\ message' = Posted(r, "model")
    BY <1>2 DEF CompleteReply, QueueInv, CallsOK, WritesTargetRows
  <2>2. completing'[w].run = r
    BY <1>2 DEF CompleteReply, TypeOK
  <2>3. \A q \in Runs : q = r => Replies(q)' # {}
    BY <2>1, ReplyPosted
  <2> QED BY <2>1, <2>2, <2>3 DEF Replies
<1>3. CASE ClientNext \/ ReapExpired \/ Tick \/ UNCHANGED storeVars
  <2>1. completing' = completing
    BY <1>3 DEF ClientNext, EnqueueBegin, EnqueueMessage, EnqueueRun, EnqueueAbort,
                RequestCancelRead, RequestCancelWrite, ReapExpired, Tick
  <2> QED BY <2>1, <1>1
<1>4. CASE LeaseNext
  <2>1. completing'[w] = completing[w]
    BY <1>4 DEF LeaseNext, ClaimNext, Heartbeat, MarkCancelled, FailAttempt, CompleteBegin, TypeOK
  <2> QED BY <2>1, <1>1
<1>5. CASE WorkerNext
  <2>1. PICK v \in Workers : \/ CompleteReply(v) \/ CompleteCollide(v) \/ CompleteFinish(v)
                            \/ Crash(v) \/ Restart(v)
    BY <1>5 DEF WorkerNext
  <2>2. CASE CompleteReply(v)
    <3>1. v # w => completing'[w] = completing[w]
      BY <2>2 DEF CompleteReply, TypeOK
    <3> QED BY <3>1, <2>2, <1>1, <1>2
  <2>3. CASE CompleteCollide(v) \/ CompleteFinish(v) \/ Crash(v) \/ Restart(v)
    <3>1. completing'[w] = completing[w]
      BY <2>3 DEF CompleteCollide, CompleteFinish, Crash, Restart, NoCompletion, TypeOK
    <3> QED BY <3>1, <1>1
  <2> QED BY <2>1, <2>2, <2>3
<1> QED BY <1>3, <1>4, <1>5 DEF StoreNext

\* Only the end of complete sets succeeded.
LEMMA SucceededBy ==
    ASSUME TypeOK, QueueInv, [StoreNext]_storeVars, NEW r \in Runs,
           run'[r].status = "succeeded", run[r].status # "succeeded"
    PROVE  \E w \in Workers : completing[w].phase = "replied" /\ completing[w].run = r
<1>0. run[r] \in RunRow
  BY DEF TypeOK
<1>1. CASE ClientNext
  <2>1. PICK q \in Runs :
           \/ EnqueueBegin(q) \/ EnqueueMessage(q) \/ EnqueueRun(q) \/ EnqueueAbort(q)
           \/ RequestCancelRead(q) \/ RequestCancelWrite(q)
    BY <1>1 DEF ClientNext
  <2>2. CASE EnqueueRun(q) \/ RequestCancelWrite(q)
    <3>1. q # r => run'[r] = run[r]
      BY <2>2 DEF EnqueueRun, RequestCancelWrite, TypeOK
    <3>2. CASE q = r /\ EnqueueRun(r)
      BY <3>2 DEF EnqueueRun, NoRow, TypeOK
    <3>3. CASE q = r /\ RequestCancelWrite(r)
      BY <1>0, <3>3 DEF RequestCancelWrite, TypeOK, RunRow
    <3> QED BY <2>2, <3>1, <3>2, <3>3
  <2>3. CASE EnqueueBegin(q) \/ EnqueueMessage(q) \/ EnqueueAbort(q) \/ RequestCancelRead(q)
    BY <2>3 DEF EnqueueBegin, EnqueueMessage, EnqueueAbort, RequestCancelRead
  <2> QED BY <2>1, <2>2, <2>3
<1>2. CASE LeaseNext
  <2>1. PICK w \in Workers, q \in Runs :
           \/ ClaimNext(w, q) \/ Heartbeat(w, q) \/ MarkCancelled(w, q)
           \/ \E retryable \in BOOLEAN : FailAttempt(w, q, retryable)
           \/ \E n \in {1, NextSeq(ThreadOf[q])} : CompleteBegin(w, q, n)
    BY <1>2 DEF LeaseNext
  <2>2. CASE \E n \in {1, NextSeq(ThreadOf[q])} : CompleteBegin(w, q, n)
    BY <2>2 DEF CompleteBegin
  <2>3. CASE ClaimNext(w, q)
    BY <1>0, <2>3 DEF ClaimNext, TypeOK, RunRow
  <2>4. CASE Heartbeat(w, q)
    BY <1>0, <2>4 DEF Heartbeat, TypeOK, RunRow
  <2>5. CASE MarkCancelled(w, q)
    BY <1>0, <2>5 DEF MarkCancelled, Released, TypeOK, RunRow
  <2>6. CASE \E retryable \in BOOLEAN : FailAttempt(w, q, retryable)
    BY <1>0, <2>6 DEF FailAttempt, Released, TypeOK, RunRow
  <2> QED BY <2>1, <2>2, <2>3, <2>4, <2>5, <2>6
<1>3. CASE WorkerNext
  BY <1>3 DEF WorkerNext, CompleteReply, CompleteCollide, CompleteFinish, Crash, Restart, TypeOK
<1>4. CASE ReapExpired
  BY <1>0, <1>4 DEF ReapExpired, Released, RunRow
<1>5. CASE Tick \/ UNCHANGED storeVars
  BY <1>5 DEF Tick
<1> QED BY <1>1, <1>2, <1>3, <1>4, <1>5 DEF StoreNext

\* Whoever reads the status succeeded finds a reply of the run in the same
\* snapshot of the conversation.
THEOREM SucceededRunsHaveReplies == StoreSpec => []SucceededHasReply
<1>1. StoreInit => SucceededHasReply /\ RepliedHasReply
  BY DEF StoreInit, SucceededHasReply, RepliedHasReply, NoRow, NoCompletion
<1>2. TypeOK /\ QueueInv /\ RepliedHasReply /\ [StoreNext]_storeVars => RepliedHasReply'
  BY RepliedNext
<1>3. ASSUME TypeOK, QueueInv, RepliedHasReply, SucceededHasReply, [StoreNext]_storeVars
      PROVE  SucceededHasReply'
  <2> SUFFICES ASSUME NEW r \in Runs, run'[r].status = "succeeded" PROVE Replies(r)' # {}
    BY DEF SucceededHasReply
  <2>1. Replies(r) # {}
    BY <1>3, SucceededBy DEF SucceededHasReply, RepliedHasReply
  <2> QED BY <1>3, <2>1, RepliesGrow
<1> QED BY <1>1, <1>2, <1>3, QueueCorrect, PTL DEF StoreSpec

-----------------------------------------------------------------------------
(* The refinement mapping, and what it makes of a change of one row.       *)

JobMap == [r \in Runs |-> JobOf(r)]
AnswerMap == [r \in Runs |-> Cardinality(Replies(r))]

\* A row that keeps its status, owner and attempts is the same job.
LEMMA SameJob ==
    ASSUME NEW r \in Runs, run'[r].status = run[r].status,
           run'[r].lease_owner = run[r].lease_owner, run'[r].attempts = run[r].attempts
    PROVE  JobOf(r)' = JobOf(r)
BY DEF JobOf

\* A step that changes one row and posts no reply changes one job.
LEMMA OneJob ==
    ASSUME NEW r \in Runs, \A q \in Runs \ {r} : run'[q] = run[q],
           \A q \in Runs : Replies(q)' = Replies(q)
    PROVE  JobMap' = [JobMap EXCEPT ![r] = JobOf(r)'] /\ AnswerMap' = AnswerMap
<1>1. \A q \in Runs \ {r} : JobOf(q)' = JobOf(q)
  BY SameJob
<1>2. JobMap' = [JobMap EXCEPT ![r] = JobOf(r)']
  BY <1>1 DEF JobMap
<1> QED BY <1>2 DEF AnswerMap

\* A step that changes no job and posts no reply is a stutter.
LEMMA Stutter ==
    ASSUME \A q \in Runs : JobOf(q)' = JobOf(q), \A q \in Runs : Replies(q)' = Replies(q)
    PROVE  UNCHANGED Queue!jobVars
<1>1. JobMap' = JobMap /\ AnswerMap' = AnswerMap
  BY DEF JobMap, AnswerMap
<1> QED BY <1>1 DEF Queue!jobVars, JobMap, AnswerMap

\* One row that ends from the queue or from a lease is a job that ends, and
\* the update of an ended row is a stutter.
LEMMA EndsJob ==
    ASSUME TypeOK, NEW r \in Runs, \A q \in Runs \ {r} : run'[q] = run[q],
           \A q \in Runs : Replies(q)' = Replies(q), run[r].status # "absent",
           run'[r].status \in TERMINAL, run'[r].attempts = run[r].attempts
    PROVE  Queue!End(r) \/ UNCHANGED Queue!jobVars
<1>1. run[r].status \in Status
  BY DEF TypeOK, RunRow
<1>2. JobOf(r)' = [state |-> "ended", owner |-> NULL, attempts |-> run[r].attempts]
  BY DEF JobOf, JobState, TERMINAL
<1>3. CASE run[r].status \in TERMINAL
  <2>1. JobOf(r) = [state |-> "ended", owner |-> NULL, attempts |-> run[r].attempts]
    BY <1>3 DEF JobOf, JobState, TERMINAL
  <2>2. \A q \in Runs : JobOf(q)' = JobOf(q)
    BY <1>2, <2>1, SameJob
  <2> QED BY <2>2, Stutter
<1>4. CASE run[r].status \in {"queued", "running"}
  <2>1. JobMap' = [JobMap EXCEPT ![r] = JobOf(r)'] /\ AnswerMap' = AnswerMap
    BY OneJob
  <2>2. JobMap[r].state \in {"queued", "leased"} /\ JobMap[r].attempts = run[r].attempts
    BY <1>4 DEF JobMap, JobOf, JobState, TERMINAL
  <2> QED BY <1>2, <2>1, <2>2 DEF Queue!End, Queue!Unleased, JobMap, AnswerMap
<1> QED BY <1>1, <1>3, <1>4 DEF Status

-----------------------------------------------------------------------------
(* Each operation is a step of the abstract queue, or a stutter.           *)

\* enqueue submits the job when it inserts the row, and request_cancel ends it
\* or raises a flag that the abstract queue does not have.
LEMMA ClientImplements ==
    ASSUME TypeOK, QueueInv, ClientNext
    PROVE  [Queue!QueueNext]_(Queue!jobVars)
<1>1. PICK r \in Runs :
         \/ EnqueueBegin(r) \/ EnqueueMessage(r) \/ EnqueueRun(r) \/ EnqueueAbort(r)
         \/ RequestCancelRead(r) \/ RequestCancelWrite(r)
  BY DEF ClientNext
<1>2. \A q \in Runs : Replies(q)' = Replies(q)
  <2>1. CASE EnqueueMessage(r)
    BY <2>1, RepliesSame DEF EnqueueMessage
  <2>2. CASE message' = message
    BY <2>2 DEF Replies
  <2> QED BY <1>1, <2>1, <2>2 DEF EnqueueBegin, EnqueueRun, EnqueueAbort, RequestCancelRead,
                                  RequestCancelWrite
<1>3. CASE run' = run
  BY <1>2, <1>3, SameJob, Stutter
<1>4. CASE EnqueueRun(r)
  <2>1. run[r].status = "absent" /\ run[r].attempts = 0
    BY <1>4 DEF EnqueueRun, QueueInv, CallsOK, RowsAreEnqueued, RowOK
  <2>2. /\ run'[r] = [NoRow EXCEPT !.status = "queued", !.available_at = now]
        /\ \A q \in Runs \ {r} : run'[q] = run[q]
    BY <1>4 DEF EnqueueRun, TypeOK
  <2>3. JobOf(r)' = [state |-> "queued", owner |-> NULL, attempts |-> 0]
    BY <2>2 DEF JobOf, JobState, TERMINAL, NoRow
  <2>4. JobMap' = [JobMap EXCEPT ![r] = JobOf(r)'] /\ AnswerMap' = AnswerMap
    BY <1>2, <2>2, OneJob
  <2>5. JobMap[r].state = "absent"
    BY <2>1 DEF JobMap, JobOf, JobState, TERMINAL
  <2>6. Queue!Submit(r)
    BY <2>3, <2>4, <2>5 DEF Queue!Submit, Queue!Unleased, JobMap, AnswerMap
  <2> QED BY <2>6 DEF Queue!QueueNext
<1>5. CASE RequestCancelWrite(r)
  <2>1. run[r] \in RunRow /\ run[r].status # "absent"
    BY <1>5 DEF RequestCancelWrite, TypeOK, QueueInv, CallsOK, WritesTargetRows
  <2>2. /\ \A q \in Runs \ {r} : run'[q] = run[q]
        /\ \/ run'[r] = [run[r] EXCEPT !.status = "cancelled"]
           \/ run'[r] = [run[r] EXCEPT !.cancel_requested = TRUE]
    BY <1>5 DEF RequestCancelWrite, TypeOK
  <2>3. CASE run'[r] = [run[r] EXCEPT !.status = "cancelled"]
    <3>1. run'[r].status \in TERMINAL /\ run'[r].attempts = run[r].attempts
      BY <2>1, <2>3 DEF RunRow, TERMINAL
    <3> QED BY <1>2, <2>1, <2>2, <3>1, EndsJob DEF Queue!QueueNext
  <2>4. CASE run'[r] = [run[r] EXCEPT !.cancel_requested = TRUE]
    <3>1. JobOf(r)' = JobOf(r)
      BY <2>1, <2>4, SameJob DEF RunRow
    <3> QED BY <1>2, <2>2, <3>1, SameJob, Stutter
  <2> QED BY <2>2, <2>3, <2>4
<1> QED BY <1>1, <1>3, <1>4, <1>5 DEF EnqueueBegin, EnqueueMessage, EnqueueAbort,
                                      RequestCancelRead

\* A claim leases the job and counts an attempt that queued rows have left.
LEMMA ClaimImplements ==
    ASSUME TypeOK, QueueInv, NEW w \in Workers, NEW r \in Runs, ClaimNext(w, r)
    PROVE  Queue!Lease(r, w)
<1>1. run[r] \in RunRow /\ run[r].status = "queued" /\ run[r].attempts < MaxAttempts
  BY DEF ClaimNext, Available, TypeOK, QueueInv, RowOK
<1>2. \A q \in Runs \ {r} : run'[q] = run[q]
  BY DEF ClaimNext, TypeOK
<1>3. /\ run'[r].status = "running" /\ run'[r].lease_owner = w
      /\ run'[r].attempts = run[r].attempts + 1
  BY <1>1 DEF ClaimNext, TypeOK, RunRow
<1>4. \A q \in Runs : Replies(q)' = Replies(q)
  BY DEF ClaimNext, Replies
<1>5. JobOf(r)' = [state |-> "leased", owner |-> w, attempts |-> run[r].attempts + 1]
  BY <1>3 DEF JobOf, JobState, TERMINAL
<1>6. JobMap' = [JobMap EXCEPT ![r] = JobOf(r)'] /\ AnswerMap' = AnswerMap
  BY <1>2, <1>4, OneJob
<1>7. JobMap[r].state = "queued" /\ JobMap[r].attempts = run[r].attempts
  BY <1>1 DEF JobMap, JobOf, JobState, TERMINAL
<1> QED BY <1>1, <1>5, <1>6, <1>7 DEF Queue!Lease, JobMap, AnswerMap

\* fail_attempt gives the job back while attempts are left, or ends it.
LEMMA FailImplements ==
    ASSUME TypeOK, QueueInv, NEW w \in Workers, NEW r \in Runs, NEW retryable \in BOOLEAN,
           FailAttempt(w, r, retryable)
    PROVE  Queue!GiveBack(r) \/ Queue!End(r) \/ UNCHANGED Queue!jobVars
<1>1. run[r] \in RunRow /\ run[r].status = "running"
  BY DEF FailAttempt, Holds, TypeOK
<1>2. \A q \in Runs \ {r} : run'[q] = run[q]
  BY DEF FailAttempt, TypeOK
<1>3. \A q \in Runs : Replies(q)' = Replies(q)
  BY DEF FailAttempt, Replies
<1>4. CASE retryable /\ run[r].attempts < MaxAttempts
  <2>1. run'[r] = [Released(run[r], "queued") EXCEPT !.available_at = now + Backoff(run[r].attempts)]
    BY <1>4 DEF FailAttempt, TypeOK
  <2>2. run'[r].status = "queued" /\ run'[r].attempts = run[r].attempts
    BY <1>1, <2>1 DEF Released, RunRow
  <2>3. JobOf(r)' = [state |-> "queued", owner |-> NULL, attempts |-> run[r].attempts]
    BY <2>2 DEF JobOf, JobState, TERMINAL
  <2>4. JobMap' = [JobMap EXCEPT ![r] = JobOf(r)'] /\ AnswerMap' = AnswerMap
    BY <1>2, <1>3, OneJob
  <2>5. JobMap[r].state = "leased" /\ JobMap[r].attempts = run[r].attempts
    BY <1>1 DEF JobMap, JobOf, JobState, TERMINAL
  <2> QED BY <1>4, <2>3, <2>4, <2>5 DEF Queue!GiveBack, Queue!Unleased, JobMap, AnswerMap
<1>5. CASE ~(retryable /\ run[r].attempts < MaxAttempts)
  <2>1. run'[r] = Released(run[r], IF retryable THEN "dead" ELSE "failed")
    BY <1>5 DEF FailAttempt, TypeOK
  <2>2. run'[r].status \in TERMINAL /\ run'[r].attempts = run[r].attempts
    BY <1>1, <2>1 DEF Released, RunRow, TERMINAL
  <2> QED BY <1>1, <1>2, <1>3, <2>2, EndsJob
<1> QED BY <1>4, <1>5

\* What a worker does to the run it holds, up to the reply.
LEMMA LeaseImplements ==
    ASSUME TypeOK, QueueInv, LeaseNext
    PROVE  [Queue!QueueNext]_(Queue!jobVars)
<1>1. PICK w \in Workers, r \in Runs :
         \/ ClaimNext(w, r) \/ Heartbeat(w, r) \/ MarkCancelled(w, r)
         \/ \E retryable \in BOOLEAN : FailAttempt(w, r, retryable)
         \/ \E n \in {1, NextSeq(ThreadOf[r])} : CompleteBegin(w, r, n)
  BY DEF LeaseNext
<1>2. CASE ClaimNext(w, r)
  BY <1>2, ClaimImplements DEF Queue!QueueNext
<1>3. CASE \E retryable \in BOOLEAN : FailAttempt(w, r, retryable)
  BY <1>3, FailImplements DEF Queue!QueueNext
<1>4. CASE \E n \in {1, NextSeq(ThreadOf[r])} : CompleteBegin(w, r, n)
  <2>1. run' = run /\ message' = message
    BY <1>4 DEF CompleteBegin
  <2> QED BY <2>1, SameJob, Stutter DEF Replies
<1>5. CASE Heartbeat(w, r)
  <2>1. /\ \A q \in Runs \ {r} : run'[q] = run[q]
        /\ run'[r].status = run[r].status /\ run'[r].lease_owner = run[r].lease_owner
        /\ run'[r].attempts = run[r].attempts
    BY <1>5 DEF Heartbeat, TypeOK, RunRow
  <2>2. \A q \in Runs : Replies(q)' = Replies(q)
    BY <1>5 DEF Heartbeat, Replies
  <2> QED BY <2>1, <2>2, SameJob, Stutter
<1>6. CASE MarkCancelled(w, r)
  <2>1. run[r] \in RunRow /\ run[r].status = "running"
    BY <1>6 DEF MarkCancelled, Holds, TypeOK
  <2>2. /\ \A q \in Runs \ {r} : run'[q] = run[q]
        /\ run'[r] = Released(run[r], "cancelled")
    BY <1>6 DEF MarkCancelled, TypeOK
  <2>3. run'[r].status \in TERMINAL /\ run'[r].attempts = run[r].attempts
    BY <2>1, <2>2 DEF Released, RunRow, TERMINAL
  <2>4. \A q \in Runs : Replies(q)' = Replies(q)
    BY <1>6 DEF MarkCancelled, Replies
  <2> QED BY <2>1, <2>2, <2>3, <2>4, EndsJob DEF Queue!QueueNext
<1> QED BY <1>1, <1>2, <1>3, <1>4, <1>5, <1>6

\* The reply of complete is the answer of the holder, who has room for one.
LEMMA ReplyImplements ==
    ASSUME TypeOK, QueueInv, RepliesInv, NEW w \in Workers, CompleteReply(w)
    PROVE  Queue!Answer(completing[w].run)
<1>0. PICK r \in Runs : r = completing[w].run
  BY DEF CompleteReply, QueueInv, CallsOK, WritesTargetRows
<1>1. Holds(w, r) /\ completing[w].phase = "locked"
  BY <1>0 DEF CompleteReply, QueueInv, CallsOK, LockedIsHeld
<1>2. Cardinality(Replies(r)) < run[r].attempts
  BY <1>1 DEF RepliesInv, ReplyRoom, Spent
<1>3. run' = run /\ message' = Posted(r, "model")
  BY <1>0 DEF CompleteReply
<1>4. \A q \in Runs \ {r} : Replies(q)' = Replies(q)
  BY <1>3, RepliesSame
<1>5. Cardinality(Replies(r))' = Cardinality(Replies(r)) + 1
  <2>1. Replies(r)' = Replies(r) \cup {Len(message[ThreadOf[r]]) + 1}
    BY <1>3, ReplyPosted
  <2>2. Len(message[ThreadOf[r]]) + 1 \notin Replies(r)
    <3>1. message[ThreadOf[r]] \in Seq(Message)
      BY DEF TypeOK
    <3> QED BY <3>1 DEF Replies
  <2> QED BY <2>1, <2>2, RepliesFinite, FS_AddElement
<1>6. AnswerMap' = [AnswerMap EXCEPT ![r] = @ + 1]
  BY <1>1, <1>4, <1>5 DEF AnswerMap
<1>7. JobMap' = JobMap
  BY <1>3 DEF JobMap, JobOf
<1>8. JobMap[r].state = "leased" /\ JobMap[r].attempts = run[r].attempts
  BY <1>1 DEF JobMap, JobOf, JobState, TERMINAL, Holds
<1> QED BY <1>0, <1>1, <1>2, <1>6, <1>7, <1>8 DEF Queue!Answer, JobMap, AnswerMap

\* The rest of complete, a crash and a restart.
LEMMA WorkerImplements ==
    ASSUME TypeOK, QueueInv, RepliesInv, WorkerNext
    PROVE  [Queue!QueueNext]_(Queue!jobVars)
<1>1. PICK w \in Workers : \/ CompleteReply(w) \/ CompleteCollide(w) \/ CompleteFinish(w)
                          \/ Crash(w) \/ Restart(w)
  BY DEF WorkerNext
<1>2. CASE CompleteReply(w)
  <2>1. completing[w].run \in Runs
    BY <1>2 DEF CompleteReply, QueueInv, CallsOK, WritesTargetRows
  <2> QED BY <1>2, <2>1, ReplyImplements DEF Queue!QueueNext
<1>3. CASE CompleteCollide(w) \/ Crash(w) \/ Restart(w)
  <2>1. run' = run /\ message' = message
    BY <1>3 DEF CompleteCollide, Crash, Restart
  <2> QED BY <2>1, SameJob, Stutter DEF Replies
<1>4. CASE CompleteFinish(w)
  <2> DEFINE r == completing[w].run
  <2>1. r \in Runs /\ run[r].status # "absent"
    BY <1>4 DEF CompleteFinish, QueueInv, CallsOK, WritesTargetRows
  <2>2. run[r] \in RunRow
    BY <2>1 DEF TypeOK
  <2>3. /\ \A q \in Runs \ {r} : run'[q] = run[q]
        /\ run'[r] = Released(run[r], "succeeded")
    BY <1>4, <2>1 DEF CompleteFinish, TypeOK
  <2>4. run'[r].status \in TERMINAL /\ run'[r].attempts = run[r].attempts
    BY <2>2, <2>3 DEF Released, RunRow, TERMINAL
  <2>5. \A q \in Runs : Replies(q)' = Replies(q)
    BY <1>4 DEF CompleteFinish, Replies
  <2> QED BY <2>1, <2>3, <2>4, <2>5, EndsJob DEF Queue!QueueNext
<1> QED BY <1>1, <1>2, <1>3, <1>4

\* reap_expired lets the leases of a set of jobs run out.
LEMMA ReapImplements ==
    ASSUME TypeOK, QueueInv, ReapExpired
    PROVE  \E expired \in SUBSET Runs : Queue!RunOut(expired)
<1> DEFINE expired == {r \in Runs : Expired(r)}
<1>1. AnswerMap' = AnswerMap
  BY DEF ReapExpired, AnswerMap, Replies
<1>2. \A r \in expired : JobMap[r].state = "leased" /\ JobMap[r].attempts = run[r].attempts
  BY DEF Expired, JobMap, JobOf, JobState, TERMINAL
<1>3. \A r \in Runs \ expired : JobOf(r)' = JobMap[r]
  <2>1. \A r \in Runs \ expired : run'[r] = run[r]
    BY DEF ReapExpired
  <2> QED BY <2>1, SameJob DEF JobMap
<1>4. ASSUME NEW r \in expired
      PROVE  JobOf(r)' = [state |-> IF run[r].attempts < MaxAttempts THEN "queued" ELSE "ended",
                          owner |-> NULL, attempts |-> run[r].attempts]
  <2>1. run[r] \in RunRow
    BY DEF TypeOK
  <2>2. CASE run[r].attempts >= MaxAttempts
    <3>1. run'[r] = Released(run[r], "dead")
      BY <2>2 DEF ReapExpired
    <3>2. run'[r].status = "dead" /\ run'[r].attempts = run[r].attempts
      BY <2>1, <3>1 DEF Released, RunRow
    <3>3. ~(run[r].attempts < MaxAttempts)
      BY <2>1, <2>2 DEF RunRow
    <3> QED BY <3>2, <3>3 DEF JobOf, JobState, TERMINAL
  <2>3. CASE run[r].attempts < MaxAttempts
    <3>1. run'[r] = [Released(run[r], "queued") EXCEPT !.available_at = now]
      BY <2>1, <2>3 DEF ReapExpired, RunRow
    <3>2. run'[r].status = "queued" /\ run'[r].attempts = run[r].attempts
      BY <2>1, <3>1 DEF Released, RunRow
    <3> QED BY <2>3, <3>2 DEF JobOf, JobState, TERMINAL
  <2> QED BY <2>1, <2>2, <2>3 DEF RunRow
<1>5. Queue!RunOut(expired)
  BY <1>1, <1>2, <1>3, <1>4 DEF Queue!RunOut, Queue!Unleased, JobMap, AnswerMap
<1> QED BY <1>5

-----------------------------------------------------------------------------

\* At the start no job is in the queue and none is answered.
LEMMA InitImplements == StoreInit => Queue!QueueInit
<1> SUFFICES ASSUME StoreInit PROVE Queue!QueueInit
  OBVIOUS
<1>1. ASSUME NEW r \in Runs PROVE Cardinality(Replies(r)) = 0
  <2>1. Replies(r) = {}
    BY DEF StoreInit, Replies
  <2> QED BY <2>1, FS_EmptySet
<1>2. \A r \in Runs : JobOf(r) = [state |-> "absent", owner |-> NULL, attempts |-> 0]
  BY DEF StoreInit, NoRow, JobOf, JobState, TERMINAL
<1> QED BY <1>1, <1>2 DEF Queue!QueueInit, Queue!Unleased

\* Whatever the callers, clocks and crashes do, the table, the conversations
\* and the calls in flight behave as the abstract queue.
THEOREM StoreImplementsJobQueue == StoreSpec => ImplementsJobQueue
<1>1. StoreInit => Queue!QueueInit
  BY InitImplements
<1>2. ASSUME TypeOK, QueueInv, RepliesInv, [StoreNext]_storeVars
      PROVE  [Queue!QueueNext]_(Queue!jobVars)
  <2>1. CASE ClientNext
    BY <1>2, <2>1, ClientImplements
  <2>2. CASE LeaseNext
    BY <1>2, <2>2, LeaseImplements
  <2>3. CASE WorkerNext
    BY <1>2, <2>3, WorkerImplements
  <2>4. CASE ReapExpired
    BY <1>2, <2>4, ReapImplements DEF Queue!QueueNext
  <2>5. CASE Tick \/ UNCHANGED storeVars
    <3>1. run' = run /\ message' = message
      BY <2>5 DEF Tick
    <3> QED BY <3>1, SameJob, Stutter DEF Replies
  <2> QED BY <1>2, <2>1, <2>2, <2>3, <2>4, <2>5 DEF StoreNext
<1>3. StoreSpec => []RepliesInv
  <2>1. StoreInit => RepliesInv
    BY RoomInit
  <2>2. TypeOK /\ QueueInv /\ RepliesInv /\ [StoreNext]_storeVars => RepliesInv'
    BY RoomNext
  <2> QED BY <2>1, <2>2, QueueCorrect, PTL DEF StoreSpec
<1> QED BY <1>1, <1>2, <1>3, QueueCorrect, PTL
        DEF StoreSpec, ImplementsJobQueue, Queue!QueueSpec
=============================================================================
