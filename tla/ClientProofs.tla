---------------------------- MODULE ClientProofs ----------------------------
(***************************************************************************)
(* The client that waits prints an answer only from a snapshot that holds  *)
(* the reply: a run that succeeded has one (JobQueueProofs), and status    *)
(* and history are of one snapshot.                                        *)
(***************************************************************************)
EXTENDS JobQueueProofs, Client

USE ThreadsAssumption, NullAssumption, AttemptsAssumption, TimesAssumption
USE DEF storeVars

-----------------------------------------------------------------------------

LEMMA ClientStep == [ClientsNext]_clientVars => [StoreNext]_storeVars
BY DEF ClientsNext, clientVars, Ask, Leave, Poll, Elsewhere, StoreNext, ClientNext

LEMMA ClientStore == ClientSpec => StoreSpec
<1>1. ClientInit => StoreInit
  BY DEF ClientInit
<1> QED BY <1>1, ClientStep, PTL DEF ClientSpec, StoreSpec

\* A snapshot in which the run succeeded holds its reply.
Complete(r, s) ==
    s.status = "succeeded" => \E i \in DOMAIN s.history : s.history[i] = [role |-> "model", run |-> r]

Store == TypeOK /\ QueueInv /\ SucceededHasReply

ClientInv ==
    /\ client \in [Runs -> Asking]
    /\ \A r \in Runs :
          /\ client[r].snapshot = NULL \/ Complete(r, client[r].snapshot)
          /\ client[r].pc = "wait" => run[r].status # "absent"
          /\ client[r].pc = "answered" =>
                Complete(r, client[r].snapshot) /\ client[r].snapshot.status = "succeeded"

\* No run row is ever deleted.
LEMMA RowsStay ==
    ASSUME QueueInv, QueueInv', TypeOK, [StoreNext]_storeVars,
           NEW r \in Runs, run[r].status # "absent"
    PROVE  run'[r].status # "absent"
<1>1. enqueuing[r].phase = "done"
  BY DEF QueueInv, CallsOK, RowsAreEnqueued
<1>2. enqueuing'[r].phase = "done"
  <2>1. CASE enqueuing' = enqueuing
    BY <1>1, <2>1
  <2>2. ASSUME NEW q \in Runs, EnqueueBegin(q) \/ EnqueueMessage(q) \/ EnqueueRun(q) \/ EnqueueAbort(q)
        PROVE  enqueuing'[r].phase = "done"
    <3>1. q # r
      BY <1>1, <2>2 DEF EnqueueBegin, EnqueueMessage, EnqueueRun, EnqueueAbort
    <3>2. \A p \in Runs \ {q} : enqueuing'[p] = enqueuing[p]
      BY <2>2 DEF EnqueueBegin, EnqueueMessage, EnqueueRun, EnqueueAbort, TypeOK
    <3> QED BY <1>1, <3>1, <3>2
  <2>3. \/ enqueuing' = enqueuing
        \/ \E q \in Runs : EnqueueBegin(q) \/ EnqueueMessage(q) \/ EnqueueRun(q) \/ EnqueueAbort(q)
    BY DEF StoreNext, ClientNext, RequestCancelRead, RequestCancelWrite, LeaseNext, ClaimNext,
       Heartbeat, MarkCancelled, FailAttempt, CompleteBegin, WorkerNext, CompleteReply,
       CompleteCollide, CompleteFinish, Crash, Restart, ReapExpired, Tick
  <2> QED BY <2>1, <2>2, <2>3
<1> QED BY <1>2 DEF QueueInv, CallsOK, RowsAreEnqueued

\* The client of r moves on, and the others stay where they are.
LEMMA ClientMoves ==
    ASSUME Store, Store', ClientInv, [ClientsNext]_clientVars, NEW r \in Runs, NEW c \in Asking,
           client' = [client EXCEPT ![r] = c],
           c.snapshot = NULL \/ Complete(r, c.snapshot),
           c.pc = "wait" => run'[r].status # "absent",
           c.pc = "answered" => Complete(r, c.snapshot) /\ c.snapshot.status = "succeeded"
    PROVE  ClientInv'
<1>1. client \in [Runs -> Asking] /\ client' \in [Runs -> Asking]
  BY DEF ClientInv
<1>2. \A q \in Runs : client[q].pc = "wait" => run'[q].status # "absent"
  BY ClientStep, RowsStay DEF ClientInv, Store
<1> QED BY <1>1, <1>2 DEF ClientInv, Complete

LEMMA ClientNextInv ==
    ASSUME Store, Store', ClientInv, [ClientsNext]_clientVars
    PROVE  ClientInv'
<1>0. client \in [Runs -> Asking]
  BY DEF ClientInv
<1>1. CASE client' = client
  <2>1. \A q \in Runs : client[q].pc = "wait" => run'[q].status # "absent"
    BY ClientStep, RowsStay DEF ClientInv, Store
  <2> QED BY <1>1, <2>1 DEF ClientInv, Complete
<1>2. ASSUME NEW r \in Runs, Ask(r)
      PROVE  ClientInv'
  <2>1. PICK me \in Asking : me = client[r]
    BY <1>0
  <2>2. PICK pc \in {"enqueue", "wait"} :
           /\ client' = [client EXCEPT ![r].pc = pc]
           /\ pc = "wait" => run' # run
    BY <1>0, <1>2 DEF Ask
  <2>3. PICK c \in Asking : c = [me EXCEPT !.pc = pc]
    BY DEF Asking
  <2>4. c.pc = pc /\ c.snapshot = me.snapshot
    BY <2>3 DEF Asking
  <2>5. client' = [client EXCEPT ![r] = c]
    BY <2>1, <2>2, <2>3, Zenon
  <2>6. run' # run => run'[r].status # "absent"
    <3>1. run' # run => EnqueueRun(r)
      BY <1>2 DEF Ask, EnqueueBegin, EnqueueMessage
    <3>2. EnqueueRun(r) => enqueuing'[r].phase = "done"
      BY DEF EnqueueRun, Store, TypeOK, Enqueuing
    <3> QED BY <3>1, <3>2 DEF Store, QueueInv, CallsOK, RowsAreEnqueued
  <2>7. c.snapshot = NULL \/ Complete(r, c.snapshot)
    BY <2>1, <2>4 DEF ClientInv
  <2>8. (c.pc = "wait" => run'[r].status # "absent") /\ c.pc # "answered"
    BY <2>2, <2>4, <2>6
  <2> QED BY <2>5, <2>7, <2>8, ClientMoves
<1>3. ASSUME NEW r \in Runs, Leave(r)
      PROVE  ClientInv'
  <2>1. PICK me \in Asking : me = client[r]
    BY <1>0
  <2>2. PICK c \in Asking : c = [me EXCEPT !.pc = "gone"]
    BY DEF Asking
  <2>3. c.pc = "gone" /\ c.snapshot = me.snapshot
    BY <2>2 DEF Asking
  <2>4. client' = [client EXCEPT ![r] = c]
    BY <1>3, <2>1, <2>2, Zenon DEF Leave
  <2> QED BY <2>1, <2>3, <2>4, ClientMoves DEF ClientInv
<1>4. ASSUME NEW r \in Runs, Poll(r)
      PROVE  ClientInv'
  <2>1. client[r].pc = "wait" /\ run[r].status # "absent" /\ run' = run
    BY <1>4 DEF Poll, ClientInv, storeVars
  <2>2. Now(r) \in Snapshots /\ Complete(r, Now(r))
    <3>1. run[r].status \in Status /\ message[ThreadOf[r]] \in Seq(Message)
      BY <2>1 DEF Store, TypeOK, RunRow
    <3>2. Now(r) \in Snapshots
      BY <3>1 DEF Now, Snapshots
    <3>3. /\ Now(r).status = run[r].status /\ Now(r).history = message[ThreadOf[r]]
      BY DEF Now
    <3>4. run[r].status = "succeeded" => Replies(r) # {}
      BY DEF Store, SucceededHasReply
    <3> QED BY <3>2, <3>3, <3>4 DEF Complete, Replies
  <2>3. PICK s \in Snapshots : s = Read(r) /\ Complete(r, s)
    BY <1>0, <2>2 DEF Read, ClientInv, Asking
  <2>4. PICK pc \in {"answered", "reported", "wait"} :
           /\ client' = [client EXCEPT ![r] = [pc |-> pc, snapshot |-> Read(r)]]
           /\ pc = "answered" => Read(r).status = "succeeded"
    <3> DEFINE pc == CASE Read(r).status = "succeeded" -> "answered"
                       [] Read(r).status \in TERMINAL \ {"succeeded"} -> "reported"
                       [] OTHER -> "wait"
    <3>1. client' = [client EXCEPT ![r] = [pc |-> pc, snapshot |-> Read(r)]]
      BY <1>4, Zenon DEF Poll
    <3>2. /\ pc \in {"answered", "reported", "wait"}
          /\ pc = "answered" => Read(r).status = "succeeded"
      OBVIOUS
    <3> HIDE DEF pc
    <3> QED BY <3>1, <3>2
  <2>5. PICK c \in Asking : c = [pc |-> pc, snapshot |-> s]
    BY DEF Asking
  <2>6. c.pc = pc /\ c.snapshot = s
    BY <2>5
  <2>7. client' = [client EXCEPT ![r] = c]
    BY <2>3, <2>4, <2>5
  <2>8. Complete(r, c.snapshot) /\ run'[r].status # "absent"
    BY <2>1, <2>3, <2>6
  <2>9. c.pc = "answered" => c.snapshot.status = "succeeded"
    BY <2>3, <2>4, <2>6
  <2> QED BY <2>7, <2>8, <2>9, ClientMoves
<1> QED BY <1>1, <1>2, <1>3, <1>4 DEF ClientsNext, clientVars, Elsewhere

LEMMA ClientSafety == ClientSpec => [](Store /\ ClientInv)
<1>1. ClientInit => ClientInv
  <2> SUFFICES ASSUME ClientInit PROVE ClientInv
    OBVIOUS
  <2>1. PICK c \in Asking : c = [pc |-> "enqueue", snapshot |-> NULL]
    BY DEF Asking
  <2>2. c.pc = "enqueue" /\ c.snapshot = NULL
    BY <2>1
  <2>3. client = [r \in Runs |-> c]
    BY <2>1 DEF ClientInit
  <2> QED BY <2>2, <2>3 DEF ClientInv
<1>2. Store /\ Store' /\ ClientInv /\ [ClientsNext]_clientVars => ClientInv'
  BY ClientNextInv
<1>3. ClientSpec => []Store
  BY ClientStore, QueueCorrect, SucceededRunsHaveReplies, PTL DEF Store
<1> QED BY <1>1, <1>2, <1>3, PTL DEF ClientSpec

\* What ask.py prints as the answer comes from a conversation in which complete
\* had already posted its run's reply.
THEOREM AnswersComeWithReplies == ClientSpec => []AnswerComesWithReply
<1>1. ClientInv => AnswerComesWithReply
  BY DEF ClientInv, Complete, AnswerComesWithReply
<1> QED BY <1>1, ClientSafety, PTL

\* A client, its snapshot and the queue keep their types: the snapshot is never
\* of a run that enqueue has not inserted.
THEOREM ClientTyping == ClientSpec => []ClientTypeOK
<1>1. Store /\ ClientInv => ClientTypeOK
  BY DEF Store, ClientInv, ClientTypeOK
<1> QED BY <1>1, ClientSafety, PTL
=============================================================================
