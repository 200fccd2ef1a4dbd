------------------------------- MODULE Client -------------------------------
(***************************************************************************)
(* scripts/ask.py: a process that enqueues one run, polls get_run until    *)
(* the run has ended, and prints the last message of the conversation.     *)
(*                                                                         *)
(* Its connection commits with enqueue and never again: the first get_run  *)
(* opens the snapshot that every later get_run, and load_history, reads.   *)
(* Workers, other clients' cancels and the clock are those of RunStore.    *)
(***************************************************************************)
EXTENDS RunStore

VARIABLE client  \* per run: the process that asks, and the snapshot it has open

clientVars == <<run, message, enqueuing, completing, cancelling, now, client>>

Snapshots == [status : Status, history : Seq(Message)]

Asking == [pc : {"enqueue", "wait", "answered", "reported", "gone"},
           snapshot : Snapshots \cup {NULL}]

ClientTypeOK == TypeOK /\ client \in [Runs -> Asking]

-----------------------------------------------------------------------------

\* (run_id is handed out before the run is inserted)
AskEarly(r) ==
    /\ client[r].pc = "enqueue"
    /\ EnqueueBegin(r) \/ EnqueueMessage(r)
    /\ client' = [client EXCEPT ![r].pc = IF message' = message THEN @ ELSE "wait"]

\* enqueue, whose last commit inserts the run; then the client waits.
Ask(r) ==
    /\ client[r].pc = "enqueue"
    /\ EnqueueBegin(r) \/ EnqueueMessage(r) \/ EnqueueRun(r)
    /\ client' = [client EXCEPT ![r].pc = IF run' = run THEN @ ELSE "wait"]

\* The message's seq was taken, or the process dies before it waits.
Leave(r) ==
    /\ EnqueueAbort(r)
    /\ client' = [client EXCEPT ![r].pc = "gone"]

Now(r) == [status |-> run[r].status, history |-> message[ThreadOf[r]]]

\* (the history is loaded once, before the loop)
ReadHistoryOnce(r) ==
    IF client[r].snapshot = NULL THEN Now(r)
    ELSE [Now(r) EXCEPT !.history = client[r].snapshot.history]

\* What get_run and load_history find: the open snapshot, or a new one.
Read(r) == IF client[r].snapshot = NULL THEN Now(r) ELSE client[r].snapshot

\* One round of the loop: an answer, the status it ended with, or another sleep.
Poll(r) ==
    /\ client[r].pc = "wait"
    /\ client' = [client EXCEPT ![r] =
                    [pc |-> CASE Read(r).status = "succeeded" -> "answered"
                              [] Read(r).status \in TERMINAL \ {"succeeded"} -> "reported"
                              [] OTHER -> "wait",
                     snapshot |-> Read(r)]]
    /\ UNCHANGED storeVars

Elsewhere ==
    /\ \/ \E r \in Runs : RequestCancelRead(r) \/ RequestCancelWrite(r)
       \/ LeaseNext \/ WorkerNext \/ ReapExpired \/ Tick
    /\ UNCHANGED client

ClientInit ==
    /\ StoreInit
    /\ client = [r \in Runs |-> [pc |-> "enqueue", snapshot |-> NULL]]

ClientsNext == (\E r \in Runs : Ask(r) \/ Leave(r) \/ Poll(r)) \/ Elsewhere

ClientSpec == ClientInit /\ [][ClientsNext]_clientVars

\* The loop of main keeps polling.  Nothing is assumed of workers.
FairClientSpec == ClientSpec /\ \A r \in Runs : WF_clientVars(Poll(r))

-----------------------------------------------------------------------------

(***************************************************************************)
(* What a client prints as the answer comes from a conversation that holds *)
(* its run's reply: complete commits the reply before the status, and the  *)
(* client reads both in one snapshot.                                      *)
(***************************************************************************)
AnswerComesWithReply ==
    \A r \in Runs : client[r].pc = "answered" =>
        \E i \in DOMAIN client[r].snapshot.history :
            client[r].snapshot.history[i] = [role |-> "model", run |-> r]

\* scripts/ask.py: "Queue a question and wait for the answer."  A client whose
\* run has ended stops waiting.
WaitingEnds ==
    \A r \in Runs : run[r].status \in TERMINAL /\ client[r].pc = "wait"
                        ~> client[r].pc # "wait"
=============================================================================
