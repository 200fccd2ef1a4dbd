------------------------------ MODULE JobQueue ------------------------------
(***************************************************************************)
(* What the run queue promises its users, without rows, locks or clocks: a *)
(* job is queued once, leased to one owner at a time and for a bounded     *)
(* number of attempts, answered by whoever holds it and at most once per   *)
(* attempt, and ended for good.  RunStore implements it.                   *)
(***************************************************************************)
EXTENDS Naturals

CONSTANTS
    Jobs,
    Owners,
    Nobody,      \* the owner of a job that is not leased
    MaxAttempts  \* leases of one job

VARIABLES
    job,     \* where each job is, who holds it and how often it was leased
    answers  \* how many answers each job has been given

jobVars == <<job, answers>>

Unleased(state, attempts) == [state |-> state, owner |-> Nobody, attempts |-> attempts]

QueueInit ==
    /\ job = [j \in Jobs |-> Unleased("absent", 0)]
    /\ answers = [j \in Jobs |-> 0]

Submit(j) ==
    /\ job[j].state = "absent"
    /\ job' = [job EXCEPT ![j] = Unleased("queued", 0)]
    /\ UNCHANGED answers

\* Every lease is an attempt, and only attempts that are left are leased.
Lease(j, o) ==
    /\ job[j].state = "queued"
    /\ job[j].attempts < MaxAttempts
    /\ job' = [job EXCEPT ![j] = [state |-> "leased", owner |-> o,
                                  attempts |-> job[j].attempts + 1]]
    /\ UNCHANGED answers

\* The holder answers, at most once in the attempt it holds the job for.
Answer(j) ==
    /\ job[j].state = "leased"
    /\ answers[j] < job[j].attempts
    /\ answers' = [answers EXCEPT ![j] = @ + 1]
    /\ UNCHANGED job

\* A lease is given back while attempts are left.
GiveBack(j) ==
    /\ job[j].state = "leased"
    /\ job[j].attempts < MaxAttempts
    /\ job' = [job EXCEPT ![j] = Unleased("queued", job[j].attempts)]
    /\ UNCHANGED answers

\* A job ends from the queue as well as from a lease.
End(j) ==
    /\ job[j].state \in {"queued", "leased"}
    /\ job' = [job EXCEPT ![j] = Unleased("ended", job[j].attempts)]
    /\ UNCHANGED answers

\* The leases of any set of jobs run out together: each is queued again, or
\* ends when it has no attempt left.
RunOut(expired) ==
    /\ \A j \in expired : job[j].state = "leased"
    /\ job' = [j \in Jobs |->
                 IF j \notin expired THEN job[j]
                 ELSE Unleased(IF job[j].attempts < MaxAttempts THEN "queued" ELSE "ended",
                               job[j].attempts)]
    /\ UNCHANGED answers

QueueNext ==
    \/ \E j \in Jobs :
          \/ Submit(j) \/ Answer(j) \/ GiveBack(j) \/ End(j)
          \/ \E o \in Owners : Lease(j, o)
    \/ \E expired \in SUBSET Jobs : RunOut(expired)

QueueSpec == QueueInit /\ [][QueueNext]_jobVars
=============================================================================
