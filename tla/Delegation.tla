----------------------------- MODULE Delegation -----------------------------
(***************************************************************************)
(* The specialists of app/agents.py.  The supervisor's call ask_triage or  *)
(* ask_resolution runs a specialist's whole loop: the model is asked for a *)
(* turn, every tool call of the turn goes through run_tool, the results    *)
(* are given to the model, until it answers or the step limit is reached.  *)
(*                                                                         *)
(* A delegation is named by its parent key.  It is executed again whenever *)
(* its result was not recorded, by the same worker or by another one that  *)
(* took the lease over meanwhile (no heartbeat is sent inside it), and     *)
(* then the model is asked again and may answer differently.  The key of a *)
(* side effect is made of the parent key, the position and the call.       *)
(*                                                                         *)
(* A process begins with migrate, which puts the seed rows in; the tables  *)
(* and the effects of the tools are those of SupportDb.                    *)
(***************************************************************************)
EXTENDS SupportDb

CONSTANTS
    Parents,     \* keys of the supervisor's calls
    AgentOf,     \* the specialist each of them asks
    Lookups,     \* calls of the triage tools
    Writes,      \* calls of the resolution tools
    Turns,       \* the turns with tool calls a model may answer
    SPECIALIST_MAX_STEPS,
    MaxCalls,    \* bound: calls of one turn
    MaxPasses    \* bound: executions of each delegation

MaxSeq == SPECIALIST_MAX_STEPS + MaxCalls

\* Only the resolution specialist has SIDE_EFFECTS, and with them keys.
Resolutions == {p \in Parents : AgentOf[p] = "resolution"}

ASSUME DelegationAssumption ==
    /\ AgentOf \in [Parents -> {"triage", "resolution"}]
    /\ Writes \subseteq Call
    /\ \A turn \in Turns : turn \in Seq(Lookups \cup Writes) /\ Len(turn) \in 1 .. MaxCalls
    /\ Keys = [parent : Resolutions, seq : 2 .. MaxSeq, call : Writes]
    /\ \A k \in Keys : CallOf[k] = k.call
    /\ SPECIALIST_MAX_STEPS \in Nat \ {0} /\ MaxCalls \in Nat
    /\ MaxPasses \in [Parents -> Nat]

VARIABLES
    agent,   \* per worker process: where it is in run_specialist
    passes,  \* history: how often each delegation was begun
    seeded   \* whether the seed rows of migrate have been committed

delegationVars == <<db, view, call, day, effects, agent, passes, seeded>>

-----------------------------------------------------------------------------

\* A result of `once` that the model was given.
Told == [key : Keys, result : Results, replayed : BOOLEAN]

Agent == [pc : {"off", "seeding", "idle", "loop"}, parent : Parents \cup {NULL},
          seq : 0 .. MaxSeq, pending : Seq(Lookups \cup Writes), heard : SUBSET Told]

At(pc) == [pc |-> pc, parent |-> NULL, seq |-> 0, pending |-> <<>>, heard |-> {}]

DelegationTypeOK == /\ SupportTypeOK
                    /\ agent \in [Workers -> Agent]
                    /\ passes \in [Parents -> Nat]
                    /\ seeded \in BOOLEAN

Goto(w, pc) == agent' = [agent EXCEPT ![w] = At(pc)]

\* Between two calls of the loop of w, with calls of the turn left or with none.
Calling(w) == agent[w].pc = "loop" /\ call[w].phase = "idle" /\ agent[w].pending # <<>>
Asking(w) == agent[w].pc = "loop" /\ agent[w].pending = <<>>

\* (the position is left out)
KeyWithoutSeq(w) == [parent |-> agent[w].parent, seq |-> 2, call |-> Head(agent[w].pending)]

\* idempotency_key(parent_key, seq, call.name, call.args)
KeyOf(w) == [parent |-> agent[w].parent, seq |-> agent[w].seq + 1,
             call |-> Head(agent[w].pending)]

\* toolset.SIDE_EFFECTS
IsSideEffect(w) == agent[w].parent \in Resolutions /\ Head(agent[w].pending) \in Writes

\* The call of the turn has its result; told is what `once` returned.
Advance(w, told) ==
    agent' = [agent EXCEPT ![w].seq = @ + 1, ![w].pending = Tail(@), ![w].heard = @ \cup told]

-----------------------------------------------------------------------------

\* migrate of a new process: nothing to do, or no account counted yet.
MigrateCount(w) ==
    /\ agent[w].pc = "off"
    /\ Goto(w, IF seeded THEN "idle" ELSE "seeding")
    /\ UNCHANGED <<supportVars, passes, seeded>>

\* All seed rows go in under fixed ids, in one transaction.
MigrateInsert(w) ==
    /\ agent[w].pc = "seeding"
    /\ ~seeded
    /\ seeded' = TRUE
    /\ Goto(w, "idle")
    /\ UNCHANGED <<supportVars, passes>>

\* Another process was faster: account has a row of that id, the transaction is
\* rolled back and the process ends.
MigrateRefused(w) ==
    /\ agent[w].pc = "seeding"
    /\ seeded
    /\ Goto(w, "off")
    /\ UNCHANGED <<supportVars, passes, seeded>>

\* SupervisorTools.delegate, of a run that this worker executes for the first
\* time or again.
Delegate(w, p) ==
    /\ agent[w].pc = "idle"
    /\ passes[p] < MaxPasses[p]
    /\ passes' = [passes EXCEPT ![p] = @ + 1]
    /\ agent' = [agent EXCEPT ![w] = [At("loop") EXCEPT !.parent = p]]
    /\ UNCHANGED <<supportVars, seeded>>

\* (one step too many)
StepsReach(w) == agent[w].seq <= SPECIALIST_MAX_STEPS
StepsLeft(w) == agent[w].seq < SPECIALIST_MAX_STEPS

\* (seq starts anew with every turn)
GenerateAnew(w) ==
    /\ Asking(w) /\ StepsLeft(w)
    /\ \E turn \in Turns :
          agent' = [agent EXCEPT ![w].seq = 1, ![w].pending = turn]
    /\ UNCHANGED <<supportVars, passes, seeded>>

\* provider.generate asks for tool calls.
Generate(w) ==
    /\ Asking(w) /\ StepsLeft(w)
    /\ \E turn \in Turns :
          agent' = [agent EXCEPT ![w].seq = @ + 1, ![w].pending = turn]
    /\ UNCHANGED <<supportVars, passes, seeded>>

\* The model answers, the provider raises AgentError, or no step is left.
Return(w) ==
    /\ Asking(w)
    /\ Goto(w, "idle")
    /\ UNCHANGED <<supportVars, passes, seeded>>

\* (a lookup reads in a snapshot of its own)
CallPlainToolAfresh(w) ==
    /\ Calling(w) /\ ~IsSideEffect(w)
    /\ Advance(w, {})
    /\ IF agent[w].parent \notin Resolutions /\ Head(agent[w].pending) \in Lookups
       THEN view' = [view EXCEPT ![w] = db] ELSE UNCHANGED view
    /\ UNCHANGED <<db, call, day, effects, passes, seeded>>

\* run_tool with a call that goes past `once`: a lookup, which leaves a snapshot
\* open, or a tool that the specialist does not have.
CallPlainTool(w) ==
    /\ Calling(w) /\ ~IsSideEffect(w)
    /\ Advance(w, {})
    /\ IF agent[w].parent \notin Resolutions /\ Head(agent[w].pending) \in Lookups
       THEN OpenView(w) ELSE UNCHANGED view
    /\ UNCHANGED <<db, call, day, effects, passes, seeded>>

\* run_tool with a side effect: once returns the stored result ...
Replay(w) ==
    LET k == KeyOf(w)
    IN  /\ Calling(w) /\ IsSideEffect(w)
        /\ OnceReplay(w, k)
        /\ Advance(w, {[key |-> k, result |-> Snapshot(w).idempotency[k], replayed |-> TRUE]})
        /\ UNCHANGED <<passes, seeded>>

\* ... or calls the tool.
BeginEffect(w) ==
    /\ Calling(w) /\ IsSideEffect(w)
    /\ OnceBegin(w, KeyOf(w))
    /\ UNCHANGED <<agent, passes, seeded>>

\* The effect goes on, or it fails and the model is told tool_failed.
RunEffect(w) ==
    /\ Effect(w)
    /\ IF call'[w] = NoCall THEN Advance(w, {}) ELSE UNCHANGED agent
    /\ UNCHANGED <<passes, seeded>>

\* (the worker's own result, whatever is stored by now)
OwnResult(w) == {[key |-> call[w].key, result |-> call[w].result, replayed |-> FALSE]}

\* What once returns: its own result, or tool_failed if the key was stored meanwhile.
ReturnedByOnce(w) ==
    IF db.idempotency[call[w].key] = NULL THEN OwnResult(w) ELSE {}

StoreResult(w) ==
    /\ StoreKey(w)
    /\ Advance(w, ReturnedByOnce(w))
    /\ UNCHANGED <<passes, seeded>>

-----------------------------------------------------------------------------

\* The process dies, wherever it is.
Die(w) ==
    /\ agent[w].pc # "off"
    /\ Goto(w, "off")
    /\ ToolFailed(w)
    /\ UNCHANGED <<passes, seeded>>

DelegationInit ==
    /\ SupportInit
    /\ agent = [w \in Workers |-> At("off")]
    /\ passes = [p \in Parents |-> 0]
    /\ seeded = FALSE

Start(w) ==
    \/ MigrateCount(w) \/ MigrateInsert(w) \/ MigrateRefused(w)
    \/ \E p \in Parents : Delegate(w, p)

\* The body of run_specialist.
Loop(w) ==
    \/ Generate(w) \/ Return(w)
    \/ CallPlainTool(w) \/ Replay(w) \/ BeginEffect(w) \/ RunEffect(w) \/ StoreResult(w)

DelegationNext ==
    \/ \E w \in Workers : Start(w) \/ Loop(w) \/ Die(w)
    \/ NextDay /\ UNCHANGED <<agent, passes, seeded>>

\* A provider's and a database's call returns, in one way or the other.
DelegationSpec == /\ DelegationInit /\ [][DelegationNext]_delegationVars
                  /\ \A w \in Workers : WF_delegationVars(Loop(w))

-----------------------------------------------------------------------------
(* Properties.                                                             *)

(***************************************************************************)
(* A result that a specialist was told by `once` is the one stored under   *)
(* the call's key: two workers that execute one delegation at the same     *)
(* time, or one after the other, never hear different results for the same *)
(* call, although both may have carried it out.                            *)
(***************************************************************************)
HeardIsStored ==
    \A w \in Workers : \A told \in agent[w].heard :
        db.idempotency[told.key] = told.result

(***************************************************************************)
(* Nothing is replayed in the only execution of a delegation: a message or *)
(* a ticket that the model asks for a second time is asked of the tool     *)
(* again, because its position is part of the key.                         *)
(***************************************************************************)
NotReplayedAtFirst ==
    \A w \in Workers : \A told \in agent[w].heard :
        told.replayed => passes[told.key.parent] > 1

(***************************************************************************)
(* once does not make an effect exactly-once, but nothing inside an        *)
(* execution of a delegation repeats one: a call that failed is not made   *)
(* again under its key, the next turn counts on from the last position,    *)
(* and the commit of the effect is the tool's last word.  So an effect is  *)
(* made at most as often as its delegation was begun, whoever executes it  *)
(* at the same time and wherever processes die.                            *)
(***************************************************************************)
EffectsBoundedByPasses == \A k \in Keys : effects[k] <= passes[k.parent]

\* Specialists use `once`, the tools and their connections in one of the orders
\* that SupportDb allows to any callers: what is said there holds of them.
ImplementsSupportDb == SupportSpec

\* Whatever turns the model makes, whatever fails and whoever executes the same
\* delegation: the supervisor's call returns, unless its process dies.
DelegationsReturn ==
    \A w \in Workers : agent[w].pc = "loop" ~> agent[w].pc # "loop"

\* The most steps that are left of the loop of w: four for each call of its turn,
\* less those that the call at hand has made, and for every turn that may still
\* begin one, and four for each of its calls.
LoopLeft(w) ==
    LET calls == Len(agent[w].pending)
        end == agent[w].seq + calls
        turns == IF end < SPECIALIST_MAX_STEPS THEN SPECIALIST_MAX_STEPS - end ELSE 0
        made == CASE call[w].phase = "effect" -> 1
                  [] call[w].phase = "find" -> 2
                  [] call[w].phase = "key" -> 3
                  [] OTHER -> 0
    IN  IF agent[w].pc = "loop" THEN (4 * MaxCalls + 1) * turns + 4 * calls - made + 1 ELSE 0

(***************************************************************************)
(* No specialist's loop goes round forever, whatever the model asks for    *)
(* and whatever fails: each step of it brings it nearer to its end.  A     *)
(* call that failed is not repeated, seq counts calls as well as turns,    *)
(* and the step limit is compared before every turn.                       *)
(***************************************************************************)
LoopsRunDown ==
    [][\A w \in Workers : agent[w].pc = "loop" =>
          \/ agent'[w] = agent[w] /\ call'[w] = call[w]
          \/ LoopLeft(w)' < LoopLeft(w)]_delegationVars
=============================================================================
