-------------------------- MODULE DelegationProofs --------------------------
(***************************************************************************)
(* Theorems about specialists, for any number of workers and delegations,  *)
(* any turns of the model and any limits.                                  *)
(*                                                                         *)
(* A specialist in the middle of a side effect is at the call of its turn  *)
(* that the key was made of (AgentFine); so every key is one of Keys, and  *)
(* specialists do with the tables only what SupportDb allows to anybody.   *)
(***************************************************************************)
EXTENDS Delegation, SupportDbProofs

-----------------------------------------------------------------------------
(* The constants.                                                          *)

LEMMA TurnsAreCalls ==
    ASSUME NEW turn \in Turns
    PROVE  turn \in Seq(Lookups \cup Writes) /\ Len(turn) \in 1 .. MaxCalls
BY DelegationAssumption

LEMMA Limits ==
    /\ SPECIALIST_MAX_STEPS \in Nat /\ MaxCalls \in Nat
    /\ MaxSeq \in Nat /\ MaxSeq = SPECIALIST_MAX_STEPS + MaxCalls
BY DelegationAssumption DEF MaxSeq

LEMMA KeysAreCalls == Keys = [parent : Resolutions, seq : 2 .. MaxSeq, call : Writes]
BY DelegationAssumption

-----------------------------------------------------------------------------
(* A specialist and its call.                                              *)

\* A worker in the state x, with the call c of once.
AgentFine(x, c) ==
    /\ x.pc = "loop" => x.parent \in Parents
    /\ x.pending # <<>> => x.pc = "loop" /\ 1 <= x.seq /\ x.seq + Len(x.pending) <= MaxSeq
    /\ \/ c = NoCall
       \/ /\ c.phase # "idle"
          /\ x.pending # <<>> /\ x.parent \in Resolutions /\ Head(x.pending) \in Writes
          /\ c.key = [parent |-> x.parent, seq |-> x.seq + 1, call |-> Head(x.pending)]

AgentsInv == /\ agent \in [Workers -> Agent]
             /\ passes \in [Parents -> Nat]
             /\ seeded \in BOOLEAN
             /\ \A w \in Workers : AgentFine(agent[w], call[w])

DelegInv == Inv /\ AgentsInv

\* What an action of w makes of its own state, y, and of the rest.
Becomes(w, y) ==
    /\ agent' = [agent EXCEPT ![w] = y]
    /\ AgentFine(y, call'[w])
    /\ \A v \in Workers \ {w} : call'[v] = call[v]

SameKeys == db'.idempotency = db.idempotency

\* Its loop ends, or has not begun.
Leaves(w, y) == y.pc # "loop" /\ y.heard = {} /\ SameKeys /\ passes' = passes

\* It begins the delegation p.
Starts(w, y, p) == /\ agent[w].pc # "loop"
                   /\ y.pc = "loop" /\ y.parent = p /\ y.heard = {} /\ SameKeys
                   /\ passes' = [passes EXCEPT ![p] = @ + 1]

\* A call whose effect, if it has one, is committed.
Done(c) == c.phase \in {"find", "key"}

\* It goes on in its loop, and not back.
GoesOn(w, y) == /\ y.pc = agent[w].pc /\ y.parent = agent[w].parent /\ y.seq >= agent[w].seq
                /\ y.seq = agent[w].seq /\ Done(call[w]) => Done(call'[w])
                /\ passes' = passes

Quiet(w, y) == GoesOn(w, y) /\ y.heard = agent[w].heard /\ SameKeys

\* It hears r, stored before.
HearsAgain(w, y, r) == /\ GoesOn(w, y) /\ SameKeys /\ agent[w].pc = "loop"
                       /\ y.heard = agent[w].heard \cup {r}
                       /\ r \in Told /\ r.key.parent = agent[w].parent
                       /\ r.key.seq = agent[w].seq + 1
                       /\ db.idempotency[r.key] = r.result

\* It hears r, its own result, and stores it.
Hears(w, y, r) == /\ GoesOn(w, y) /\ agent[w].pc = "loop" /\ y.seq = agent[w].seq + 1
                  /\ y.heard = agent[w].heard \cup {r}
                  /\ r \in Told /\ ~r.replayed /\ r.key.parent = agent[w].parent
                  /\ r.key.seq = y.seq
                  /\ db.idempotency[r.key] = NULL
                  /\ db'.idempotency = [db.idempotency EXCEPT ![r.key] = r.result]

Forms(w, y) == \/ Leaves(w, y)
               \/ \E p \in Parents : Starts(w, y, p)
               \/ Quiet(w, y)
               \/ \E r \in Told : HearsAgain(w, y, r) \/ Hears(w, y, r)

-----------------------------------------------------------------------------
(* The actions.                                                            *)

LEMMA Idle ==
    ASSUME DelegInv, NEW w \in Workers
    PROVE  /\ agent[w] \in Agent /\ call[w] \in CallState
           /\ AgentFine(agent[w], call[w]) /\ NoCall.phase = "idle"
           /\ call[w].phase = "idle" <=> call[w] = NoCall
           /\ agent[w].pc # "loop" \/ agent[w].pending = <<>> => call[w] = NoCall
BY DEF DelegInv, Inv, SupportTypeOK, AgentsInv, AgentFine, NoCall

LEMMA AtIsFine ==
    ASSUME NEW pc \in {"off", "seeding", "idle"}
    PROVE  /\ At(pc) \in Agent /\ AgentFine(At(pc), NoCall)
           /\ At(pc).pc = pc /\ At(pc).heard = {}
BY Limits DEF At, Agent, AgentFine

LEMMA GotoStep ==
    ASSUME DelegInv, NEW w \in Workers, NEW pc \in {"off", "seeding", "idle"}, Goto(w, pc),
           call'[w] = NoCall, \A v \in Workers \ {w} : call'[v] = call[v],
           SameKeys, passes' = passes
    PROVE  \E y \in Agent : Becomes(w, y) /\ Forms(w, y)
<1>1. PICK y \in Agent : y = At(pc)
  BY AtIsFine
<1>2. Becomes(w, y)
  BY <1>1, AtIsFine DEF Becomes, Goto
<1>3. Leaves(w, y)
  BY <1>1, AtIsFine DEF Leaves
<1> QED BY <1>2, <1>3 DEF Forms

LEMMA StartStep ==
    ASSUME DelegInv, NEW w \in Workers, Start(w)
    PROVE  /\ \E y \in Agent : Becomes(w, y) /\ Forms(w, y)
           /\ UNCHANGED supportVars
<1>1. ASSUME MigrateCount(w) \/ MigrateInsert(w) \/ MigrateRefused(w)
      PROVE  /\ \E y \in Agent : Becomes(w, y) /\ Forms(w, y)
             /\ UNCHANGED supportVars
  <2>1. agent[w].pc # "loop" /\ UNCHANGED supportVars /\ passes' = passes
    BY <1>1 DEF MigrateCount, MigrateInsert, MigrateRefused
  <2>2. call' = call /\ call[w] = NoCall /\ SameKeys
    BY <2>1, Idle DEF supportVars, SameKeys
  <2>3. \E pc \in {"off", "seeding", "idle"} : Goto(w, pc)
    BY <1>1 DEF MigrateCount, MigrateInsert, MigrateRefused
  <2> QED BY <2>1, <2>2, <2>3, GotoStep
<1>2. ASSUME NEW p \in Parents, Delegate(w, p)
      PROVE  /\ \E y \in Agent : Becomes(w, y) /\ Forms(w, y)
             /\ UNCHANGED supportVars
  <2> DEFINE x == [At("loop") EXCEPT !.parent = p]
  <2>1. /\ x \in Agent /\ x.pc = "loop" /\ x.parent = p /\ x.pending = <<>> /\ x.heard = {}
    <3> HIDE DEF x
    <3>0. /\ At("loop") \in Agent
          /\ At("loop").pc = "loop" /\ At("loop").pending = <<>> /\ At("loop").heard = {}
      BY Limits DEF At, Agent
    <3>1. PICK me \in Agent : /\ me = At("loop") /\ me.pc = "loop"
                              /\ me.pending = <<>> /\ me.heard = {}
      BY <3>0
    <3>2. p \in Parents \cup {NULL}
      OBVIOUS
    <3>3. [me EXCEPT !.parent = p] \in Agent
      BY <3>2 DEF Agent
    <3>4. PICK z \in Agent : z = [me EXCEPT !.parent = p]
      BY <3>3
    <3>5. /\ z.pc = me.pc /\ z.parent = p /\ z.pending = me.pending /\ z.heard = me.heard
      BY <3>4 DEF Agent
    <3>6. x = z
      BY <3>1, <3>4, Zenon DEF x
    <3> QED BY <3>1, <3>5, <3>6
  <2>2. agent' = [agent EXCEPT ![w] = x]
    BY <1>2, Zenon DEF Delegate
  <2> HIDE DEF x
  <2>3. PICK y \in Agent : y = x
    BY <2>1
  <2>4. /\ agent[w].pc # "loop" /\ UNCHANGED supportVars
        /\ passes' = [passes EXCEPT ![p] = @ + 1]
    BY <1>2 DEF Delegate
  <2>5. call' = call /\ call[w] = NoCall /\ SameKeys
    BY <2>4, Idle DEF supportVars, SameKeys
  <2>6. Becomes(w, y)
    BY <2>1, <2>2, <2>3, <2>5 DEF Becomes, AgentFine
  <2>7. Starts(w, y, p)
    BY <2>1, <2>3, <2>4, <2>5 DEF Starts
  <2> QED BY <2>4, <2>6, <2>7 DEF Forms
<1> QED BY <1>1, <1>2 DEF Start

LEMMA GenerateStep ==
    ASSUME DelegInv, NEW w \in Workers, Generate(w)
    PROVE  \E y \in Agent : Becomes(w, y) /\ Forms(w, y)
<1>1. PICK turn \in Turns : agent' = [agent EXCEPT ![w].seq = @ + 1, ![w].pending = turn]
  BY Zenon DEF Generate
<1>2. /\ agent[w].pc = "loop" /\ agent[w].pending = <<>>
      /\ agent[w].seq < SPECIALIST_MAX_STEPS
      /\ UNCHANGED supportVars /\ passes' = passes
  BY DEF Generate, Asking, StepsLeft
<1>3. turn \in Seq(Lookups \cup Writes) /\ Len(turn) \in 1 .. MaxCalls
  BY TurnsAreCalls
<1> DEFINE x == [agent[w] EXCEPT !.seq = @ + 1, !.pending = turn]
<1>4. /\ x.pc = agent[w].pc /\ x.parent = agent[w].parent /\ x.heard = agent[w].heard
      /\ x.seq = agent[w].seq + 1 /\ x.pending = turn
  BY Idle DEF Agent
<1>5. x \in Agent
  <2>1. PICK me \in Agent : me = agent[w]
    BY Idle
  <2>2. me.seq + 1 \in 0 .. MaxSeq
    BY <1>2, <2>1, Limits DEF Agent
  <2> QED BY <1>3, <2>1, <2>2 DEF Agent
<1>6. agent' = [agent EXCEPT ![w] = x]
  BY <1>1, Zenon
<1> HIDE DEF x
<1>7. call' = call /\ call[w] = NoCall /\ SameKeys
  BY <1>2, Idle DEF supportVars, SameKeys
<1>8. agent[w].seq \in Nat /\ agent[w].parent \in Parents
  <2>1. PICK me \in Agent : me = agent[w] /\ me.seq \in Nat
    BY Idle, Limits DEF Agent
  <2>2. AgentFine(me, call[w])
    BY <2>1, Idle
  <2> QED BY <1>2, <2>1, <2>2 DEF AgentFine
<1>9. Becomes(w, x)
  <2>1. AgentFine(x, NoCall)
    BY <1>2, <1>3, <1>4, <1>8, Limits DEF AgentFine
  <2>2. agent'[w] = x /\ call'[w] = NoCall
    BY <1>6, <1>7 DEF DelegInv, AgentsInv
  <2> QED BY <1>6, <1>7, <2>1, <2>2 DEF Becomes
<1>10. Quiet(w, x)
  BY <1>2, <1>4, <1>7, <1>8 DEF Quiet, GoesOn
<1> QED BY <1>5, <1>9, <1>10 DEF Forms

\* The next call of the turn.
LEMMA Advanced ==
    ASSUME DelegInv, NEW w \in Workers, agent[w].pc = "loop", agent[w].pending # <<>>,
           NEW told \in SUBSET Told, Advance(w, told),
           call'[w] = NoCall, \A v \in Workers \ {w} : call'[v] = call[v], passes' = passes
    PROVE  \E y \in Agent : /\ Becomes(w, y) /\ GoesOn(w, y)
                            /\ y.seq = agent[w].seq + 1
                            /\ y.heard = agent[w].heard \cup told
<1> DEFINE x == [agent[w] EXCEPT !.seq = @ + 1, !.pending = Tail(@), !.heard = @ \cup told]
<1>1. /\ x.pc = agent[w].pc /\ x.parent = agent[w].parent
      /\ x.heard = agent[w].heard \cup told
      /\ x.seq = agent[w].seq + 1 /\ x.pending = Tail(agent[w].pending)
  BY Idle DEF Agent
<1>2. PICK s \in Seq(Lookups \cup Writes) : s = agent[w].pending
  BY Idle DEF Agent
<1>3. /\ Tail(s) \in Seq(Lookups \cup Writes) /\ Len(Tail(s)) = Len(s) - 1
      /\ Len(s) \in Nat /\ Len(s) >= 1
  BY <1>2
<1>4. /\ agent[w].seq \in Nat /\ 1 <= agent[w].seq /\ agent[w].seq + Len(s) <= MaxSeq
      /\ agent[w].parent \in Parents
  <2>1. PICK me \in Agent : me = agent[w] /\ me.seq \in Nat
    BY Idle, Limits DEF Agent
  <2>2. AgentFine(me, call[w])
    BY <2>1, Idle
  <2> QED BY <1>2, <2>1, <2>2 DEF AgentFine
<1>5. MaxSeq \in Nat
  BY Limits
<1>6. x \in Agent
  <2>1. PICK me \in Agent : me = agent[w]
    BY Idle
  <2>2. me.heard \cup told \in SUBSET Told /\ me.seq + 1 \in 0 .. MaxSeq
    BY <1>3, <1>4, <1>5, <2>1 DEF Agent
  <2> QED BY <1>2, <1>3, <2>1, <2>2 DEF Agent
<1>7. agent' = [agent EXCEPT ![w] = x]
  BY Zenon DEF Advance
<1> HIDE DEF x
<1>8. Becomes(w, x)
  BY <1>1, <1>2, <1>3, <1>4, <1>5, <1>7 DEF Becomes, AgentFine
<1>9. GoesOn(w, x)
  BY <1>1, <1>4 DEF GoesOn
<1> QED BY <1>1, <1>6, <1>8, <1>9

LEMMA PlainStep ==
    ASSUME DelegInv, NEW w \in Workers, CallPlainTool(w)
    PROVE  /\ \E y \in Agent : Becomes(w, y) /\ Forms(w, y)
           /\ Browse(w) \/ UNCHANGED supportVars
<1>1. /\ agent[w].pc = "loop" /\ agent[w].pending # <<>> /\ call[w].phase = "idle"
      /\ Advance(w, {})
      /\ OpenView(w) \/ UNCHANGED view
      /\ UNCHANGED <<db, call, day, effects, passes, seeded>>
  BY DEF CallPlainTool, Calling
<1>2. PICK y \in Agent : Becomes(w, y) /\ GoesOn(w, y) /\ y.heard = agent[w].heard \cup {}
  BY <1>1, Idle, Advanced
<1>3. Quiet(w, y)
  BY <1>1, <1>2 DEF Quiet, SameKeys
<1>4. Browse(w) \/ UNCHANGED supportVars
  <2>1. CASE view[w] = NULL
    BY <1>1, <2>1 DEF Browse, supportVars
  <2>2. CASE view[w] # NULL
    <3>1. view \in [Workers -> Tables \cup {NULL}]
      BY DEF DelegInv, Inv, SupportTypeOK
    <3>2. OpenView(w) => view' = view
      BY <2>2, <3>1 DEF OpenView, Snapshot
    <3> QED BY <1>1, <3>2 DEF supportVars
  <2> QED BY <2>1, <2>2
<1> QED BY <1>2, <1>3, <1>4 DEF Forms

\* Every key that a specialist makes is one of Keys.
LEMMA KeyIsKnown ==
    ASSUME DelegInv, NEW w \in Workers, Calling(w), IsSideEffect(w)
    PROVE  KeyOf(w) \in Keys
<1>1. PICK s \in Seq(Lookups \cup Writes) : s = agent[w].pending
  BY Idle DEF Agent
<1>2. s # <<>> /\ Len(s) \in Nat /\ Len(s) >= 1
  BY <1>1 DEF Calling
<1>3. /\ agent[w].seq \in Nat /\ 1 <= agent[w].seq /\ agent[w].seq + Len(s) <= MaxSeq
      /\ MaxSeq \in Nat
  <2>1. PICK me \in Agent : me = agent[w] /\ me.seq \in Nat
    BY Idle, Limits DEF Agent
  <2>2. AgentFine(me, call[w])
    BY <2>1, Idle
  <2> QED BY <1>1, <1>2, <2>1, <2>2, Limits DEF AgentFine
<1>4. agent[w].seq + 1 \in 2 .. MaxSeq
  BY <1>2, <1>3
<1> QED BY <1>4, KeysAreCalls DEF IsSideEffect, KeyOf

LEMMA ReplayStep ==
    ASSUME DelegInv, NEW w \in Workers, Replay(w)
    PROVE  /\ \E y \in Agent : Becomes(w, y) /\ Forms(w, y)
           /\ \E k \in Keys : OnceReplay(w, k)
<1>1. /\ Calling(w) /\ IsSideEffect(w) /\ OnceReplay(w, KeyOf(w))
      /\ agent[w].pc = "loop" /\ agent[w].pending # <<>> /\ call[w].phase = "idle"
      /\ UNCHANGED <<passes, seeded>>
  BY DEF Replay, Calling
<1>2. PICK k \in Keys : k = KeyOf(w)
  BY <1>1, KeyIsKnown
<1>3. k.parent = agent[w].parent /\ k.seq = agent[w].seq + 1
  BY <1>2 DEF KeyOf
<1>4. PICK result \in Results : /\ Snapshot(w).idempotency[k] = result
                                /\ db.idempotency[k] = result
  <2>1. Snapshot(w) \in Tables /\ Grows(Snapshot(w), db) /\ Snapshot(w).idempotency[k] # NULL
    BY <1>1, <1>2, SnapshotGrows DEF OnceReplay, DelegInv
  <2> QED BY <2>1 DEF Grows, Tables
<1>5. PICK r \in Told : r = [key |-> k, result |-> result, replayed |-> TRUE]
  BY DEF Told
<1>6. Advance(w, {r})
  BY <1>2, <1>4, <1>5, Zenon DEF Replay
<1>7. call' = call /\ SameKeys
  BY <1>1 DEF OnceReplay, SameKeys
<1>8. PICK y \in Agent : Becomes(w, y) /\ GoesOn(w, y) /\ y.heard = agent[w].heard \cup {r}
  BY <1>1, <1>6, <1>7, Idle, Advanced
<1>9. HearsAgain(w, y, r)
  BY <1>1, <1>3, <1>4, <1>5, <1>7, <1>8 DEF HearsAgain
<1> QED BY <1>1, <1>2, <1>8, <1>9 DEF Forms

LEMMA BeginEffectStep ==
    ASSUME DelegInv, NEW w \in Workers, BeginEffect(w)
    PROVE  /\ \E y \in Agent : Becomes(w, y) /\ Forms(w, y)
           /\ \E k \in Keys : OnceBegin(w, k)
<1>1. /\ Calling(w) /\ IsSideEffect(w) /\ OnceBegin(w, KeyOf(w))
      /\ agent[w].pc = "loop" /\ agent[w].pending # <<>> /\ call[w].phase = "idle"
      /\ UNCHANGED <<agent, passes, seeded>>
  BY DEF BeginEffect, Calling
<1>2. PICK k \in Keys : k = KeyOf(w)
  BY <1>1, KeyIsKnown
<1> DEFINE refusal == Refusal(Snapshot(w), k)
           c == Begin(k, IF refusal = NULL THEN "effect" ELSE "key", refusal)
<1>3. call' = [call EXCEPT ![w] = c]
  BY <1>1, <1>2, Zenon DEF OnceBegin
<1>4. /\ call'[w].phase \in {"effect", "key"} /\ call'[w].key = k
      /\ \A v \in Workers \ {w} : call'[v] = call[v]
  <2>1. c.phase \in {"effect", "key"} /\ c.key = k
    BY DEF Begin
  <2> HIDE DEF c
  <2> QED BY <1>3, <2>1 DEF DelegInv, Inv, SupportTypeOK
<1> HIDE DEF c
<1>5. PICK y \in Agent : y = agent[w]
  BY Idle
<1>6. agent' = [agent EXCEPT ![w] = y] /\ y.seq \in Nat
  BY <1>1, <1>5 DEF DelegInv, AgentsInv, Agent
<1>7. SameKeys
  BY <1>1 DEF OnceBegin, SameKeys
<1>8. Becomes(w, y)
  BY <1>1, <1>2, <1>4, <1>5, <1>6, Idle DEF Becomes, AgentFine, IsSideEffect, KeyOf
<1>9. Quiet(w, y)
  BY <1>1, <1>5, <1>6, <1>7 DEF Quiet, GoesOn, Done
<1> QED BY <1>1, <1>2, <1>8, <1>9 DEF Forms

\* A step of a tool changes no table, or commits its effect; that is its last
\* but for the look at the ticket.
Counted(w) == \/ effects' = effects
              \/ /\ call[w].phase = "effect" /\ Done(call'[w])
                 /\ effects' = [effects EXCEPT ![call[w].key] = @ + 1]

\* The effect commits, looks its ticket up, or fails; the key comes later.
LEMMA EffectCalls ==
    ASSUME Inv, NEW w \in Workers, Effect(w)
    PROVE  /\ call[w].phase # "idle" /\ SameKeys /\ Counted(w)
           /\ \/ call[w].phase = "effect"
              \/ call[w].phase = "find" /\ call'[w].phase = "key"
           /\ \A v \in Workers \ {w} : call'[v] = call[v]
           /\ \/ call'[w] = NoCall
              \/ call'[w].phase \in {"find", "key"} /\ call'[w].key = call[w].key
<1>1. call \in [Workers -> CallState] /\ db \in Tables /\ effects \in [Keys -> Nat]
  BY DEF Inv, SupportTypeOK
<1>2. ASSUME CreateDeadlock(w) \/ ToolFailed(w), call[w].phase = "effect"
      PROVE  /\ SameKeys /\ call'[w] = NoCall /\ Counted(w)
             /\ \A v \in Workers \ {w} : call'[v] = call[v]
  BY <1>1, <1>2 DEF CreateDeadlock, ToolFailed, SameKeys, Counted
<1>3. ASSUME NEW tables, NEW phase \in {"find", "key"}, NEW result,
             Committed(w, tables, phase, result), tables.idempotency = db.idempotency,
             call[w].phase = "effect"
      PROVE  /\ SameKeys /\ Counted(w)
             /\ call'[w].phase \in {"find", "key"} /\ call'[w].key = call[w].key
             /\ \A v \in Workers \ {w} : call'[v] = call[v]
  <2> DEFINE c == [call[w] EXCEPT !.phase = phase, !.result = result]
  <2>1. call[w] \in CallState /\ c.phase = phase /\ c.key = call[w].key
    BY <1>1 DEF CallState
  <2>2. call' = [call EXCEPT ![w] = c] /\ db' = tables
    BY <1>3, Zenon DEF Committed
  <2> HIDE DEF c
  <2>3. call'[w] = c
    BY <1>1, <2>2
  <2>4. Counted(w)
    <3>1. effects' = [effects EXCEPT ![call[w].key] = @ + (IF tables = db THEN 0 ELSE 1)]
      BY <1>3 DEF Committed
    <3>2. CASE tables = db
      <4>1. effects' = [effects EXCEPT ![call[w].key] = @ + 0]
        BY <3>1, <3>2, Zenon
      <4> QED BY <1>1, <4>1 DEF Counted
    <3>3. CASE tables # db
      <4>1. effects' = [effects EXCEPT ![call[w].key] = @ + 1]
        BY <3>1, <3>3
      <4> QED BY <1>3, <2>1, <2>3, <4>1 DEF Counted, Done
    <3> QED BY <3>2, <3>3
  <2> QED BY <1>1, <1>3, <2>1, <2>2, <2>4 DEF SameKeys
<1>4. CASE FindTicket(w)
  <2>1. PICK result : call' = [call EXCEPT ![w].phase = "key", ![w].result = result]
    BY <1>4, Zenon DEF FindTicket
  <2> DEFINE c == [call[w] EXCEPT !.phase = "key", !.result = result]
  <2>2. call[w] \in CallState /\ c.phase = "key" /\ c.key = call[w].key
    BY <1>1 DEF CallState
  <2>3. call' = [call EXCEPT ![w] = c]
    BY <2>1, Zenon
  <2> HIDE DEF c
  <2>4. db' = db /\ call[w].phase = "find" /\ effects' = effects
    BY <1>4 DEF FindTicket
  <2> QED BY <1>1, <2>2, <2>3, <2>4 DEF SameKeys, Counted
<1>5. ASSUME call[w].phase = "effect",
             \/ CreateDeadlock(w) \/ ToolFailed(w)
             \/ \E tables, result : \E phase \in {"find", "key"} :
                   Committed(w, tables, phase, result) /\ tables.idempotency = db.idempotency
      PROVE  /\ call[w].phase # "idle" /\ SameKeys /\ Counted(w)
             /\ \A v \in Workers \ {w} : call'[v] = call[v]
             /\ \/ call'[w] = NoCall
                \/ call'[w].phase \in {"find", "key"} /\ call'[w].key = call[w].key
  <2>1. CASE CreateDeadlock(w) \/ ToolFailed(w)
    BY <1>2, <1>5, <2>1
  <2>2. CASE \E tables, result : \E phase \in {"find", "key"} :
                Committed(w, tables, phase, result) /\ tables.idempotency = db.idempotency
    BY <1>3, <1>5, <2>2
  <2> QED BY <1>5, <2>1, <2>2
<1>6. \A t, row : /\ Assigned(db, t).idempotency = db.idempotency
                  /\ Escalated(db, t).idempotency = db.idempotency
                  /\ [db EXCEPT !.outbox = @ \cup {row}].idempotency = db.idempotency
                  /\ [db EXCEPT !.ticket = Append(@, row)].idempotency = db.idempotency
  BY <1>1 DEF Assigned, Escalated, Tables
<1>7. CASE CreateTicket(w)
  <2>1. /\ call[w].phase = "effect"
        /\ \/ Committed(w, db, "find", Result("already_open", 0))
           \/ Committed(w, db, "key", Result("too_many", 0))
           \/ \E row : Committed(w, [db EXCEPT !.ticket = Append(@, row)], "find",
                                 Result("created", 0))
    BY <1>7, Zenon DEF CreateTicket
  <2> QED BY <1>5, <1>6, <2>1
<1>8. CASE AssignModerator(w)
  <2>1. /\ call[w].phase = "effect"
        /\ \/ ToolFailed(w)
           \/ Committed(w, db, "key", Result("repeated", Arg(w)))
           \/ Committed(w, Assigned(db, Arg(w)), "key", Result("done", Arg(w)))
    BY <1>8, Zenon DEF AssignModerator
  <2> QED BY <1>5, <1>6, <2>1
<1>9. CASE EscalateTicket(w)
  <2>1. /\ call[w].phase = "effect"
        /\ \/ ToolFailed(w)
           \/ Committed(w, db, "key", Result("repeated", Arg(w)))
           \/ Committed(w, Escalated(db, Arg(w)), "key", Result("done", Arg(w)))
    BY <1>9, Zenon DEF EscalateTicket
  <2> QED BY <1>5, <1>6, <2>1
<1>10. CASE NotifyUser(w)
  <2>1. /\ call[w].phase = "effect"
        /\ \/ ToolFailed(w)
           \/ Committed(w, db, "key", Result("repeated", 0))
           \/ \E row : Committed(w, [db EXCEPT !.outbox = @ \cup {row}], "key",
                                 Result("done", 0))
    BY <1>10, Zenon DEF NotifyUser
  <2> QED BY <1>5, <1>6, <2>1
<1>11. CASE CreateDeadlock(w)
  BY <1>5, <1>11 DEF CreateDeadlock
<1> QED BY <1>4, <1>7, <1>8, <1>9, <1>10, <1>11 DEF Effect

LEMMA RunEffectStep ==
    ASSUME DelegInv, NEW w \in Workers, RunEffect(w)
    PROVE  \E y \in Agent : Becomes(w, y) /\ Forms(w, y)
<1>1. /\ Effect(w) /\ passes' = passes
      /\ call'[w] = NoCall => Advance(w, {})
      /\ call'[w] # NoCall => agent' = agent
  BY DEF RunEffect
<1>2. /\ call[w].phase # "idle" /\ SameKeys
      /\ \A v \in Workers \ {w} : call'[v] = call[v]
      /\ \/ call'[w] = NoCall
         \/ call'[w].phase \in {"find", "key"} /\ call'[w].key = call[w].key
  BY <1>1, EffectCalls DEF DelegInv
<1>3. agent[w].pc = "loop" /\ agent[w].pending # <<>>
  BY <1>2, Idle DEF AgentFine
<1>4. CASE call'[w] = NoCall
  <2>1. PICK y \in Agent : Becomes(w, y) /\ GoesOn(w, y) /\ y.heard = agent[w].heard \cup {}
    BY <1>1, <1>2, <1>3, <1>4, Advanced
  <2>2. Quiet(w, y)
    BY <1>2, <2>1 DEF Quiet
  <2> QED BY <2>1, <2>2 DEF Forms
<1>5. CASE call'[w] # NoCall
  <2>1. PICK y \in Agent : y = agent[w]
    BY Idle
  <2>2. agent' = [agent EXCEPT ![w] = y] /\ y.seq \in Nat
    BY <1>1, <1>5, <2>1 DEF DelegInv, AgentsInv, Agent
  <2>3. Becomes(w, y)
    BY <1>2, <1>5, <2>1, <2>2, Idle DEF Becomes, AgentFine
  <2>4. Quiet(w, y)
    BY <1>1, <1>2, <1>5, <2>1, <2>2 DEF Quiet, GoesOn, Done
  <2> QED BY <2>3, <2>4 DEF Forms
<1> QED BY <1>4, <1>5

LEMMA StoreResultStep ==
    ASSUME DelegInv, NEW w \in Workers, StoreResult(w)
    PROVE  \E y \in Agent : Becomes(w, y) /\ Forms(w, y)
<1>1. /\ StoreKey(w) /\ passes' = passes /\ Advance(w, ReturnedByOnce(w))
      /\ call[w].phase = "key"
  BY DEF StoreResult, StoreKey
<1>2. /\ call[w] \in CallState /\ call[w].key \in Keys
      /\ call[w].result \in Results
  BY <1>1, InCall DEF DelegInv, CallFine
<1>3. PICK k \in Keys : k = call[w].key
  BY <1>2
<1>4. /\ agent[w].pc = "loop" /\ agent[w].pending # <<>>
      /\ k.parent = agent[w].parent /\ k.seq = agent[w].seq + 1
  <2>1. PICK me \in Agent : me = agent[w]
    BY Idle
  <2>2. AgentFine(me, call[w]) /\ call[w] # NoCall
    BY <1>1, <2>1, Idle
  <2>3. /\ me.pending # <<>> /\ me.pc = "loop"
        /\ k = [parent |-> me.parent, seq |-> me.seq + 1, call |-> Head(me.pending)]
    BY <1>3, <2>2 DEF AgentFine
  <2> QED BY <2>1, <2>3
<1>5. /\ call' = [call EXCEPT ![w] = NoCall]
      /\ call'[w] = NoCall /\ \A v \in Workers \ {w} : call'[v] = call[v]
  BY <1>1 DEF StoreKey, ToolFailed, DelegInv, Inv, SupportTypeOK
<1>6. CASE db.idempotency[k] = NULL
  <2>1. PICK r \in Told : r = [key |-> k, result |-> call[w].result, replayed |-> FALSE]
    BY <1>2 DEF Told
  <2>2. Advance(w, {r})
    BY <1>1, <1>3, <1>6, <2>1, Zenon DEF ReturnedByOnce, OwnResult
  <2>3. PICK y \in Agent : /\ Becomes(w, y) /\ GoesOn(w, y) /\ y.seq = agent[w].seq + 1
                           /\ y.heard = agent[w].heard \cup {r}
    BY <1>1, <1>4, <1>5, <2>2, Advanced
  <2>4. db' = [db EXCEPT !.idempotency[k] = call[w].result]
    BY <1>1, <1>3, <1>6 DEF StoreKey
  <2>5. db'.idempotency = [db.idempotency EXCEPT ![k] = r.result]
    BY <2>1, <2>4 DEF DelegInv, Inv, SupportTypeOK, Tables
  <2>6. Hears(w, y, r)
    BY <1>4, <1>6, <2>1, <2>3, <2>5 DEF Hears
  <2> QED BY <2>3, <2>6 DEF Forms
<1>7. CASE db.idempotency[k] # NULL
  <2>1. Advance(w, {}) /\ SameKeys
    BY <1>1, <1>3, <1>7 DEF ReturnedByOnce, StoreKey, ToolFailed, SameKeys
  <2>2. PICK y \in Agent : Becomes(w, y) /\ GoesOn(w, y) /\ y.heard = agent[w].heard \cup {}
    BY <1>1, <1>4, <1>5, <2>1, Advanced
  <2>3. Quiet(w, y)
    BY <2>1, <2>2 DEF Quiet
  <2> QED BY <2>2, <2>3 DEF Forms
<1> QED BY <1>6, <1>7

LEMMA DieStep ==
    ASSUME DelegInv, NEW w \in Workers, Die(w)
    PROVE  /\ \E y \in Agent : Becomes(w, y) /\ Forms(w, y)
           /\ CrashCall(w) \/ UNCHANGED supportVars
<1>1. /\ Goto(w, "off") /\ ToolFailed(w) /\ passes' = passes
      /\ call' = [call EXCEPT ![w] = NoCall] /\ view' = [view EXCEPT ![w] = NULL]
      /\ UNCHANGED <<db, day, effects>>
  BY DEF Die, ToolFailed, CloseView
<1>2. /\ call \in [Workers -> CallState] /\ view \in [Workers -> Tables \cup {NULL}]
  BY DEF DelegInv, Inv, SupportTypeOK
<1>3. /\ call'[w] = NoCall /\ SameKeys
      /\ \A v \in Workers \ {w} : call'[v] = call[v]
  BY <1>1, <1>2 DEF SameKeys
<1>4. \E y \in Agent : Becomes(w, y) /\ Forms(w, y)
  BY <1>1, <1>3, GotoStep
<1>5. CASE call[w].phase = "idle" /\ view[w] = NULL
  <2>1. call' = call /\ view' = view
    BY <1>1, <1>2, <1>5, Idle
  <2> QED BY <1>1, <1>4, <2>1 DEF supportVars
<1>6. CASE ~(call[w].phase = "idle" /\ view[w] = NULL)
  BY <1>1, <1>4, <1>6 DEF CrashCall
<1> QED BY <1>5, <1>6

LEMMA ReturnStep ==
    ASSUME DelegInv, NEW w \in Workers, Return(w)
    PROVE  \E y \in Agent : Becomes(w, y) /\ Forms(w, y)
<1>1. /\ agent[w].pending = <<>> /\ Goto(w, "idle") /\ UNCHANGED supportVars
      /\ passes' = passes
  BY DEF Return, Asking
<1>2. call' = call /\ call[w] = NoCall /\ SameKeys
  BY <1>1, Idle DEF supportVars, SameKeys
<1> QED BY <1>1, <1>2, GotoStep

-----------------------------------------------------------------------------
(* Every step.                                                             *)

LEMMA StepForms ==
    ASSUME DelegInv, [DelegationNext]_delegationVars
    PROVE  \/ UNCHANGED <<agent, call, passes>> /\ SameKeys
           \/ \E w \in Workers, y \in Agent : Becomes(w, y) /\ Forms(w, y)
<1>1. ASSUME NEW w \in Workers, Start(w) \/ Loop(w) \/ Die(w)
      PROVE  \E y \in Agent : Becomes(w, y) /\ Forms(w, y)
  <2>1. CASE Start(w)
    BY <2>1, StartStep
  <2>2. CASE Die(w)
    BY <2>2, DieStep
  <2>3. CASE Generate(w)
    BY <2>3, GenerateStep
  <2>4. CASE Return(w)
    BY <2>4, ReturnStep
  <2>5. CASE CallPlainTool(w)
    BY <2>5, PlainStep
  <2>6. CASE Replay(w)
    BY <2>6, ReplayStep
  <2>7. CASE BeginEffect(w)
    BY <2>7, BeginEffectStep
  <2>8. CASE RunEffect(w)
    BY <2>8, RunEffectStep
  <2>9. CASE StoreResult(w)
    BY <2>9, StoreResultStep
  <2> QED BY <1>1, <2>1, <2>2, <2>3, <2>4, <2>5, <2>6, <2>7, <2>8, <2>9 DEF Loop
<1>2. CASE NextDay /\ UNCHANGED <<agent, passes, seeded>>
  BY <1>2 DEF NextDay, SameKeys
<1>3. CASE UNCHANGED delegationVars
  BY <1>3 DEF delegationVars, SameKeys
<1> QED BY <1>1, <1>2, <1>3 DEF DelegationNext

\* Every step is one of SupportDb, or none.
LEMMA StepIsSupport ==
    ASSUME DelegInv, [DelegationNext]_delegationVars
    PROVE  [SupportNext]_supportVars
<1>1. ASSUME NEW w \in Workers, Start(w) \/ Loop(w) \/ Die(w)
      PROVE  SupportNext \/ UNCHANGED supportVars
  <2>1. CASE Start(w)
    BY <2>1, StartStep
  <2>2. CASE Die(w)
    BY <2>2, DieStep DEF SupportNext
  <2>3. CASE Generate(w) \/ Return(w)
    BY <2>3 DEF Generate, Return
  <2>4. CASE CallPlainTool(w)
    BY <2>4, PlainStep DEF SupportNext
  <2>5. CASE Replay(w)
    BY <2>5, ReplayStep DEF SupportNext
  <2>6. CASE BeginEffect(w)
    BY <2>6, BeginEffectStep DEF SupportNext
  <2>7. CASE RunEffect(w)
    BY <2>7 DEF RunEffect, SupportNext
  <2>8. CASE StoreResult(w)
    BY <2>8 DEF StoreResult, SupportNext
  <2> QED BY <1>1, <2>1, <2>2, <2>3, <2>4, <2>5, <2>6, <2>7, <2>8 DEF Loop
<1>2. CASE NextDay /\ UNCHANGED <<agent, passes, seeded>>
  BY <1>2 DEF SupportNext
<1>3. CASE UNCHANGED delegationVars
  BY <1>3 DEF delegationVars, supportVars
<1> QED BY <1>1, <1>2, <1>3 DEF DelegationNext

LEMMA DelegInitInv == DelegationInit => DelegInv
<1> SUFFICES ASSUME DelegationInit PROVE DelegInv
  OBVIOUS
<1>1. Inv
  BY InitInv DEF DelegationInit
<1>2. /\ At("off") \in Agent /\ AgentFine(At("off"), NoCall)
  BY AtIsFine
<1>3. agent \in [Workers -> Agent] /\ \A w \in Workers : AgentFine(agent[w], call[w])
  <2>1. call = [w \in Workers |-> NoCall] /\ agent = [w \in Workers |-> At("off")]
    BY DEF DelegationInit, SupportInit
  <2> QED BY <1>2, <2>1
<1>4. passes \in [Parents -> Nat] /\ seeded \in BOOLEAN
  BY DEF DelegationInit
<1> QED BY <1>1, <1>3, <1>4 DEF DelegInv, AgentsInv

LEMMA SeededStep ==
    ASSUME DelegInv, [DelegationNext]_delegationVars
    PROVE  seeded' \in BOOLEAN
<1>1. seeded \in BOOLEAN
  BY DEF DelegInv, AgentsInv
<1>2. ASSUME NEW w \in Workers, Start(w) \/ Loop(w) \/ Die(w)
      PROVE  seeded' = seeded \/ seeded' = TRUE
  <2>1. CASE Start(w)
    BY <2>1, Zenon DEF Start, MigrateCount, MigrateInsert, MigrateRefused, Delegate
  <2>2. CASE Loop(w)
    BY <2>2, Zenon DEF Loop, Generate, Return, CallPlainTool, Replay, BeginEffect, RunEffect,
       StoreResult
  <2>3. CASE Die(w)
    BY <2>3, Zenon DEF Die
  <2> QED BY <1>2, <2>1, <2>2, <2>3, Zenon
<1> QED BY <1>1, <1>2, Zenon DEF DelegationNext, delegationVars

LEMMA DelegNextInv == DelegInv /\ [DelegationNext]_delegationVars => DelegInv'
<1> SUFFICES ASSUME DelegInv, [DelegationNext]_delegationVars PROVE DelegInv'
  OBVIOUS
<1>1. Inv'
  BY StepIsSupport, NextInv DEF DelegInv
<1>2. agent \in [Workers -> Agent] /\ passes \in [Parents -> Nat]
  BY DEF DelegInv, AgentsInv
<1>3. CASE UNCHANGED <<agent, call, passes>>
  BY <1>1, <1>3, SeededStep DEF DelegInv, AgentsInv
<1>4. ASSUME NEW w \in Workers, NEW y \in Agent, Becomes(w, y), Forms(w, y)
      PROVE  DelegInv'
  <2>1. agent' \in [Workers -> Agent]
    BY <1>2, <1>4 DEF Becomes
  <2>2. passes' \in [Parents -> Nat]
    <3>1. passes' = passes \/ \E p \in Parents : passes' = [passes EXCEPT ![p] = @ + 1]
      BY <1>4 DEF Forms, Leaves, Starts, Quiet, HearsAgain, Hears, GoesOn
    <3> QED BY <1>2, <3>1
  <2>3. \A v \in Workers : AgentFine(agent[v], call[v])'
    <3> SUFFICES ASSUME NEW v \in Workers PROVE AgentFine(agent[v], call[v])'
      OBVIOUS
    <3>1. CASE v = w
      BY <1>2, <1>4, <3>1 DEF Becomes, AgentFine
    <3>2. CASE v # w
      <4>1. agent'[v] = agent[v] /\ call'[v] = call[v] /\ AgentFine(agent[v], call[v])
        BY <1>2, <1>4, <3>2 DEF Becomes, DelegInv, AgentsInv
      <4> QED BY <4>1 DEF AgentFine
    <3> QED BY <3>1, <3>2
  <2> QED BY <1>1, <2>1, <2>2, <2>3, SeededStep DEF DelegInv, AgentsInv
<1> QED BY <1>3, <1>4, StepForms

LEMMA DelegSafety == DelegationSpec => []DelegInv
BY DelegInitInv, DelegNextInv, PTL DEF DelegationSpec

\* Every variable of a specialist keeps its type: run_specialist's position and
\* results, the tables below it, and the calls of once.
THEOREM SpecialistsAreTyped == DelegationSpec => []DelegationTypeOK
<1>1. DelegInv => DelegationTypeOK
  BY DEF DelegInv, Inv, AgentsInv, DelegationTypeOK
<1> QED BY <1>1, DelegSafety, PTL

\* run_specialist and run_tool implement the most general caller of SupportDb:
\* every step of a specialist is one of SupportDb's, or leaves its state alone.
THEOREM SpecialistsImplementSupportDb == DelegationSpec => ImplementsSupportDb
<1>1. DelegationInit => SupportInit
  BY DEF DelegationInit
<1>2. DelegInv /\ [DelegationNext]_delegationVars => [SupportNext]_supportVars
  BY StepIsSupport
<1> QED BY <1>1, <1>2, DelegSafety, PTL DEF DelegationSpec, SupportSpec, ImplementsSupportDb

-----------------------------------------------------------------------------
(* What specialists are told.                                              *)

HeardInv ==
    \A w \in Workers : \A told \in agent[w].heard :
        /\ told.key \in Keys
        /\ db.idempotency[told.key] # NULL
        /\ db.idempotency[told.key] = told.result

\* A result once stored stays; a new one is told to the worker that stores it.
LEMMA StoredStays ==
    ASSUME DelegInv, NEW w \in Workers, NEW y \in Agent, Forms(w, y),
           NEW k \in Keys, db.idempotency[k] # NULL
    PROVE  db'.idempotency[k] = db.idempotency[k]
<1>1. db.idempotency \in [Keys -> Results \cup {NULL}]
  BY DEF DelegInv, Inv, SupportTypeOK, Tables
<1>2. \/ SameKeys
      \/ \E r \in Told : /\ db.idempotency[r.key] = NULL
                         /\ db'.idempotency = [db.idempotency EXCEPT ![r.key] = r.result]
  BY Zenon DEF Forms, Leaves, Starts, Quiet, HearsAgain, Hears
<1> QED BY <1>1, <1>2 DEF SameKeys

\* A worker that Becomes anything, and the others.
LEMMA Others ==
    ASSUME DelegInv, NEW w \in Workers, NEW y, Becomes(w, y), NEW v \in Workers
    PROVE  agent'[v] = IF v = w THEN y ELSE agent[v]
BY DEF DelegInv, AgentsInv, Becomes

LEMMA ToldIsStorable ==
    ASSUME NEW r \in Told
    PROVE  r.key \in Keys /\ r.result \in Results /\ r.result # NULL
BY ResultsAssumption DEF Told

LEMMA HeardStep ==
    ASSUME DelegInv, HeardInv, [DelegationNext]_delegationVars
    PROVE  HeardInv'
<1>1. CASE UNCHANGED <<agent, call, passes>> /\ SameKeys
  BY <1>1 DEF HeardInv, SameKeys
<1>2. ASSUME NEW w \in Workers, NEW y \in Agent, Becomes(w, y), Forms(w, y)
      PROVE  HeardInv'
  <2> SUFFICES ASSUME NEW v \in Workers, NEW told \in agent'[v].heard
               PROVE  /\ told.key \in Keys
                      /\ db'.idempotency[told.key] # NULL
                      /\ db'.idempotency[told.key] = told.result
    BY DEF HeardInv
  <2>1. ASSUME NEW u \in Workers, told \in agent[u].heard
        PROVE  /\ told.key \in Keys
               /\ db'.idempotency[told.key] # NULL
               /\ db'.idempotency[told.key] = told.result
    BY <1>2, <2>1, StoredStays DEF HeardInv
  <2>2. ASSUME NEW r \in Told, told = r, HearsAgain(w, y, r) \/ Hears(w, y, r)
        PROVE  /\ told.key \in Keys
               /\ db'.idempotency[told.key] # NULL
               /\ db'.idempotency[told.key] = told.result
    <3>1. r.key \in Keys /\ r.result \in Results /\ r.result # NULL
      BY ToldIsStorable
    <3>2. db.idempotency \in [Keys -> Results \cup {NULL}]
      BY DEF DelegInv, Inv, SupportTypeOK, Tables
    <3>3. db'.idempotency[r.key] = r.result
      BY <2>2, <3>1, <3>2 DEF HearsAgain, Hears, SameKeys
    <3> QED BY <2>2, <3>1, <3>3
  <2>3. CASE v # w
    BY <1>2, <2>1, <2>3, Others
  <2>4. CASE v = w
    <3>1. told \in y.heard
      BY <1>2, <2>4, Others
    <3>2. \/ told \in agent[w].heard
          \/ \E r \in Told : told = r /\ (HearsAgain(w, y, r) \/ Hears(w, y, r))
      BY <1>2, <3>1 DEF Forms, Leaves, Starts, Quiet, HearsAgain, Hears
    <3> QED BY <2>1, <2>2, <3>2
  <2> QED BY <2>3, <2>4
<1> QED BY <1>1, <1>2, StepForms

\* Whoever executes a delegation, and however often: what once tells them of a
\* call is the result stored under its key.
THEOREM ToldTheStoredResult == DelegationSpec => []HeardIsStored
<1>1. DelegationInit => HeardInv
  BY DEF DelegationInit, HeardInv, At
<1>2. HeardInv => HeardIsStored
  BY DEF HeardInv, HeardIsStored
<1> QED BY <1>1, <1>2, DelegSafety, HeardStep, PTL DEF DelegationSpec

-----------------------------------------------------------------------------
(* The first execution of a delegation.                                    *)

Executes(w, p) == agent[w].pc = "loop" /\ agent[w].parent = p
Stored(k) == db.idempotency[k] # NULL

\* While a delegation has been begun once: one worker is in it, and every key
\* stored so far is of a call before the one it is at.
FirstInv ==
    /\ \A w \in Workers, p \in Parents : Executes(w, p) => passes[p] >= 1
    /\ \A w, v \in Workers, p \in Parents :
          passes[p] <= 1 /\ Executes(w, p) /\ Executes(v, p) => w = v
    /\ \A k \in Keys : Stored(k) => passes[k.parent] >= 1
    /\ \A k \in Keys, w \in Workers :
          Stored(k) /\ passes[k.parent] <= 1 /\ Executes(w, k.parent) => k.seq <= agent[w].seq
    /\ \A w \in Workers : \A told \in agent[w].heard :
          told.key \in Keys /\ (told.replayed => passes[told.key.parent] > 1)

LEMMA KeyTypes ==
    ASSUME NEW k \in Keys
    PROVE  k.parent \in Parents /\ k.seq \in Nat
BY KeysAreCalls, Limits DEF Resolutions

LEMMA FirstStep ==
    ASSUME DelegInv, FirstInv, [DelegationNext]_delegationVars
    PROVE  FirstInv'
<1>0. /\ passes \in [Parents -> Nat] /\ agent \in [Workers -> Agent]
      /\ \A w \in Workers : agent[w].seq \in Nat
      /\ db.idempotency \in [Keys -> Results \cup {NULL}]
  BY Limits DEF DelegInv, AgentsInv, Inv, SupportTypeOK, Tables, Agent
<1>1. CASE UNCHANGED <<agent, call, passes>> /\ SameKeys
  BY <1>1 DEF FirstInv, Executes, Stored, SameKeys
<1>2. ASSUME NEW w \in Workers, NEW y \in Agent, Becomes(w, y), Leaves(w, y)
      PROVE  FirstInv'
  <2>1. \A v \in Workers, p \in Parents :
           Executes(v, p)' => v # w /\ Executes(v, p) /\ agent'[v] = agent[v]
    BY <1>2, Others DEF Executes, Leaves
  <2>2. passes' = passes /\ \A k \in Keys : Stored(k)' <=> Stored(k)
    BY <1>2 DEF Leaves, SameKeys, Stored
  <2>3. \A v \in Workers : agent'[v].heard \subseteq agent[v].heard
    BY <1>2, Others DEF Leaves
  <2> QED BY <2>1, <2>2, <2>3, KeyTypes DEF FirstInv
<1>3. ASSUME NEW w \in Workers, NEW y \in Agent, Becomes(w, y), NEW q \in Parents, Starts(w, y, q)
      PROVE  FirstInv'
  <2>1. /\ \A p \in Parents : passes'[p] = IF p = q THEN passes[p] + 1 ELSE passes[p]
        /\ \A k \in Keys : Stored(k)' <=> Stored(k)
    BY <1>0, <1>3 DEF Starts, SameKeys, Stored
  <2>2. \A v \in Workers, p \in Parents :
           /\ v # w => (Executes(v, p)' <=> Executes(v, p)) /\ agent'[v] = agent[v]
           /\ Executes(w, p)' => p = q
    BY <1>3, Others DEF Executes, Starts
  <2>3. \A v \in Workers : agent'[v].heard \subseteq agent[v].heard
    BY <1>3, Others DEF Starts
  <2>4. passes'[q] <= 1 =>
           /\ \A v \in Workers : ~Executes(v, q)
           /\ \A k \in Keys : Stored(k) => k.parent # q
    BY <1>0, <2>1 DEF FirstInv
  <2>5. \A p \in Parents : /\ passes'[p] \in Nat /\ passes[p] \in Nat /\ passes'[p] >= passes[p]
                           /\ p = q => passes'[p] >= 1
    BY <1>0, <2>1
  <2>6. (\A v \in Workers, p \in Parents : Executes(v, p) => passes[p] >= 1)'
    BY <2>1, <2>2, <2>5 DEF FirstInv
  <2>7. (\A v, u \in Workers, p \in Parents :
            passes[p] <= 1 /\ Executes(v, p) /\ Executes(u, p) => v = u)'
    BY <2>1, <2>2, <2>4 DEF FirstInv
  <2>8. (\A k \in Keys : Stored(k) => passes[k.parent] >= 1)'
    BY <2>1, <2>5, KeyTypes DEF FirstInv
  <2>9. (\A k \in Keys, v \in Workers :
            Stored(k) /\ passes[k.parent] <= 1 /\ Executes(v, k.parent) => k.seq <= agent[v].seq)'
    <3> SUFFICES ASSUME NEW k \in Keys, NEW v \in Workers, Stored(k)', passes'[k.parent] <= 1,
                        Executes(v, k.parent)'
                 PROVE  k.seq <= agent'[v].seq
      OBVIOUS
    <3>1. k.parent # q /\ v # w
      BY <2>1, <2>2, <2>4, KeyTypes
    <3> QED BY <2>1, <2>2, <3>1, KeyTypes DEF FirstInv
  <2>10. (\A v \in Workers : \A told \in agent[v].heard :
             told.key \in Keys /\ (told.replayed => passes[told.key.parent] > 1))'
    <3> SUFFICES ASSUME NEW v \in Workers, NEW told \in agent[v].heard
                 PROVE  told.key \in Keys /\ (told.replayed => passes'[told.key.parent] > 1)
      BY <2>3
    <3>1. told.key \in Keys /\ (told.replayed => passes[told.key.parent] > 1)
      BY DEF FirstInv
    <3> QED BY <2>5, <3>1, KeyTypes
  <2> QED BY <2>6, <2>7, <2>8, <2>9, <2>10 DEF FirstInv
<1>4. ASSUME NEW w \in Workers, NEW y \in Agent, Becomes(w, y), GoesOn(w, y)
      PROVE  /\ passes' = passes
             /\ \A v \in Workers, p \in Parents : Executes(v, p)' <=> Executes(v, p)
             /\ \A v \in Workers : agent'[v].seq >= agent[v].seq /\ agent'[v].seq \in Nat
  <2>1. y.seq \in Nat
    BY Limits DEF Agent
  <2> QED BY <1>0, <1>4, <2>1, Others DEF GoesOn, Executes
<1>5. ASSUME NEW w \in Workers, NEW y \in Agent, Becomes(w, y), GoesOn(w, y), SameKeys,
             NEW new \in SUBSET Told, y.heard = agent[w].heard \cup new,
             \A r \in new : r.replayed => passes[r.key.parent] > 1
      PROVE  FirstInv'
  <2>1. /\ passes' = passes
        /\ \A v \in Workers, p \in Parents : Executes(v, p)' <=> Executes(v, p)
        /\ \A v \in Workers : agent'[v].seq >= agent[v].seq /\ agent'[v].seq \in Nat
    BY <1>4, <1>5
  <2>2. \A k \in Keys : Stored(k)' <=> Stored(k)
    BY <1>5 DEF SameKeys, Stored
  <2>3. (\A k \in Keys, v \in Workers :
            Stored(k) /\ passes[k.parent] <= 1 /\ Executes(v, k.parent) => k.seq <= agent[v].seq)'
    <3> SUFFICES ASSUME NEW k \in Keys, NEW v \in Workers, Stored(k)', passes'[k.parent] <= 1,
                        Executes(v, k.parent)'
                 PROVE  k.seq <= agent'[v].seq
      OBVIOUS
    <3>1. k.seq <= agent[v].seq /\ k.seq \in Nat
      BY <2>1, <2>2, KeyTypes DEF FirstInv
    <3> QED BY <1>0, <2>1, <3>1
  <2>4. \A v \in Workers : agent'[v].heard \subseteq agent[v].heard \cup new
    BY <1>5, Others
  <2>5. (\A v \in Workers : \A told \in agent[v].heard :
            told.key \in Keys /\ (told.replayed => passes[told.key.parent] > 1))'
    BY <1>5, <2>1, <2>4, ToldIsStorable DEF FirstInv
  <2> QED BY <2>1, <2>2, <2>3, <2>5, KeyTypes DEF FirstInv
<1>6. ASSUME NEW w \in Workers, NEW y \in Agent, Becomes(w, y), NEW r \in Told,
             HearsAgain(w, y, r)
      PROVE  FirstInv'
  <2>1. /\ Executes(w, r.key.parent) /\ Stored(r.key) /\ r.key \in Keys
        /\ r.key.seq = agent[w].seq + 1
    BY <1>6, ToldIsStorable DEF HearsAgain, Executes, Stored
  <2>2. passes[r.key.parent] > 1
    <3>1. ~(passes[r.key.parent] <= 1)
      BY <1>0, <2>1 DEF FirstInv
    <3> QED BY <1>0, <2>1, <3>1, KeyTypes
  <2>3. /\ {r} \in SUBSET Told /\ y.heard = agent[w].heard \cup {r} /\ GoesOn(w, y) /\ SameKeys
        /\ \A told \in {r} : told.replayed => passes[told.key.parent] > 1
    BY <1>6, <2>2 DEF HearsAgain
  <2> QED BY <1>5, <1>6, <2>3
<1>7. ASSUME NEW w \in Workers, NEW y \in Agent, Becomes(w, y), NEW r \in Told,
             Hears(w, y, r)
      PROVE  FirstInv'
  <2>1. /\ passes' = passes
        /\ \A v \in Workers, p \in Parents : Executes(v, p)' <=> Executes(v, p)
        /\ \A v \in Workers : agent'[v].seq >= agent[v].seq /\ agent'[v].seq \in Nat
    BY <1>4, <1>7 DEF Hears
  <2>2. /\ Executes(w, r.key.parent) /\ r.key \in Keys /\ r.key.parent \in Parents
        /\ r.key.seq = agent'[w].seq
    BY <1>7, ToldIsStorable, KeyTypes, Others DEF Hears, Executes
  <2>3. \A k \in Keys : k # r.key => (Stored(k)' <=> Stored(k))
    BY <1>0, <1>7 DEF Hears, Stored
  <2>4. (\A k \in Keys : Stored(k) => passes[k.parent] >= 1)'
    BY <2>1, <2>2, <2>3 DEF FirstInv
  <2>5. (\A k \in Keys, v \in Workers :
            Stored(k) /\ passes[k.parent] <= 1 /\ Executes(v, k.parent) => k.seq <= agent[v].seq)'
    <3> SUFFICES ASSUME NEW k \in Keys, NEW v \in Workers, Stored(k)', passes'[k.parent] <= 1,
                        Executes(v, k.parent)'
                 PROVE  k.seq <= agent'[v].seq
      OBVIOUS
    <3>1. CASE k # r.key
      <4>1. k.seq <= agent[v].seq /\ k.seq \in Nat
        BY <2>1, <2>3, <3>1, KeyTypes DEF FirstInv
      <4> QED BY <1>0, <2>1, <4>1
    <3>2. CASE k = r.key
      <4>1. v = w
        BY <2>1, <2>2, <3>2 DEF FirstInv
      <4>2. k.seq = agent'[v].seq /\ agent'[v].seq \in Nat
        BY <2>1, <2>2, <3>2, <4>1
      <4> QED BY <4>2
    <3> QED BY <3>1, <3>2
  <2>6. \A v \in Workers : agent'[v].heard \subseteq agent[v].heard \cup {r}
    BY <1>7, Others DEF Hears
  <2>7. (\A v \in Workers : \A told \in agent[v].heard :
            told.key \in Keys /\ (told.replayed => passes[told.key.parent] > 1))'
    BY <1>7, <2>1, <2>2, <2>6 DEF FirstInv, Hears
  <2> QED BY <2>1, <2>4, <2>5, <2>7 DEF FirstInv
<1>8. ASSUME NEW w \in Workers, NEW y \in Agent, Becomes(w, y), Quiet(w, y)
      PROVE  FirstInv'
  <2>1. {} \in SUBSET Told /\ y.heard = agent[w].heard \cup {}
    BY <1>8 DEF Quiet
  <2> QED BY <1>5, <1>8, <2>1 DEF Quiet
<1> QED BY <1>1, <1>2, <1>3, <1>6, <1>7, <1>8, StepForms DEF Forms

\* As long as a delegation has been begun only once, none of its calls is
\* answered from support.idempotency_key.
THEOREM FirstTimeIsCarriedOut == DelegationSpec => []NotReplayedAtFirst
<1>1. DelegationInit => FirstInv
  BY DEF DelegationInit, SupportInit, FirstInv, Executes, Stored, At
<1>2. FirstInv => NotReplayedAtFirst
  BY DEF FirstInv, NotReplayedAtFirst
<1> QED BY <1>1, <1>2, DelegSafety, FirstStep, PTL DEF DelegationSpec

-----------------------------------------------------------------------------
(* How often an effect is made.  Whoever begins a delegation may make each *)
(* of its effects once, and leaves each behind as it counts on.            *)

\* A worker in the state x, with the call c, may still make the effect of k.
MayMake(x, c, k) == /\ x.pc = "loop" /\ x.parent = k.parent
                    /\ k.seq > x.seq + (IF Done(c) THEN 1 ELSE 0)

Makers(k) == {w \in Workers : MayMake(agent[w], call[w], k)}

EffectsInv == \A k \in Keys : effects[k] + Cardinality(Makers(k)) <= passes[k.parent]

LEMMA MakersFinite ==
    ASSUME NEW k
    PROVE  IsFiniteSet(Makers(k)) /\ Cardinality(Makers(k)) \in Nat
<1>1. Makers(k) \subseteq Workers
  BY DEF Makers
<1> QED BY <1>1, WorkersAssumption, FS_Subset, FS_CardinalityType

LEMMA FewerMakers ==
    ASSUME NEW k, Makers(k)' \subseteq Makers(k)
    PROVE  Cardinality(Makers(k)') <= Cardinality(Makers(k)) /\ Cardinality(Makers(k)') \in Nat
BY MakersFinite, FS_Subset, FS_CardinalityType

\* The effect of w is committed: it alone changes, and only its call.
Makes(w) == /\ UNCHANGED <<agent, passes>>
            /\ \A v \in Workers \ {w} : call'[v] = call[v]
            /\ call[w].phase = "effect" /\ Done(call'[w])
            /\ effects' = [effects EXCEPT ![call[w].key] = @ + 1]

LEMMA EffectForms ==
    ASSUME DelegInv, [DelegationNext]_delegationVars
    PROVE  \/ UNCHANGED <<agent, call, passes, effects>>
           \/ \E w \in Workers, y \in Agent : Becomes(w, y) /\ Forms(w, y) /\ effects' = effects
           \/ \E w \in Workers : Makes(w)
<1>1. ASSUME NEW w \in Workers, Start(w) \/ Loop(w) \/ Die(w), effects' = effects
      PROVE  \E y \in Agent : Becomes(w, y) /\ Forms(w, y)
  BY <1>1, StartStep, DieStep, GenerateStep, ReturnStep, PlainStep, ReplayStep, BeginEffectStep,
     RunEffectStep, StoreResultStep DEF Loop
<1>2. ASSUME NEW w \in Workers, Start(w) \/ Loop(w) \/ Die(w), ~RunEffect(w)
      PROVE  effects' = effects
  <2>1. CASE Start(w)
    BY <2>1 DEF Start, MigrateCount, MigrateInsert, MigrateRefused, Delegate, supportVars
  <2>2. CASE Die(w)
    BY <2>2 DEF Die, ToolFailed
  <2>3. CASE Generate(w) \/ Return(w) \/ CallPlainTool(w)
    BY <2>3 DEF Generate, Return, CallPlainTool, supportVars
  <2>4. CASE Replay(w) \/ BeginEffect(w)
    BY <2>4 DEF Replay, OnceReplay, BeginEffect, OnceBegin
  <2>5. CASE StoreResult(w)
    BY <2>5 DEF StoreResult, StoreKey, ToolFailed
  <2> QED BY <1>2, <2>1, <2>2, <2>3, <2>4, <2>5 DEF Loop
<1>3. ASSUME NEW w \in Workers, RunEffect(w), effects' # effects
      PROVE  Makes(w)
  <2>1. /\ Counted(w) /\ \A v \in Workers \ {w} : call'[v] = call[v]
    BY <1>3, EffectCalls DEF DelegInv, RunEffect
  <2>2. call'[w] # NoCall
    BY <1>3, <2>1 DEF Counted, Done, NoCall
  <2> QED BY <1>3, <2>1, <2>2 DEF Makes, Counted, RunEffect
<1>4. CASE NextDay /\ UNCHANGED <<agent, passes, seeded>>
  BY <1>4 DEF NextDay
<1>5. CASE UNCHANGED delegationVars
  BY <1>5 DEF delegationVars
<1> QED BY <1>1, <1>2, <1>3, <1>4, <1>5 DEF DelegationNext, Loop

LEMMA EffectsStep ==
    ASSUME DelegInv, EffectsInv, [DelegationNext]_delegationVars
    PROVE  EffectsInv'
<1> SUFFICES ASSUME NEW k \in Keys
             PROVE  effects'[k] + Cardinality(Makers(k)') <= passes'[k.parent]
  BY DEF EffectsInv
<1>0. /\ effects \in [Keys -> Nat] /\ passes \in [Parents -> Nat]
      /\ k.parent \in Parents /\ k.seq \in Nat
      /\ \A w \in Workers : agent[w].seq \in Nat
  BY KeyTypes, Limits DEF DelegInv, AgentsInv, Inv, SupportTypeOK, Agent
<1>1. /\ effects[k] \in Nat /\ passes[k.parent] \in Nat
      /\ effects[k] + Cardinality(Makers(k)) <= passes[k.parent]
      /\ IsFiniteSet(Makers(k)) /\ Cardinality(Makers(k)) \in Nat
  BY <1>0, MakersFinite DEF EffectsInv
<1>2. CASE UNCHANGED <<agent, call, passes, effects>>
  <2>1. Makers(k)' = Makers(k)
    BY <1>2 DEF Makers
  <2> QED BY <1>1, <1>2, <2>1
<1>3. ASSUME NEW w \in Workers, NEW y \in Agent, Becomes(w, y), effects' = effects,
             \/ Leaves(w, y) \/ GoesOn(w, y)
             \/ \E p \in Parents : p # k.parent /\ Starts(w, y, p)
      PROVE  effects'[k] + Cardinality(Makers(k)') <= passes'[k.parent]
  <2>1. passes'[k.parent] = passes[k.parent]
    BY <1>0, <1>3 DEF Leaves, GoesOn, Starts
  <2>2. ASSUME NEW v \in Workers, MayMake(agent'[v], call'[v], k)
        PROVE  MayMake(agent[v], call[v], k)
    <3>1. CASE v # w
      BY <1>3, <2>2, <3>1, Others DEF Becomes
    <3>2. CASE v = w
      <4>1. agent'[w] = y /\ y.seq \in Nat
        BY <1>3, Others, Limits DEF Agent
      <4>2. GoesOn(w, y)
        BY <1>3, <2>2, <3>2, <4>1 DEF Leaves, Starts, MayMake
      <4>3. k.seq > agent[w].seq + (IF Done(call[w]) THEN 1 ELSE 0)
        BY <1>0, <2>2, <3>2, <4>1, <4>2 DEF GoesOn, MayMake
      <4> QED BY <2>2, <3>2, <4>1, <4>2, <4>3 DEF GoesOn, MayMake
    <3> QED BY <3>1, <3>2
  <2>3. Makers(k)' \subseteq Makers(k)
    BY <2>2 DEF Makers
  <2> QED BY <1>1, <1>3, <2>1, <2>3, FewerMakers
<1>4. ASSUME NEW w \in Workers, NEW y \in Agent, Becomes(w, y), effects' = effects,
             Starts(w, y, k.parent)
      PROVE  effects'[k] + Cardinality(Makers(k)') <= passes'[k.parent]
  <2>1. passes'[k.parent] = passes[k.parent] + 1
    BY <1>0, <1>4 DEF Starts
  <2>2. Makers(k)' \subseteq Makers(k) \cup {w}
    BY <1>4, Others DEF Makers, Becomes
  <2>3. /\ IsFiniteSet(Makers(k) \cup {w})
        /\ Cardinality(Makers(k) \cup {w}) \in {Cardinality(Makers(k)), Cardinality(Makers(k)) + 1}
    BY <1>1, FS_AddElement
  <2>4. /\ Cardinality(Makers(k)') <= Cardinality(Makers(k) \cup {w})
        /\ Cardinality(Makers(k)') \in Nat
    BY <2>2, <2>3, FS_Subset, FS_CardinalityType
  <2> QED BY <1>1, <1>4, <2>1, <2>3, <2>4
<1>5. ASSUME NEW w \in Workers, Makes(w)
      PROVE  effects'[k] + Cardinality(Makers(k)') <= passes'[k.parent]
  <2>1. PICK q : q = call[w].key
    OBVIOUS
  <2>2. /\ agent[w].pc = "loop" /\ ~Done(call[w])
        /\ q.parent = agent[w].parent /\ q.seq = agent[w].seq + 1
    <3>1. call[w].phase = "effect" /\ call[w] # NoCall /\ AgentFine(agent[w], call[w])
      BY <1>5, Idle DEF Makes
    <3>2. /\ agent[w].pending # <<>> /\ agent[w].pc = "loop"
          /\ q = [parent |-> agent[w].parent, seq |-> agent[w].seq + 1,
                  call |-> Head(agent[w].pending)]
      BY <2>1, <3>1 DEF AgentFine
    <3> QED BY <3>1, <3>2 DEF Done
  <2>3. effects' = [effects EXCEPT ![q] = @ + 1] /\ passes' = passes
    BY <1>5, <2>1 DEF Makes
  <2>4. Makers(k)' \subseteq Makers(k)
    <3> SUFFICES ASSUME NEW v \in Workers, MayMake(agent[v], call'[v], k)
                 PROVE  MayMake(agent[v], call[v], k)
      BY <1>5 DEF Makers, Makes
    <3>1. CASE v # w
      BY <1>5, <3>1 DEF Makes
    <3>2. CASE v = w
      <4>1. k.seq > agent[w].seq + (IF Done(call[w]) THEN 1 ELSE 0)
        BY <1>0, <2>2, <3>2 DEF MayMake
      <4> QED BY <3>2, <4>1 DEF MayMake
    <3> QED BY <3>1, <3>2
  <2>5. CASE k = q
    <3>1. w \in Makers(k)
      <4>1. k.seq > agent[w].seq + 0
        BY <1>0, <2>2, <2>5
      <4> QED BY <2>2, <2>5, <4>1 DEF Makers, MayMake
    <3>2. w \notin Makers(k)'
      <4>1. ~(k.seq > agent[w].seq + 1)
        BY <1>0, <2>2, <2>5
      <4> QED BY <1>5, <4>1 DEF Makers, MayMake, Makes
    <3>3. /\ IsFiniteSet(Makers(k) \ {w})
          /\ Cardinality(Makers(k) \ {w}) = Cardinality(Makers(k)) - 1
      BY <1>1, <3>1, FS_RemoveElement
    <3>4. /\ Cardinality(Makers(k)') <= Cardinality(Makers(k)) - 1
          /\ Cardinality(Makers(k)') \in Nat
      BY <2>4, <3>2, <3>3, FewerMakers, FS_Subset
    <3>5. effects'[k] = effects[k] + 1
      BY <1>0, <2>3, <2>5
    <3> QED BY <1>1, <2>3, <3>4, <3>5
  <2>6. CASE k # q
    <3>1. effects'[k] = effects[k]
      BY <1>0, <2>3, <2>6
    <3> QED BY <1>1, <2>3, <2>4, <3>1, FewerMakers
  <2> QED BY <2>5, <2>6
<1>6. ASSUME NEW w \in Workers, NEW y \in Agent, Forms(w, y)
      PROVE  \/ Leaves(w, y) \/ GoesOn(w, y)
             \/ \E p \in Parents : Starts(w, y, p)
  BY <1>6, Zenon DEF Forms, Quiet, HearsAgain, Hears
<1> QED BY <1>2, <1>3, <1>4, <1>5, <1>6, EffectForms

\* Nothing in an execution of a delegation makes an effect twice, whoever else
\* executes it and whatever is lost between an effect and its key.
THEOREM EffectsAreBounded == DelegationSpec => []EffectsBoundedByPasses
<1>1. DelegationInit => EffectsInv
  <2> SUFFICES ASSUME DelegationInit, NEW k \in Keys
               PROVE  effects[k] + Cardinality(Makers(k)) <= passes[k.parent]
    BY DEF EffectsInv
  <2>1. Makers(k) = {}
    BY DEF DelegationInit, At, Makers, MayMake
  <2>2. effects[k] = 0 /\ passes[k.parent] = 0
    BY KeyTypes DEF DelegationInit, SupportInit
  <2> QED BY <2>1, <2>2, FS_EmptySet
<1>2. DelegInv /\ EffectsInv => EffectsBoundedByPasses
  <2> SUFFICES ASSUME DelegInv, EffectsInv, NEW k \in Keys PROVE effects[k] <= passes[k.parent]
    BY DEF EffectsBoundedByPasses
  <2>1. effects[k] \in Nat /\ passes[k.parent] \in Nat
    BY KeyTypes DEF DelegInv, AgentsInv, Inv, SupportTypeOK
  <2> QED BY <2>1, MakersFinite DEF EffectsInv
<1> QED BY <1>1, <1>2, DelegSafety, EffectsStep, PTL DEF DelegationSpec

-----------------------------------------------------------------------------
(* How long a delegation is.                                               *)

\* What one turn that may still begin costs at most, and the turns that may
\* begin after the position n.
TurnCost == 4 * MaxCalls + 1
TurnsAfter(n) == IF n < SPECIALIST_MAX_STEPS THEN SPECIALIST_MAX_STEPS - n ELSE 0

Gone(c) == CASE c.phase = "effect" -> 1
             [] c.phase = "find" -> 2
             [] c.phase = "key" -> 3
             [] OTHER -> 0

\* What is left to a worker in the loop, in the state x with the call c.
Left(x, c) == TurnCost * TurnsAfter(x.seq + Len(x.pending)) + 4 * Len(x.pending) - Gone(c) + 1

LEMMA LeftOfLoop ==
    ASSUME NEW w \in Workers
    PROVE  LoopLeft(w) = IF agent[w].pc = "loop" THEN Left(agent[w], call[w]) ELSE 0
BY DEF LoopLeft, Left, Gone, TurnCost, TurnsAfter

LEMMA LeftOfLoopNext ==
    ASSUME NEW w \in Workers
    PROVE  LoopLeft(w)' = IF agent'[w].pc = "loop" THEN Left(agent'[w], call'[w]) ELSE 0
BY DEF LoopLeft, Left, Gone, TurnCost, TurnsAfter

LEMMA GoneTyped == \A c : Gone(c) \in 0 .. 3 /\ (c.phase = "idle" => Gone(c) = 0)
BY DEF Gone

\* A turn that begins below the limit leaves fewer turns after it.
LEMMA TurnsEnd ==
    ASSUME NEW m \in Nat, NEW n \in Nat
    PROVE  /\ TurnCost \in Nat /\ TurnCost * TurnsAfter(m) \in Nat
           /\ m < n /\ m < SPECIALIST_MAX_STEPS =>
                 TurnCost * TurnsAfter(n) + TurnCost <= TurnCost * TurnsAfter(m)
<1>1. PICK a \in Nat : a = TurnCost
  BY Limits DEF TurnCost
<1>0. TurnsAfter(m) \in Nat /\ TurnsAfter(n) \in Nat
  BY Limits DEF TurnsAfter
<1>2. PICK x \in Nat : x = TurnsAfter(m)
  BY <1>0
<1>3. PICK y \in Nat : y = TurnsAfter(n)
  BY <1>0
<1>4. a * x \in Nat /\ a * y \in Nat
  OBVIOUS
<1>5. ASSUME y + 1 <= x
      PROVE  a * y + a <= a * x
  <2>1. PICK d \in Nat : x = y + 1 + d
    BY <1>5
  <2>2. a * x = a * y + a + a * d /\ a * d \in Nat
    BY <2>1
  <2> QED BY <1>4, <2>2
<1>6. m < n /\ m < SPECIALIST_MAX_STEPS => y + 1 <= x
  BY <1>2, <1>3, Limits DEF TurnsAfter
<1> QED BY <1>1, <1>2, <1>3, <1>4, <1>5, <1>6

\* A specialist in its loop has steps left.
LEMMA LoopTyped ==
    ASSUME DelegInv, NEW w \in Workers
    PROVE  /\ agent[w].seq \in Nat /\ Len(agent[w].pending) \in Nat
           /\ agent[w].pending # <<>> => Len(agent[w].pending) >= 1
           /\ agent[w].pc = "loop" => Left(agent[w], call[w]) \in Nat \ {0}
<1>1. PICK s \in Seq(Lookups \cup Writes) : s = agent[w].pending
  BY Idle DEF Agent
<1>2. Len(s) \in Nat /\ (s # <<>> => Len(s) >= 1)
  BY <1>1
<1>3. PICK n \in Nat : n = agent[w].seq
  BY Idle, Limits DEF Agent
<1>4. PICK cost : cost = TurnCost * TurnsAfter(n + Len(s))
  OBVIOUS
<1>5. cost \in Nat
  BY <1>2, <1>4, TurnsEnd
<1>6. Gone(call[w]) \in 0 .. 3 /\ (s = <<>> => Gone(call[w]) = 0)
  BY <1>1, Idle, GoneTyped
<1>7. agent[w].pc = "loop" => Left(agent[w], call[w]) \in Nat \ {0}
  BY <1>1, <1>2, <1>3, <1>4, <1>5, <1>6 DEF Left
<1> QED BY <1>1, <1>2, <1>3, <1>7

\* A call has its result, or the tool refused it or failed.
LEMMA AdvanceRunsDown ==
    ASSUME DelegInv, NEW w \in Workers, agent[w].pending # <<>>,
           NEW told, Advance(w, told), call'[w] = NoCall
    PROVE  Left(agent'[w], call'[w]) < Left(agent[w], call[w])
<1>1. PICK s \in Seq(Lookups \cup Writes) : s = agent[w].pending
  BY Idle DEF Agent
<1>2. Len(Tail(s)) = Len(s) - 1 /\ Len(s) \in Nat /\ Len(s) >= 1
  BY <1>1
<1>3. PICK n \in Nat : n = agent[w].seq
  BY Idle, Limits DEF Agent
<1>4. agent'[w].seq = n + 1 /\ agent'[w].pending = Tail(s)
  <2> DEFINE x == [agent[w] EXCEPT !.seq = @ + 1, !.pending = Tail(@), !.heard = @ \cup told]
  <2>1. x.seq = agent[w].seq + 1 /\ x.pending = Tail(agent[w].pending)
    BY Idle DEF Agent
  <2>2. agent' = [agent EXCEPT ![w] = x]
    BY Zenon DEF Advance
  <2> HIDE DEF x
  <2> QED BY <1>1, <1>3, <2>1, <2>2 DEF DelegInv, AgentsInv
<1>5. PICK cost : cost = TurnCost * TurnsAfter(n + Len(s))
  OBVIOUS
<1>6. cost \in Nat
  BY <1>2, <1>5, TurnsEnd
<1>7. n + 1 + Len(Tail(s)) = n + Len(s)
  <2>1. PICK l \in Nat : l = Len(s) /\ l >= 1
    BY <1>2
  <2>2. n + 1 + (l - 1) = n + l
    OBVIOUS
  <2> QED BY <1>2, <2>1, <2>2, Zenon
<1>8. Gone(call'[w]) = 0 /\ Gone(call[w]) \in 0 .. 3
  BY GoneTyped DEF NoCall
<1>9. /\ Left(agent'[w], call'[w]) = cost + 4 * Len(Tail(s)) - 0 + 1
      /\ Left(agent[w], call[w]) = cost + 4 * Len(s) - Gone(call[w]) + 1
  BY <1>1, <1>3, <1>4, <1>5, <1>7, <1>8 DEF Left
<1> QED BY <1>2, <1>6, <1>8, <1>9

\* The call goes on.
LEMMA CallRunsDown ==
    ASSUME DelegInv, NEW w \in Workers, agent'[w] = agent[w],
           \/ call[w].phase = "idle" /\ call'[w].phase \in {"effect", "key"}
           \/ call[w].phase = "effect" /\ call'[w].phase \in {"find", "key"}
           \/ call[w].phase = "find" /\ call'[w].phase = "key"
    PROVE  Left(agent'[w], call'[w]) < Left(agent[w], call[w])
<1>1. Gone(call[w]) \in 0 .. 3 /\ Gone(call'[w]) \in 0 .. 3 /\ Gone(call[w]) < Gone(call'[w])
  BY DEF Gone
<1>2. PICK n \in Nat : n = agent[w].seq + Len(agent[w].pending)
  BY LoopTyped
<1>3. PICK m \in Nat : m = Len(agent[w].pending)
  BY LoopTyped
<1>4. PICK cost : cost = TurnCost * TurnsAfter(n)
  OBVIOUS
<1>5. cost \in Nat
  BY <1>4, TurnsEnd
<1>6. /\ Left(agent'[w], call'[w]) = cost + 4 * m - Gone(call'[w]) + 1
      /\ Left(agent[w], call[w]) = cost + 4 * m - Gone(call[w]) + 1
  BY <1>2, <1>3, <1>4 DEF Left
<1> QED BY <1>1, <1>5, <1>6

LEMMA GenerateRunsDown ==
    ASSUME DelegInv, NEW w \in Workers, Generate(w)
    PROVE  Left(agent'[w], call'[w]) < Left(agent[w], call[w])
<1>1. PICK turn \in Turns : agent' = [agent EXCEPT ![w].seq = @ + 1, ![w].pending = turn]
  BY Zenon DEF Generate
<1>2. /\ agent[w].pc = "loop" /\ agent[w].pending = <<>> /\ call' = call
      /\ agent[w].seq < SPECIALIST_MAX_STEPS
  BY DEF Generate, Asking, StepsLeft, supportVars
<1>3. Gone(call[w]) = 0
  BY <1>2, Idle, GoneTyped
<1>4. PICK n \in Nat : n = agent[w].seq
  BY Idle, Limits DEF Agent
<1>5. agent'[w].seq = n + 1 /\ agent'[w].pending = turn
  <2> DEFINE x == [agent[w] EXCEPT !.seq = @ + 1, !.pending = turn]
  <2>1. x.seq = agent[w].seq + 1 /\ x.pending = turn
    BY Idle DEF Agent
  <2>2. agent' = [agent EXCEPT ![w] = x]
    BY <1>1, Zenon
  <2> HIDE DEF x
  <2> QED BY <1>4, <2>1, <2>2 DEF DelegInv, AgentsInv
<1>6. PICK m \in 1 .. MaxCalls : m = Len(turn)
  BY TurnsAreCalls
<1>7. PICK now : now = TurnCost * TurnsAfter(n)
  OBVIOUS
<1>8. PICK later : later = TurnCost * TurnsAfter(n + 1 + m)
  OBVIOUS
<1>9. now \in Nat /\ later \in Nat /\ later + TurnCost <= now
  <2>1. n + 1 + m \in Nat /\ n < n + 1 + m
    BY <1>6, Limits
  <2> QED BY <1>2, <1>4, <1>7, <1>8, <2>1, TurnsEnd
<1>10. TurnCost = 4 * MaxCalls + 1 /\ 4 * m < TurnCost
  BY <1>6, Limits DEF TurnCost
<1>11. Left(agent[w], call[w]) = now + 4 * 0 - 0 + 1
  BY <1>2, <1>3, <1>4, <1>7 DEF Left
<1>12. Left(agent'[w], call'[w]) = later + 4 * m - 0 + 1
  BY <1>2, <1>3, <1>5, <1>6, <1>8 DEF Left
<1> QED BY <1>6, <1>9, <1>10, <1>11, <1>12, Limits

(***************************************************************************)
(* Every step of a specialist's loop brings it nearer to its end, so it    *)
(* has one: no turn begins at or beyond the step limit, and no call is     *)
(* made twice.                                                             *)
(***************************************************************************)
THEOREM LoopsEnd == DelegationSpec => LoopsRunDown
<1> DEFINE Nearer == \A w \in Workers : agent[w].pc = "loop" =>
                         \/ agent'[w] = agent[w] /\ call'[w] = call[w]
                         \/ LoopLeft(w)' < LoopLeft(w)
<1>1. DelegInv /\ [DelegationNext]_delegationVars => [Nearer]_delegationVars
  <2> SUFFICES ASSUME DelegInv, DelegationNext, NEW w \in Workers, agent[w].pc = "loop"
               PROVE  \/ agent'[w] = agent[w] /\ call'[w] = call[w]
                      \/ LoopLeft(w)' < LoopLeft(w)
    OBVIOUS
  <2>1. ASSUME NEW v \in Workers, Start(v) \/ Loop(v) \/ Die(v), v # w
        PROVE  agent'[w] = agent[w] /\ call'[w] = call[w]
    <3>1. PICK y \in Agent : Becomes(v, y)
      BY <2>1, StartStep, DieStep, GenerateStep, ReturnStep, PlainStep, ReplayStep,
         BeginEffectStep, RunEffectStep, StoreResultStep DEF Loop
    <3> QED BY <2>1, <3>1 DEF Becomes, DelegInv, AgentsInv
  <2>2. CASE Return(w) \/ Die(w)
    <3>1. agent'[w].pc # "loop"
      BY <2>2, AtIsFine DEF Return, Die, Goto, DelegInv, AgentsInv
    <3>2. Left(agent[w], call[w]) \in Nat \ {0}
      BY LoopTyped
    <3> QED BY <3>1, <3>2, LeftOfLoop, LeftOfLoopNext
  <2>3. ASSUME Left(agent'[w], call'[w]) < Left(agent[w], call[w])
        PROVE  LoopLeft(w)' < LoopLeft(w)
    <3>1. Left(agent[w], call[w]) \in Nat \ {0}
      BY LoopTyped
    <3> QED BY <2>3, <3>1, LeftOfLoop, LeftOfLoopNext
  <2>4. CASE Generate(w)
    BY <2>3, <2>4, GenerateRunsDown
  <2>5. CASE CallPlainTool(w) \/ Replay(w)
    <3>1. /\ agent[w].pending # <<>> /\ call[w].phase = "idle" /\ call' = call
          /\ \E told : Advance(w, told)
      BY <2>5, Zenon DEF CallPlainTool, Replay, OnceReplay, Calling
    <3> QED BY <2>3, <3>1, Idle, AdvanceRunsDown
  <2>6. CASE BeginEffect(w)
    <3>1. agent' = agent /\ call[w].phase = "idle" /\ OnceBegin(w, KeyOf(w))
      BY <2>6 DEF BeginEffect, Calling
    <3>2. call'[w].phase \in {"effect", "key"}
      <4>1. PICK k \in Keys : OnceBegin(w, k)
        BY <2>6, BeginEffectStep
      <4> DEFINE refusal == Refusal(Snapshot(w), k)
                 c == Begin(k, IF refusal = NULL THEN "effect" ELSE "key", refusal)
      <4>2. call' = [call EXCEPT ![w] = c]
        BY <4>1, Zenon DEF OnceBegin
      <4>3. c.phase \in {"effect", "key"}
        BY DEF Begin
      <4> HIDE DEF c
      <4> QED BY <4>2, <4>3 DEF DelegInv, Inv, SupportTypeOK
    <3> QED BY <2>3, <3>1, <3>2, CallRunsDown
  <2>7. CASE RunEffect(w)
    <3>1. /\ \/ call[w].phase = "effect"
             \/ call[w].phase = "find" /\ call'[w].phase = "key"
          /\ \/ call'[w] = NoCall
             \/ call'[w].phase \in {"find", "key"}
          /\ call[w].phase # "idle"
      BY <2>7, EffectCalls DEF RunEffect, DelegInv
    <3>2. CASE call'[w] = NoCall
      <4>1. Advance(w, {}) /\ agent[w].pending # <<>>
        BY <2>7, <3>1, <3>2, Idle DEF RunEffect
      <4> QED BY <2>3, <3>2, <4>1, AdvanceRunsDown
    <3>3. CASE call'[w] # NoCall
      <4>1. agent' = agent
        BY <2>7, <3>3 DEF RunEffect
      <4> QED BY <2>3, <3>1, <3>3, <4>1, CallRunsDown
    <3> QED BY <3>2, <3>3
  <2>8. CASE StoreResult(w)
    <3>1. /\ call[w].phase # "idle" /\ call' = [call EXCEPT ![w] = NoCall]
          /\ \E told : Advance(w, told)
      BY <2>8, Zenon DEF StoreResult, StoreKey, ToolFailed
    <3>2. call'[w] = NoCall /\ agent[w].pending # <<>>
      BY <3>1, Idle DEF DelegInv, Inv, SupportTypeOK
    <3> QED BY <2>3, <3>1, <3>2, AdvanceRunsDown
  <2>9. CASE NextDay /\ UNCHANGED <<agent, passes, seeded>>
    BY <2>9 DEF NextDay
  <2>10. ~Start(w)
    BY DEF Start, MigrateCount, MigrateInsert, MigrateRefused, Delegate
  <2> QED BY <2>1, <2>2, <2>4, <2>5, <2>6, <2>7, <2>8, <2>9, <2>10 DEF DelegationNext, Loop
<1> QED BY <1>1, DelegSafety, PTL DEF DelegationSpec, LoopsRunDown

-----------------------------------------------------------------------------
(* What the tables promise, of the running specialists.                    *)

(***************************************************************************)
(* Whatever turns the models make: one open ticket per type, statuses that *)
(* match the tables, a cap exceeded by less than the number of workers.    *)
(***************************************************************************)
THEOREM SpecialistsKeepTheTables ==
    DelegationSpec => [](OneOpenPerType /\ StatusMatchesTables /\ CapOvershootBounded)
BY SpecialistsImplementSupportDb, NoSecondOpenTicket, StatusAgrees, OvershootIsBounded, PTL
   DEF ImplementsSupportDb

(***************************************************************************)
(* What a specialist's model was told of a side effect is true, of the     *)
(* call it was told of, and stays true for as long as the specialist goes  *)
(* on: others may execute the same delegation and move the same tickets.   *)
(***************************************************************************)
THEOREM ModelsAreToldTheTruth ==
    DelegationSpec => [](\A w \in Workers : \A told \in agent[w].heard :
                            IsTrue(told.key, told.result))
<1> DEFINE Truth == \A w \in Workers : \A told \in agent[w].heard : IsTrue(told.key, told.result)
<1>1. DelegInv /\ HeardIsStored /\ StoredResultsAreTrue => Truth
  <2> SUFFICES ASSUME DelegInv, HeardIsStored, StoredResultsAreTrue,
                      NEW w \in Workers, NEW told \in agent[w].heard
               PROVE  IsTrue(told.key, told.result)
    OBVIOUS
  <2>1. told \in Told
    BY Idle DEF Agent
  <2>2. told.key \in Keys /\ told.result # NULL /\ db.idempotency[told.key] = told.result
    BY <2>1, ToldIsStorable DEF HeardIsStored
  <2> QED BY <2>2 DEF StoredResultsAreTrue
<1>2. DelegationSpec => []StoredResultsAreTrue
  BY SpecialistsImplementSupportDb, ReplayedResultsAreTrue DEF ImplementsSupportDb
<1> QED BY <1>1, <1>2, DelegSafety, ToldTheStoredResult, PTL
=============================================================================
