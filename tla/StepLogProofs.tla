---------------------------- MODULE StepLogProofs ----------------------------
(***************************************************************************)
(* What rebuild makes of a well-formed step log, whatever its length.      *)
(***************************************************************************)
EXTENDS Runner, TLAPS, WellFoundedInduction

USE StepsAssumption

-----------------------------------------------------------------------------

\* Every non-empty set of numbers has a least one: how induction is done here.
LEMMA LeastOf ==
    ASSUME NEW S \in SUBSET Nat, S # {}
    PROVE  \E x \in S : \A y \in S : x <= y
<1> DEFINE R == {ss \in Nat \X Nat : ss[1] < ss[2]}
<1>1. IsWellFoundedOn(R, Nat)
  BY NatLessThanWellFounded, Zenon DEF OpToRel
<1>2. \A x, y \in Nat : x < y => <<x, y>> \in R
  OBVIOUS
<1> HIDE DEF R
<1>3. PICK x \in S : \A y \in S : ~ (<<y, x>> \in R)
  BY <1>1, WFMin
<1>4. \A y \in S : ~ (y < x)
  BY <1>2, <1>3, Zenon
<1> QED BY <1>4

Last == MaxSteps + MaxCalls
Nothing == [seq |-> 0, pending |-> {}]

\* f is what rebuild knows after each of the first n rows of the log.
Known(log, n, f) ==
    f = [s \in 0 .. n |-> IF s = 0 THEN Nothing ELSE Folded(f[s - 1], s, log[s])]

\* Its loop has a result after every row.
LEMMA KnownExists ==
    ASSUME NEW log, NEW n \in Nat
    PROVE  \E f : Known(log, n, f)
<1> DEFINE Bad == {m \in Nat : ~\E f : Known(log, m, f)}
<1> SUFFICES ASSUME Bad # {} PROVE FALSE
  OBVIOUS
<1>1. PICK m \in Bad : \A k \in Bad : m <= k
  <2>1. Bad \in SUBSET Nat
    OBVIOUS
  <2> HIDE DEF Bad
  <2> QED BY <2>1, LeastOf
<1>2. CASE m = 0
  <2>1. Known(log, 0, [s \in 0 .. 0 |-> Nothing])
    BY DEF Known
  <2> QED BY <1>1, <1>2, <2>1
<1>3. CASE m # 0
  <2>1. m - 1 \in Nat \ Bad /\ m \in Nat
    BY <1>1, <1>3
  <2>2. PICK f : Known(log, m - 1, f)
    BY <2>1
  <2> DEFINE g == [s \in 0 .. m |-> IF s < m THEN f[s] ELSE Folded(f[m - 1], m, log[m])]
  <2>3. \A s \in 0 .. m : g[s] = IF s = 0 THEN Nothing ELSE Folded(g[s - 1], s, log[s])
    <3> SUFFICES ASSUME NEW s \in 0 .. m
                 PROVE  g[s] = IF s = 0 THEN Nothing ELSE Folded(g[s - 1], s, log[s])
      OBVIOUS
    <3>1. CASE s < m
      <4>1. g[s] = f[s] /\ (s # 0 => g[s - 1] = f[s - 1])
        BY <2>1, <3>1
      <4>2. f[s] = IF s = 0 THEN Nothing ELSE Folded(f[s - 1], s, log[s])
        BY <2>1, <2>2, <3>1 DEF Known
      <4> QED BY <4>1, <4>2
    <3>2. CASE s = m
      BY <1>3, <2>1, <3>2
    <3> QED BY <2>1, <3>1, <3>2
  <2>4. Known(log, m, g)
    BY <2>3 DEF Known
  <2> QED BY <1>1, <2>4
<1> QED BY <1>2, <1>3

LEMMA RebuiltIsKnown ==
    ASSUME NEW log
    PROVE  \E f : Known(log, Last, f) /\ Rebuilt(log) = f[Last]
<1> DEFINE known[s \in {0} \cup Slots] ==
              IF s = 0 THEN [seq |-> 0, pending |-> {}] ELSE Folded(known[s - 1], s, log[s])
<1>1. Rebuilt(log) = known[MaxSteps + MaxCalls]
  BY DEF Rebuilt
<1>2. {0} \cup Slots = 0 .. Last
  BY DEF Slots, Last
<1>3. PICK f : Known(log, Last, f)
  BY KnownExists DEF Last
<1>4. Known(log, Last, known)
  BY <1>2, <1>3 DEF Known, Nothing
<1> QED BY <1>1, <1>4 DEF Last

-----------------------------------------------------------------------------
(* Well-formed logs.                                                       *)

Log == [Slots -> Step \cup {NoStep}]

\* A model turn starts before the step limit, so its calls have slots.
ModelsInTime(log) == \A s \in Slots : log[s].kind = "model" => s <= MaxSteps

LogOK(log) == log \in Log /\ WellFormed(log) /\ ModelsInTime(log)

LEMMA StepKinds ==
    ASSUME NEW log \in Log, NEW s \in Slots
    PROVE  \/ log[s] = NoStep /\ log[s].kind = "none"
           \/ log[s] # NoStep /\ log[s] \in Step /\ log[s].kind = "model"
           \/ log[s] # NoStep /\ log[s] \in Step /\ log[s].kind = "tool"
<1>1. log[s] \in Step \/ log[s] = NoStep
  BY DEF Log
<1> QED BY <1>1 DEF Step, NoStep

LEMMA TurnLength ==
    ASSUME NEW turn \in Turns
    PROVE  /\ Len(turn) \in 0 .. MaxCalls /\ DOMAIN turn = 1 .. Len(turn)
           /\ \A i \in 1 .. Len(turn) : turn[i] \in Calls
           /\ turn = <<>> <=> Len(turn) = 0
<1>1. PICK n \in 0 .. MaxCalls : turn \in [1 .. n -> Calls]
  BY DEF Turns
<1>2. turn \in Seq(Calls) /\ Len(turn) = n
  BY <1>1
<1> QED BY <1>1, <1>2

\* The slots of the calls that the model step at m asks for.
LEMMA DemandedSlots ==
    ASSUME NEW log, LogOK(log), NEW m \in Slots, log[m].kind = "model"
    PROVE  /\ log[m].calls \in Turns /\ Len(log[m].calls) \in 0 .. MaxCalls
           /\ m <= MaxSteps /\ m \in Nat /\ m + Len(log[m].calls) \in Slots
           /\ Numbered(m, log[m].calls) \in SUBSET Pending
           /\ \A p \in Numbered(m, log[m].calls) :
                 /\ p.seq \in Slots /\ m < p.seq /\ p.seq <= m + Len(log[m].calls)
                 /\ p.call = log[m].calls[p.seq - m]
           /\ Demands(log, m) <=> Len(log[m].calls) # 0
<1>1. log[m] \in Step
  BY StepKinds DEF LogOK
<1>2. log[m].calls \in Turns
  BY <1>1 DEF Step
<1>3. PICK turn \in Turns : turn = log[m].calls
  BY <1>2
<1>4. m <= MaxSteps /\ m \in Nat /\ 1 <= m
  BY DEF LogOK, ModelsInTime, Slots
<1>5. \A i \in 1 .. Len(turn) : m + i \in Slots /\ m < m + i /\ m + i <= m + Len(turn) /\ m + i - m = i
  BY <1>3, <1>4, TurnLength DEF Slots
<1>6. \A p \in Numbered(m, turn) :
         /\ p.seq \in Slots /\ m < p.seq /\ p.seq <= m + Len(turn)
         /\ p.call = turn[p.seq - m] /\ p \in Pending
  <2> SUFFICES ASSUME NEW i \in 1 .. Len(turn),
                      NEW p, p = [seq |-> p.seq, call |-> p.call], p.seq = m + i, p.call = turn[i]
               PROVE  /\ p.seq \in Slots /\ m < p.seq /\ p.seq <= m + Len(turn)
                      /\ p.call = turn[p.seq - m] /\ p \in Pending
    BY DEF Numbered
  <2>1. turn[i] \in Calls /\ m + i \in Slots /\ m + i - m = i
    BY <1>5, TurnLength
  <2>2. p \in Pending
    BY <2>1 DEF Pending
  <2>3. PICK x : x = p.seq
    OBVIOUS
  <2>4. x - m = i
    BY <1>4, <2>1, <2>3
  <2>5. p.call = turn[p.seq - m]
    BY <2>3, <2>4, Zenon
  <2> QED BY <1>5, <2>1, <2>2, <2>5
<1>7. m + Len(turn) \in Slots
  BY <1>4, <1>5, TurnLength DEF Slots
<1> QED BY <1>2, <1>3, <1>4, <1>6, <1>7, TurnLength DEF Demands

\* Between a turn and the answers to all its calls there is no other turn.
LEMMA NextTurn ==
    ASSUME NEW log, LogOK(log), NEW m \in Slots, log[m].kind = "model",
           NEW q \in Slots, q > m, log[q].kind = "model"
    PROVE  Demands(log, m) /\ q > m + Len(log[m].calls)
<1> DEFINE Later == {x \in Slots : x > m /\ log[x].kind = "model"}
<1>1. PICK n \in Later : \A x \in Later : n <= x
  <2>1. Later \in SUBSET Nat /\ q \in Later
    BY DEF Slots
  <2> HIDE DEF Later
  <2> QED BY <2>1, LeastOf
<1>2. PICK k \in 1 .. n - 1 : /\ Demands(log, k)
                              /\ n = k + Len(log[k].calls) + 1
                              /\ AnswersOnly(log, k + 1, n - 1)
  BY <1>1 DEF LogOK, WellFormed, Slots
<1>3. k = m
  <2>1. m \in Nat /\ n \in Nat /\ k \in Nat /\ k \in Slots /\ n > m /\ k < n
    BY <1>1, <1>2 DEF Slots
  <2>2. ~(k < m)
    BY <1>2, <2>1 DEF AnswersOnly
  <2>3. ~(k > m)
    BY <1>1, <1>2, <2>1 DEF Demands
  <2> QED BY <2>1, <2>2, <2>3
<1>4. n <= q /\ Len(log[m].calls) \in Nat /\ m \in Nat /\ n \in Nat /\ q \in Nat
  BY <1>1, DemandedSlots DEF Slots
<1> QED BY <1>2, <1>3, <1>4

-----------------------------------------------------------------------------
(* What rebuild knows after the first s rows.                              *)

\* The last turn among them, and those of its calls that they do not answer.
LastTurn(log, s, m) == /\ log[m].kind = "model"
                       /\ \A q \in m + 1 .. s : log[q].kind # "model"

KnownFrom(log, s, m, known) ==
    /\ LastTurn(log, s, m)
    /\ known.seq = m + Len(log[m].calls)
    /\ known.pending = {p \in Numbered(m, log[m].calls) : p.seq > s \/ log[p.seq] = NoStep}

KnownAt(log, s, known) ==
    /\ known \in [seq : {0} \cup Slots, pending : SUBSET Pending]
    /\ \/ known = Nothing /\ \A q \in 1 .. s : log[q] = NoStep
       \/ \E m \in 1 .. s : KnownFrom(log, s, m, known)

LEMMA KnownNext ==
    ASSUME NEW log, LogOK(log), NEW s \in 0 .. Last - 1, NEW known, KnownAt(log, s, known)
    PROVE  KnownAt(log, s + 1, Folded(known, s + 1, log[s + 1]))
<1> DEFINE t == s + 1
           next == Folded(known, t, log[t])
<1>1. /\ t \in Slots /\ s \in Nat /\ t \in Nat /\ Last \in Nat
      /\ 1 .. s \subseteq Slots /\ 1 .. t = 1 .. s \cup {t}
  BY DEF Slots, Last
<1>2. log \in Log
  BY DEF LogOK
<1>3. known = [seq |-> known.seq, pending |-> known.pending]
      /\ known.seq \in {0} \cup Slots /\ known.pending \in SUBSET Pending
  BY DEF KnownAt
<1>4. CASE log[t] = NoStep
  <2>1. log[t].kind = "none"
    BY <1>4 DEF NoStep
  <2>2. next = known
    BY <2>1 DEF Folded
  <2>3. CASE known = Nothing /\ \A q \in 1 .. s : log[q] = NoStep
    BY <1>1, <1>4, <2>2, <2>3 DEF KnownAt
  <2>4. ASSUME NEW m \in 1 .. s, KnownFrom(log, s, m, known)
        PROVE  KnownFrom(log, t, m, next)
    <3>1. m \in Slots /\ log[m].kind = "model"
      BY <1>1, <2>4 DEF KnownFrom, LastTurn
    <3>2. \A p \in Numbered(m, log[m].calls) : p.seq \in Nat
      BY <3>1, DemandedSlots DEF Slots
    <3>3. \A p \in Numbered(m, log[m].calls) :
             (p.seq > s \/ log[p.seq] = NoStep) <=> (p.seq > t \/ log[p.seq] = NoStep)
      BY <1>1, <1>4, <3>2
    <3>4. LastTurn(log, t, m)
      BY <1>1, <2>1, <2>4 DEF KnownFrom, LastTurn
    <3> QED BY <2>2, <2>4, <3>3, <3>4 DEF KnownFrom
  <2> QED BY <1>1, <2>2, <2>3, <2>4 DEF KnownAt
<1>5. CASE log[t].kind = "model" /\ log[t].calls # <<>>
  <2>1. next = [seq |-> t + Len(log[t].calls), pending |-> Numbered(t, log[t].calls)]
    BY <1>5 DEF Folded
  <2>2. /\ t + Len(log[t].calls) \in Slots
        /\ Numbered(t, log[t].calls) \in SUBSET Pending
        /\ \A p \in Numbered(t, log[t].calls) : p.seq > t
    BY <1>1, <1>5, DemandedSlots
  <2> HIDE DEF next
  <2>3. KnownFrom(log, t, t, next)
    BY <1>1, <1>5, <2>1, <2>2 DEF KnownFrom, LastTurn
  <2>4. next \in [seq : {0} \cup Slots, pending : SUBSET Pending]
    BY <2>1, <2>2
  <2> QED BY <1>1, <2>3, <2>4 DEF KnownAt, next
<1>6. CASE log[t].kind = "model" /\ log[t].calls = <<>>
  <2>1. next = [known EXCEPT !.seq = t]
    BY <1>6 DEF Folded
  <2>2. next.seq = t /\ next.pending = known.pending
        /\ next \in [seq : {0} \cup Slots, pending : SUBSET Pending]
    BY <1>1, <1>3, <2>1
  <2>3. Len(log[t].calls) = 0 /\ Numbered(t, log[t].calls) = {}
    BY <1>6 DEF Numbered
  <2>4. known.pending = {}
    <3>1. CASE known = Nothing
      BY <3>1 DEF Nothing
    <3>2. ASSUME NEW m \in 1 .. s, KnownFrom(log, s, m, known)
          PROVE  known.pending = {}
      <4>1. m \in Slots /\ log[m].kind = "model" /\ t > m
        BY <1>1, <3>2 DEF KnownFrom, LastTurn
      <4>2. t > m + Len(log[m].calls)
        BY <1>1, <1>6, <4>1, NextTurn
      <4>3. log[t] # NoStep
        BY <1>6 DEF NoStep
      <4>4. \A p \in Numbered(m, log[m].calls) :
               /\ p.seq \in Slots /\ p.seq <= m + Len(log[m].calls) /\ m + Len(log[m].calls) \in Slots
        BY <4>1, DemandedSlots
      <4>5. \A p \in Numbered(m, log[m].calls) : p.seq \in Slots /\ p.seq <= s /\ p.seq < t
        BY <1>1, <4>2, <4>4 DEF Slots
      <4>6. \A p \in Numbered(m, log[m].calls) : log[p.seq] # NoStep
        BY <1>1, <4>3, <4>5 DEF LogOK, WellFormed
      <4>7. \A p \in Numbered(m, log[m].calls) : ~(p.seq > s)
        BY <1>1, <4>5 DEF Slots
      <4> QED BY <3>2, <4>6, <4>7 DEF KnownFrom
    <3> QED BY <3>1, <3>2 DEF KnownAt
  <2> HIDE DEF next
  <2>5. KnownFrom(log, t, t, next)
    BY <1>1, <1>6, <2>2, <2>3, <2>4 DEF KnownFrom, LastTurn
  <2> QED BY <1>1, <2>2, <2>5 DEF KnownAt, next
<1>7. CASE log[t].kind = "tool"
  <2>1. next = [known EXCEPT !.pending = {p \in @ : p.seq # t}]
    BY <1>7 DEF Folded
  <2>2. /\ next.seq = known.seq /\ next.pending = {p \in known.pending : p.seq # t}
        /\ next \in [seq : {0} \cup Slots, pending : SUBSET Pending]
    BY <1>3, <2>1
  <2> HIDE DEF next
  <2>3. log[t] # NoStep
    BY <1>7 DEF NoStep
  <2>4. ~(\A q \in 1 .. s : log[q] = NoStep)
    <3>1. PICK m \in 1 .. t - 1 : Demands(log, m)
      BY <1>1, <1>7 DEF LogOK, WellFormed
    <3>2. m \in 1 .. s /\ log[m] # NoStep
      BY <1>1, <3>1 DEF Demands, NoStep
    <3> QED BY <3>2
  <2>5. PICK m \in 1 .. s : KnownFrom(log, s, m, known)
    BY <2>4 DEF KnownAt
  <2>6. m \in Slots /\ log[m].kind = "model"
    BY <1>1, <2>5 DEF KnownFrom, LastTurn
  <2>7. \A p \in Numbered(m, log[m].calls) : p.seq \in Nat
    BY <2>6, DemandedSlots DEF Slots
  <2>8. \A p \in Numbered(m, log[m].calls) :
           ((p.seq > s \/ log[p.seq] = NoStep) /\ p.seq # t) <=> (p.seq > t \/ log[p.seq] = NoStep)
    BY <1>1, <2>3, <2>7
  <2>9. LastTurn(log, t, m)
    BY <1>1, <1>7, <2>5 DEF KnownFrom, LastTurn
  <2>10. KnownFrom(log, t, m, next)
    BY <2>2, <2>5, <2>8, <2>9 DEF KnownFrom
  <2> QED BY <1>1, <2>2, <2>10 DEF KnownAt, next
<1> QED BY <1>1, <1>2, <1>4, <1>5, <1>6, <1>7, StepKinds

\* What a resumed run knows: its last turn and the calls not yet answered.
LEMMA RebuiltKnows ==
    ASSUME NEW log, LogOK(log)
    PROVE  KnownAt(log, Last, Rebuilt(log))
<1>1. PICK f : Known(log, Last, f) /\ Rebuilt(log) = f[Last]
  BY RebuiltIsKnown
<1> DEFINE Bad == {s \in 0 .. Last : ~KnownAt(log, s, f[s])}
<1>2. Last \in Nat
  BY DEF Last
<1> SUFFICES ASSUME Bad # {} PROVE FALSE
  BY <1>1, <1>2
<1>3. PICK s \in Bad : \A x \in Bad : s <= x
  <2>1. Bad \in SUBSET Nat
    OBVIOUS
  <2> HIDE DEF Bad
  <2> QED BY <2>1, LeastOf
<1>4. CASE s = 0
  <2>1. f[0] = Nothing
    BY <1>1, <1>2 DEF Known
  <2>2. Nothing \in [seq : {0} \cup Slots, pending : SUBSET Pending]
    BY DEF Nothing
  <2>3. KnownAt(log, 0, f[0])
    BY <2>1, <2>2 DEF KnownAt
  <2> QED BY <1>3, <1>4, <2>3
<1>5. CASE s # 0
  <2>1. s - 1 \in 0 .. Last - 1 /\ s - 1 \in 0 .. Last /\ s - 1 \notin Bad /\ s - 1 + 1 = s
    BY <1>2, <1>3, <1>5
  <2>2. KnownAt(log, s - 1, f[s - 1])
    BY <2>1, Zenon
  <2>3. f[s] = Folded(f[s - 1], s, log[s])
    BY <1>1, <1>3, <1>5 DEF Known
  <2>4. KnownAt(log, s, f[s])
    BY <2>1, <2>2, <2>3, KnownNext
  <2> QED BY <1>3, <2>4
<1> QED BY <1>4, <1>5

-----------------------------------------------------------------------------
(* Logs that grow by a step.                                               *)

\* A step that may be recorded at s.
Fits(log, s, step) ==
    /\ s \in Slots /\ step \in Step
    /\ log[s] = NoStep
    /\ s = 1 \/ log[s - 1] # NoStep
    /\ step.kind = "tool" =>
          \E m \in 1 .. s - 1 : /\ Demands(log, m)
                                /\ s - m <= Len(log[m].calls)
                                /\ step.calls = <<log[m].calls[s - m]>>
                                /\ AnswersOnly(log, m + 1, s - 1)
    /\ step.kind = "model" =>
          /\ s <= MaxSteps
          /\ s > 1 => \E m \in 1 .. s - 1 : /\ Demands(log, m)
                                            /\ s = m + Len(log[m].calls) + 1
                                            /\ AnswersOnly(log, m + 1, s - 1)

\* More steps than before: the ones that were there are there.
Longer(log, after) == /\ log \in Log /\ after \in Log
                      /\ \A q \in Slots : log[q] # NoStep => after[q] = log[q]

Writes(log, s, step, after) == after = [log EXCEPT ![s] = step]

LEMMA Recorded ==
    ASSUME NEW log, LogOK(log), NEW s, NEW step, Fits(log, s, step),
           NEW after, Writes(log, s, step, after)
    PROVE  LogOK(after) /\ Longer(log, after) /\ after[s] = step
<1>1. /\ log \in Log /\ s \in Slots /\ s \in Nat /\ Slots \subseteq Nat /\ 1 <= s
      /\ step \in Step /\ step # NoStep /\ log[s] = NoStep
  BY DEF LogOK, Fits, Slots, Step, NoStep
<1>2. after \in Log /\ after[s] = step /\ \A q \in Slots : q # s => after[q] = log[q]
  BY <1>1 DEF Log, Writes
<1>3. \A q \in Slots : q > s => log[q] = NoStep
  BY <1>1 DEF LogOK, WellFormed
<1>4. \A q \in Slots : q < s => log[q] # NoStep
  <2> SUFFICES ASSUME NEW q \in Slots, q < s, log[q] = NoStep PROVE FALSE
    OBVIOUS
  <2>1. s - 1 \in Slots /\ s # 1
    BY <1>1 DEF Slots
  <2>2. log[s - 1] = NoStep
    <3>1. CASE q = s - 1
      BY <3>1
    <3>2. CASE q # s - 1
      <4>1. s - 1 > q
        BY <1>1, <3>2
      <4> QED BY <2>1, <4>1 DEF LogOK, WellFormed
    <3> QED BY <3>1, <3>2
  <2> QED BY <2>1, <2>2 DEF Fits
<1>5. \A q \in 1 .. s - 1 : q \in Slots /\ q # s
  BY <1>1 DEF Slots
<1>6. \A m \in 1 .. s - 1 : /\ after[m] = log[m]
                            /\ Demands(log, m) => Demands(after, m)
                            /\ AnswersOnly(log, m + 1, s - 1) => AnswersOnly(after, m + 1, s - 1)
  <2> TAKE m \in 1 .. s - 1
  <2>1. after[m] = log[m]
    BY <1>2, <1>5
  <2>2. \A q \in m + 1 .. s - 1 : after[q] = log[q]
    BY <1>1, <1>2, <1>5
  <2> QED BY <2>1, <2>2 DEF Demands, AnswersOnly
<1>7. WellFormed(after)
  <2> SUFFICES ASSUME NEW q \in Slots
               PROVE  /\ after[q] = NoStep => \A x \in Slots : x > q => after[x] = NoStep
                      /\ after[q].kind = "tool" =>
                            \E m \in 1 .. q - 1 : /\ Demands(after, m)
                                                  /\ q - m <= Len(after[m].calls)
                                                  /\ after[q].calls = <<after[m].calls[q - m]>>
                                                  /\ AnswersOnly(after, m + 1, q - 1)
                      /\ after[q].kind = "model" /\ q > 1 =>
                            \E m \in 1 .. q - 1 : /\ Demands(after, m)
                                                  /\ q = m + Len(after[m].calls) + 1
                                                  /\ AnswersOnly(after, m + 1, q - 1)
    BY DEF WellFormed
  <2>1. CASE q = s
    <3>1. after[q] # NoStep
      BY <1>1, <1>2, <2>1
    <3>2. after[q] = step
      BY <1>2, <2>1
    <3>3. step.kind = "tool" =>
             \E m \in 1 .. q - 1 : /\ Demands(after, m)
                                   /\ q - m <= Len(after[m].calls)
                                   /\ step.calls = <<after[m].calls[q - m]>>
                                   /\ AnswersOnly(after, m + 1, q - 1)
      BY <1>6, <2>1 DEF Fits
    <3>4. step.kind = "model" /\ q > 1 =>
             \E m \in 1 .. q - 1 : /\ Demands(after, m)
                                   /\ q = m + Len(after[m].calls) + 1
                                   /\ AnswersOnly(after, m + 1, q - 1)
      BY <1>6, <2>1 DEF Fits
    <3> QED BY <3>1, <3>2, <3>3, <3>4
  <2>2. CASE q > s
    <3>1. after[q] = NoStep /\ after[q].kind = "none"
      BY <1>1, <1>2, <1>3, <2>2 DEF NoStep
    <3>2. \A x \in Slots : x > q => after[x] = NoStep
      BY <1>1, <1>2, <1>3, <2>2
    <3> QED BY <3>1, <3>2
  <2>3. CASE q < s
    <3>1. after[q] = log[q] /\ after[q] # NoStep
      BY <1>1, <1>2, <1>4, <2>3
    <3>2. \A m \in 1 .. q - 1 :
             /\ after[m] = log[m]
             /\ Demands(log, m) => Demands(after, m)
             /\ AnswersOnly(log, m + 1, q - 1) => AnswersOnly(after, m + 1, q - 1)
      <4> TAKE m \in 1 .. q - 1
      <4>1. m \in 1 .. s - 1 /\ \A x \in m + 1 .. q - 1 : x \in 1 .. s - 1
        BY <1>1, <2>3
      <4>2. after[m] = log[m] /\ \A x \in m + 1 .. q - 1 : after[x] = log[x]
        BY <1>2, <1>5, <4>1
      <4> QED BY <4>2, Zenon DEF Demands, AnswersOnly
    <3>3. ASSUME after[q].kind = "tool"
          PROVE  \E m \in 1 .. q - 1 : /\ Demands(after, m)
                                       /\ q - m <= Len(after[m].calls)
                                       /\ after[q].calls = <<after[m].calls[q - m]>>
                                       /\ AnswersOnly(after, m + 1, q - 1)
      <4>1. PICK m \in 1 .. q - 1 : /\ Demands(log, m)
                                    /\ q - m <= Len(log[m].calls)
                                    /\ log[q].calls = <<log[m].calls[q - m]>>
                                    /\ AnswersOnly(log, m + 1, q - 1)
        BY <3>1, <3>3 DEF LogOK, WellFormed
      <4> QED BY <3>1, <3>2, <4>1
    <3>4. ASSUME after[q].kind = "model", q > 1
          PROVE  \E m \in 1 .. q - 1 : /\ Demands(after, m)
                                       /\ q = m + Len(after[m].calls) + 1
                                       /\ AnswersOnly(after, m + 1, q - 1)
      <4>1. PICK m \in 1 .. q - 1 : /\ Demands(log, m)
                                    /\ q = m + Len(log[m].calls) + 1
                                    /\ AnswersOnly(log, m + 1, q - 1)
        BY <3>1, <3>4 DEF LogOK, WellFormed
      <4> QED BY <3>1, <3>2, <4>1
    <3>5. after[q] = NoStep => \A x \in Slots : x > q => after[x] = NoStep
      BY <3>1
    <3> QED BY <3>3, <3>4, <3>5
  <2>4. q = s \/ q > s \/ q < s
    BY <1>1
  <2> QED BY <2>1, <2>2, <2>3, <2>4, Zenon
<1>8. ModelsInTime(after)
  BY <1>1, <1>2 DEF LogOK, ModelsInTime, Fits
<1>9. Longer(log, after)
  BY <1>1, <1>2 DEF Longer
<1> QED BY <1>2, <1>7, <1>8, <1>9 DEF LogOK

LEMMA AnswerStays ==
    ASSUME NEW log, NEW after, Longer(log, after), HasAnswer(log)
    PROVE  HasAnswer(after)
BY DEF Longer, HasAnswer, NoStep

LEMMA DemandStays ==
    ASSUME NEW log, NEW after, Longer(log, after), NEW m \in Slots, Demands(log, m)
    PROVE  after[m] = log[m] /\ Demands(after, m)
BY DEF Longer, Demands, NoStep

-----------------------------------------------------------------------------
(* A worker that follows a log.                                            *)

\* It knows a turn of the log, the last or an older one, and has its calls
\* pending but for some that are answered.
FollowsTurn(log, seq, pending, m) ==
    /\ Demands(log, m)
    /\ seq = m + Len(log[m].calls)
    /\ pending \subseteq Numbered(m, log[m].calls)
    /\ \A p \in Numbered(m, log[m].calls) : p \notin pending => log[p.seq] # NoStep

Follows(log, seq, pending) == \/ seq = 0 /\ pending = {}
                              \/ \E m \in Slots : FollowsTurn(log, seq, pending, m)

\* The call at q is one that a turn asks for.
Asked(log, q, call) ==
    \E m \in Slots : /\ Demands(log, m)
                     /\ m < q /\ q <= m + Len(log[m].calls)
                     /\ call = log[m].calls[q - m]

LEMMA FollowsTyped ==
    ASSUME NEW log, LogOK(log), NEW seq, NEW pending, Follows(log, seq, pending)
    PROVE  seq \in {0} \cup Slots /\ pending \in SUBSET Pending
<1>1. CASE seq = 0 /\ pending = {}
  BY <1>1
<1>2. ASSUME NEW m \in Slots, FollowsTurn(log, seq, pending, m)
      PROVE  seq \in {0} \cup Slots /\ pending \in SUBSET Pending
  BY <1>2, DemandedSlots DEF FollowsTurn, Demands
<1> QED BY <1>1, <1>2 DEF Follows

LEMMA FollowsStays ==
    ASSUME NEW log, LogOK(log), NEW after, Longer(log, after),
           NEW seq, NEW pending, Follows(log, seq, pending)
    PROVE  Follows(after, seq, pending)
<1>1. CASE seq = 0 /\ pending = {}
  BY <1>1 DEF Follows
<1>2. ASSUME NEW m \in Slots, FollowsTurn(log, seq, pending, m)
      PROVE  FollowsTurn(after, seq, pending, m)
  <2>1. after[m] = log[m] /\ Demands(after, m)
    BY <1>2, DemandStays DEF FollowsTurn
  <2>2. \A p \in Numbered(m, log[m].calls) : p.seq \in Slots
    BY <1>2, DemandedSlots DEF FollowsTurn, Demands
  <2>3. \A q \in Slots : log[q] # NoStep => after[q] # NoStep
    BY DEF Longer
  <2> QED BY <1>2, <2>1, <2>2, <2>3 DEF FollowsTurn
<1> QED BY <1>1, <1>2 DEF Follows

LEMMA AskedStays ==
    ASSUME NEW log, NEW after, Longer(log, after), NEW q, NEW call, Asked(log, q, call)
    PROVE  Asked(after, q, call)
<1>1. PICK m \in Slots : /\ Demands(log, m)
                         /\ m < q /\ q <= m + Len(log[m].calls)
                         /\ call = log[m].calls[q - m]
  BY DEF Asked
<1>2. after[m] = log[m] /\ Demands(after, m)
  BY <1>1, DemandStays
<1> QED BY <1>1, <1>2 DEF Asked

\* No two turns ask for a call at the same slot.
LEMMA AskedOnce ==
    ASSUME NEW log, LogOK(log), NEW q \in Slots,
           NEW c, Asked(log, q, c), NEW d, Asked(log, q, d)
    PROVE  c = d
<1>1. PICK m \in Slots : /\ Demands(log, m)
                         /\ m < q /\ q <= m + Len(log[m].calls)
                         /\ c = log[m].calls[q - m]
  BY DEF Asked
<1>2. PICK n \in Slots : /\ Demands(log, n)
                         /\ n < q /\ q <= n + Len(log[n].calls)
                         /\ d = log[n].calls[q - n]
  BY DEF Asked
<1>3. /\ m \in Nat /\ n \in Nat /\ q \in Nat
      /\ Len(log[m].calls) \in Nat /\ Len(log[n].calls) \in Nat
  BY <1>1, <1>2, DemandedSlots DEF Slots, Demands
<1>4. ~(m < n)
  BY <1>1, <1>2, <1>3, NextTurn DEF Demands
<1>5. ~(n < m)
  BY <1>1, <1>2, <1>3, NextTurn DEF Demands
<1>6. m = n
  BY <1>3, <1>4, <1>5
<1> QED BY <1>1, <1>2, <1>6

LEMMA FirstIsLeast ==
    ASSUME NEW pending \in SUBSET Pending, pending # {}
    PROVE  First(pending) \in pending /\ \A q \in pending : First(pending).seq <= q.seq
<1> DEFINE S == {p.seq : p \in pending}
<1>1. PICK x \in S : \A y \in S : x <= y
  <2>1. S \in SUBSET Nat /\ S # {}
    BY DEF Pending, Slots
  <2> HIDE DEF S
  <2> QED BY <2>1, LeastOf
<1>2. PICK p \in pending : x = p.seq
  BY <1>1
<1>3. \A q \in pending : p.seq <= q.seq
  BY <1>1, <1>2
<1> QED BY <1>3 DEF First

\* What rebuild gives follows the log, unless the answer is there.
LEMMA RebuiltFollows ==
    ASSUME NEW log, LogOK(log), ~HasAnswer(log)
    PROVE  Follows(log, Rebuilt(log).seq, Rebuilt(log).pending)
<1>1. PICK known : known = Rebuilt(log) /\ KnownAt(log, Last, known)
  BY RebuiltKnows
<1>2. CASE known = Nothing
  BY <1>1, <1>2 DEF Nothing, Follows
<1>3. ASSUME NEW m \in 1 .. Last, KnownFrom(log, Last, m, known)
      PROVE  FollowsTurn(log, known.seq, known.pending, m)
  <2>1. m \in Slots /\ log[m].kind = "model"
    BY <1>3 DEF KnownFrom, LastTurn, Slots, Last
  <2>2. Demands(log, m)
    BY <2>1 DEF HasAnswer, Demands
  <2>3. \A p \in Numbered(m, log[m].calls) : ~(p.seq > Last)
    <3>1. \A p \in Numbered(m, log[m].calls) : p.seq \in Slots
      BY <2>1, DemandedSlots
    <3> QED BY <3>1 DEF Slots, Last
  <2> QED BY <1>3, <2>2, <2>3 DEF FollowsTurn, KnownFrom
<1>4. 1 .. Last = Slots
  BY DEF Last, Slots
<1> QED BY <1>1, <1>2, <1>3, <1>4 DEF KnownAt, Follows

\* and is no further back than any worker that follows it.
LEMMA RebuiltNoEarlier ==
    ASSUME NEW log, LogOK(log), ~HasAnswer(log),
           NEW seq, NEW pending, Follows(log, seq, pending)
    PROVE  \/ Rebuilt(log).seq > seq
           \/ Rebuilt(log).seq = seq /\ Rebuilt(log).pending \subseteq pending
<1>1. PICK known : known = Rebuilt(log) /\ KnownAt(log, Last, known)
  BY RebuiltKnows
<1>2. 1 .. Last = Slots /\ Slots \subseteq Nat
  BY DEF Last, Slots
<1>3. CASE seq = 0 /\ pending = {}
  <2>1. CASE known = Nothing
    BY <1>1, <1>3, <2>1 DEF Nothing
  <2>2. ASSUME NEW n \in Slots, KnownFrom(log, Last, n, known)
        PROVE  known.seq > seq
    <3>1. known.seq = n + Len(log[n].calls) /\ n \in Nat /\ n # 0 /\ Len(log[n].calls) \in Nat
      BY <2>2, DemandedSlots DEF KnownFrom, LastTurn, Slots
    <3> QED BY <1>3, <3>1
  <2> QED BY <1>1, <1>2, <2>1, <2>2 DEF KnownAt
<1>4. ASSUME NEW m \in Slots, FollowsTurn(log, seq, pending, m)
      PROVE  \/ known.seq > seq
             \/ known.seq = seq /\ known.pending \subseteq pending
  <2>1. log[m].kind = "model" /\ log[m] # NoStep
    BY <1>4 DEF FollowsTurn, Demands, NoStep
  <2>2. PICK n \in Slots : KnownFrom(log, Last, n, known)
    BY <1>1, <1>2, <2>1 DEF KnownAt
  <2>3. /\ log[n].kind = "model" /\ \A q \in n + 1 .. Last : log[q].kind # "model"
        /\ known.seq = n + Len(log[n].calls)
        /\ known.pending = {p \in Numbered(n, log[n].calls) : p.seq > Last \/ log[p.seq] = NoStep}
    BY <2>2 DEF KnownFrom, LastTurn
  <2>4. /\ m \in Nat /\ n \in Nat /\ Last \in Nat /\ m <= Last
        /\ Len(log[m].calls) \in Nat /\ Len(log[n].calls) \in Nat
        /\ \A p \in Numbered(m, log[m].calls) : p.seq \in Nat /\ p.seq <= Last
    BY <2>1, <2>3, DemandedSlots DEF Slots, Last
  <2>5. ~(n < m)
    BY <2>1, <2>3, <2>4
  <2>6. CASE n = m
    BY <1>4, <2>3, <2>4, <2>6 DEF FollowsTurn
  <2>7. CASE m < n
    <3>1. n > m + Len(log[m].calls)
      BY <2>1, <2>3, <2>7, NextTurn
    <3>2. seq = m + Len(log[m].calls)
      BY <1>4 DEF FollowsTurn
    <3> QED BY <2>3, <2>4, <3>1, <3>2
  <2> QED BY <2>4, <2>5, <2>6, <2>7
<1> QED BY <1>1, <1>3, <1>4 DEF Follows

-----------------------------------------------------------------------------
(* What a worker that follows a log may record.                            *)

\* The slot of every call of a turn, and the call there.
LEMMA CallAt ==
    ASSUME NEW log, LogOK(log), NEW m \in Slots, Demands(log, m),
           NEW q \in Slots, m < q, q <= m + Len(log[m].calls)
    PROVE  \E p \in Numbered(m, log[m].calls) : p.seq = q
<1>1. m \in Nat /\ q \in Nat /\ Len(log[m].calls) \in Nat
  BY DemandedSlots DEF Slots, Demands
<1> DEFINE i == q - m
<1>2. i \in 1 .. Len(log[m].calls) /\ m + i = q
  BY <1>1
<1>3. [seq |-> m + i, call |-> log[m].calls[i]] \in Numbered(m, log[m].calls)
  BY <1>2 DEF Numbered
<1> QED BY <1>2, <1>3

\* Whatever is at the slots of a turn's calls answers them.
LEMMA OnlyAnswers ==
    ASSUME NEW log, LogOK(log), NEW m \in Slots, Demands(log, m),
           NEW q \in Slots, m < q, q <= m + Len(log[m].calls), log[q] # NoStep
    PROVE  log[q].kind = "tool"
<1>1. m \in Nat /\ q \in Nat /\ Len(log[m].calls) \in Nat
  BY DemandedSlots DEF Slots, Demands
<1>2. log[q].kind # "model"
  BY <1>1, NextTurn DEF Demands
<1> QED BY <1>2, StepKinds DEF LogOK

\* The step that answers p.
Answer(p) == [kind |-> "tool", calls |-> <<p.call>>]

LEMMA AnswerFits ==
    ASSUME NEW log, LogOK(log), NEW seq, NEW pending, Follows(log, seq, pending), pending # {},
           NEW p, p = First(pending), log[p.seq] = NoStep
    PROVE  Fits(log, p.seq, Answer(p))
<1>1. PICK m \in Slots : FollowsTurn(log, seq, pending, m)
  BY DEF Follows
<1>2. log[m].kind = "model" /\ Demands(log, m)
  BY <1>1 DEF FollowsTurn, Demands
<1>3. p \in pending /\ \A q \in pending : p.seq <= q.seq
  BY FollowsTyped, FirstIsLeast
<1>4. /\ p \in Pending /\ p \in Numbered(m, log[m].calls)
      /\ p.seq \in Slots /\ m < p.seq /\ p.seq <= m + Len(log[m].calls)
      /\ p.call = log[m].calls[p.seq - m]
  BY <1>1, <1>2, <1>3, DemandedSlots, FollowsTyped DEF FollowsTurn
<1>5. m \in Nat /\ p.seq \in Nat /\ Len(log[m].calls) \in 0 .. MaxCalls /\ m >= 1
  BY <1>2, <1>4, DemandedSlots DEF Slots
<1>6. \A q \in m + 1 .. p.seq - 1 : log[q].kind = "tool"
  <2> TAKE q \in m + 1 .. p.seq - 1
  <2>1. q \in Slots /\ q \in Nat /\ m < q /\ q < p.seq /\ q <= m + Len(log[m].calls)
    BY <1>4, <1>5 DEF Slots
  <2>2. PICK o \in Numbered(m, log[m].calls) : o.seq = q
    BY <1>2, <2>1, CallAt
  <2>3. o \notin pending
    BY <1>3, <1>5, <2>1, <2>2
  <2>4. log[q] # NoStep
    BY <1>1, <2>2, <2>3 DEF FollowsTurn
  <2> QED BY <1>2, <2>1, <2>4, OnlyAnswers
<1>7. p.seq - 1 \in m .. p.seq - 1 /\ log[p.seq - 1] # NoStep
  <2>1. CASE p.seq - 1 = m
    BY <1>2, <1>5, <2>1 DEF NoStep
  <2>2. CASE p.seq - 1 # m
    BY <1>4, <1>5, <1>6, <2>2 DEF NoStep
  <2> QED BY <1>4, <1>5, <2>1, <2>2
<1>8. Answer(p) \in Step /\ Answer(p).kind = "tool" /\ Answer(p).calls = <<p.call>>
  <2>1. p.call \in Calls
    BY <1>4 DEF Pending
  <2>2. <<p.call>> \in [1 .. 1 -> Calls]
    BY <2>1
  <2>3. <<p.call>> \in Turns
    BY <2>2 DEF Turns
  <2> QED BY <2>3 DEF Answer, Step
<1>9. m \in 1 .. p.seq - 1 /\ p.seq - m <= Len(log[m].calls)
  BY <1>4, <1>5
<1>10. AnswersOnly(log, m + 1, p.seq - 1)
  BY <1>6 DEF AnswersOnly
<1>11. <<p.call>> = <<log[m].calls[p.seq - m]>>
  BY <1>4
<1> QED BY <1>2, <1>4, <1>7, <1>8, <1>9, <1>10, <1>11 DEF Fits

LEMMA TurnFits ==
    ASSUME NEW log, LogOK(log), NEW seq, Follows(log, seq, {}), seq < MaxSteps,
           NEW turn \in Turns, log[seq + 1] = NoStep
    PROVE  Fits(log, seq + 1, [kind |-> "model", calls |-> turn])
<1> DEFINE step == [kind |-> "model", calls |-> turn]
           s == seq + 1
<1>1. seq \in Nat /\ s \in Slots /\ s <= MaxSteps
  <2>1. seq \in {0} \cup Slots
    BY FollowsTyped
  <2> QED BY <2>1 DEF Slots
<1>2. step \in Step /\ step.kind = "model"
  BY DEF Step
<1> HIDE DEF step
<1>3. ASSUME seq = 0
      PROVE  Fits(log, s, step)
  <2>1. s = 1 /\ ~(s > 1)
    BY <1>3
  <2>2. step.kind # "tool" /\ log[s] = NoStep
    BY <1>2
  <2> HIDE DEF s
  <2> QED BY <1>1, <1>2, <2>1, <2>2 DEF Fits
<1>4. ASSUME NEW m \in Slots, FollowsTurn(log, seq, {}, m)
      PROVE  Fits(log, s, step)
  <2>1. /\ Demands(log, m) /\ seq = m + Len(log[m].calls)
        /\ \A p \in Numbered(m, log[m].calls) : log[p.seq] # NoStep
    BY <1>4 DEF FollowsTurn
  <2>2. m \in Nat /\ m >= 1 /\ Len(log[m].calls) \in Nat /\ Len(log[m].calls) # 0
    BY <2>1, DemandedSlots DEF Slots, Demands
  <2>3. \A q \in m + 1 .. seq : q \in Slots /\ log[q] # NoStep /\ log[q].kind = "tool"
    <3> TAKE q \in m + 1 .. seq
    <3>1. q \in Slots /\ m < q /\ q <= m + Len(log[m].calls)
      BY <1>1, <2>1, <2>2 DEF Slots
    <3>2. log[q] # NoStep
      BY <2>1, <3>1, CallAt
    <3> QED BY <2>1, <3>1, <3>2, OnlyAnswers
  <2>4. log[s - 1] # NoStep
    BY <1>1, <2>1, <2>2, <2>3
  <2>5. m \in 1 .. s - 1 /\ s = m + Len(log[m].calls) + 1
    BY <1>1, <2>1, <2>2
  <2>6. AnswersOnly(log, m + 1, s - 1)
    BY <1>1, <2>3 DEF AnswersOnly
  <2> QED BY <1>1, <1>2, <2>1, <2>4, <2>5, <2>6 DEF Fits
<1> QED BY <1>3, <1>4 DEF Follows, step

\* After the answer to p the others of its turn are pending.
LEMMA AnswerRecorded ==
    ASSUME NEW log, LogOK(log), NEW seq, NEW pending, Follows(log, seq, pending), pending # {},
           NEW p, p = First(pending), log[p.seq] = NoStep,
           NEW after, Writes(log, p.seq, Answer(p), after)
    PROVE  LogOK(after) /\ Longer(log, after) /\ Follows(after, seq, pending \ {p})
<1>1. LogOK(after) /\ Longer(log, after) /\ after[p.seq] = Answer(p)
  BY AnswerFits, Recorded
<1>2. PICK m \in Slots : FollowsTurn(log, seq, pending, m)
  BY DEF Follows
<1>3. after[m] = log[m] /\ Demands(after, m)
  BY <1>1, <1>2, DemandStays DEF FollowsTurn
<1>4. after[p.seq] # NoStep
  BY <1>1 DEF Answer, NoStep
<1>5. \A o \in Numbered(m, log[m].calls) : o.seq \in Slots
  BY <1>2, DemandedSlots DEF FollowsTurn, Demands
<1>6. FollowsTurn(after, seq, pending \ {p}, m)
  BY <1>1, <1>2, <1>3, <1>4, <1>5 DEF FollowsTurn, Longer
<1> QED BY <1>1, <1>6 DEF Follows

\* After a turn its calls are pending, or the answer is there.
LEMMA TurnRecorded ==
    ASSUME NEW log, LogOK(log), NEW seq, Follows(log, seq, {}), seq < MaxSteps,
           NEW turn \in Turns, log[seq + 1] = NoStep,
           NEW after, Writes(log, seq + 1, [kind |-> "model", calls |-> turn], after)
    PROVE  /\ LogOK(after) /\ Longer(log, after)
           /\ seq + 1 + Len(turn) \in Slots /\ Numbered(seq + 1, turn) \in SUBSET Pending
           /\ IF turn = <<>> THEN HasAnswer(after)
              ELSE Follows(after, seq + 1 + Len(turn), Numbered(seq + 1, turn))
<1> DEFINE s == seq + 1
<1>1. /\ LogOK(after) /\ Longer(log, after)
      /\ after[s] = [kind |-> "model", calls |-> turn] /\ s \in Slots
  <2>1. PICK step : step = [kind |-> "model", calls |-> turn]
    OBVIOUS
  <2>2. Fits(log, s, step) /\ Writes(log, s, step, after)
    BY <2>1, TurnFits
  <2>3. s \in Slots
    BY <2>2 DEF Fits
  <2> HIDE DEF s
  <2> QED BY <2>1, <2>2, <2>3, Recorded
<1>2. after[s].kind = "model" /\ after[s].calls = turn
  BY <1>1
<1> HIDE DEF s
<1>3. s + Len(turn) \in Slots /\ Numbered(s, turn) \in SUBSET Pending
  BY <1>1, <1>2, DemandedSlots
<1>4. CASE turn = <<>>
  BY <1>1, <1>2, <1>3, <1>4 DEF HasAnswer, s
<1>5. CASE turn # <<>>
  <2>1. FollowsTurn(after, s + Len(turn), Numbered(s, turn), s)
    BY <1>2, <1>5 DEF FollowsTurn, Demands
  <2> QED BY <1>1, <1>3, <1>5, <2>1 DEF Follows, s
<1> QED BY <1>4, <1>5
=============================================================================
