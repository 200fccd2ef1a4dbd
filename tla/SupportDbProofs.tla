--------------------------- MODULE SupportDbProofs ---------------------------
(***************************************************************************)
(* Theorems about the tools' tables, for any sets of workers, accounts,    *)
(* types and keys, and any cap.                                            *)
(*                                                                         *)
(* Everything rests on tables that only grow (Grows): a snapshot is an     *)
(* older version of the committed tables, and what was true of a ticket, a *)
(* message or a stored key when a result was made is true when it is       *)
(* replayed.                                                               *)
(***************************************************************************)
EXTENDS SupportDb, TLAPS, FiniteSetTheorems

USE CallsAssumption, SizesAssumption, WorkersAssumption, ResultsAssumption

-----------------------------------------------------------------------------
(* The least and the greatest of a set of ids.                             *)

LEMMA LeastOf ==
    ASSUME NEW S \in SUBSET Nat, S # {}
    PROVE  \E x \in S : \A y \in S : x <= y
<1> DEFINE R == {ss \in Nat \X Nat : ss[1] < ss[2]}
<1>1. IsWellFoundedOn(R, Nat)
  BY NatLessThanWellFounded, Zenon DEF OpToRel
<1>2. \A x, y \in Nat : x < y => <<x, y>> \in R
  OBVIOUS
<1> HIDE DEF R
<1>3. PICK x \in S : \A y \in S : ~ (<<y, x>> \in R)
  BY <1>1, WFMin
<1>4. \A y \in S : ~ (y < x)
  BY <1>2, <1>3, Zenon
<1> QED BY <1>4

LEMMA MinIsIn ==
    ASSUME NEW S \in SUBSET Nat, S # {}
    PROVE  Min(S) \in S /\ \A y \in S : Min(S) <= y
BY LeastOf DEF Min

LEMMA MaxIsIn ==
    ASSUME NEW n \in Nat, NEW S \in SUBSET (1 .. n), S # {}
    PROVE  Max(S) \in S /\ \A y \in S : y <= Max(S)
<1> DEFINE D == {d \in Nat : d <= n /\ n - d \in S}
<1>1. D \in SUBSET Nat /\ \A y \in S : n - y \in D
  <2>1. ASSUME NEW y \in S PROVE n - y \in D
    <3>1. y \in 1 .. n
      OBVIOUS
    <3>2. n - y \in Nat /\ n - y <= n /\ n - (n - y) = y
      BY <3>1
    <3> QED BY <3>2
  <2> QED BY <2>1
<1>2. PICK d \in D : \A e \in D : d <= e
  <2>1. D # {}
    BY <1>1
  <2> HIDE DEF D
  <2> QED BY <1>1, <2>1, LeastOf
<1>3. ASSUME NEW y \in S PROVE y <= n - d
  <2>1. d <= n - y /\ d \in Nat /\ y \in 1 .. n
    BY <1>1, <1>2
  <2> QED BY <2>1
<1>4. n - d \in S
  BY <1>2
<1> QED BY <1>3, <1>4 DEF Max

-----------------------------------------------------------------------------
(* The invariant.                                                          *)

\* newer holds all that older did: no ticket changes its account or its type,
\* and no other row is taken back.
Grows(older, newer) ==
    /\ Len(older.ticket) <= Len(newer.ticket)
    /\ \A i \in 1 .. Len(older.ticket) : /\ newer.ticket[i].account = older.ticket[i].account
                                         /\ newer.ticket[i].type = older.ticket[i].type
    /\ older.assignment \subseteq newer.assignment
    /\ older.escalation \subseteq newer.escalation
    /\ older.outbox \subseteq newer.outbox
    /\ \A k \in Keys : older.idempotency[k] # NULL => newer.idempotency[k] = older.idempotency[k]

\* A call that is answered without an effect, whatever the tables.
Barred(k) == CallOf[k].op = "refused" \/ (CallOf[k].op = "create" /\ CallOf[k].arg = NULL)

TablesInv == /\ Len(db.ticket) <= MaxTickets
             /\ db.assignment \cup db.escalation \subseteq 1 .. Len(db.ticket)
             /\ \A k \in Keys : Barred(k) => effects[k] = 0

ViewsInv == \A w \in Workers : view[w] # NULL => Grows(view[w], db)

\* The account of k has a ticket of the type that k asks for.
Made(k) == \E i \in TicketsOf(db, AccountOf[k]) : db.ticket[i].type = CallOf[k].arg

Sound(k, result) == IsTrue(k, result) /\ (result.status = "invalid" => Barred(k))

\* What is known of a call c on a connection with the snapshot v.
CallFine(c, v) ==
    /\ c.phase # "idle" => c.key \in Keys
    /\ c.phase = "effect" => ~Barred(c.key)
    /\ c.phase = "find" =>
          /\ v = NULL
          /\ CallOf[c.key].op = "create" /\ CallOf[c.key].arg \in Types
          /\ c.result \in Results /\ c.result.status \in {"created", "already_open"}
          /\ c.result.status = "created" => effects[c.key] > 0
          /\ Made(c.key)
    /\ c.phase = "key" => c.result \in Results /\ Sound(c.key, c.result)

CallsInv == \A w \in Workers : CallFine(call[w], view[w])

StoredInv == \A k \in Keys : db.idempotency[k] # NULL => Sound(k, db.idempotency[k])

Inv == SupportTypeOK /\ TablesInv /\ ViewsInv /\ CallsInv /\ StoredInv

-----------------------------------------------------------------------------
(* Growth.                                                                 *)

LEMMA GrowsRefl ==
    ASSUME NEW t \in Tables
    PROVE  Grows(t, t)
BY DEF Grows, Tables

LEMMA GrowsTrans ==
    ASSUME NEW r \in Tables, NEW s \in Tables, NEW t \in Tables, Grows(r, s), Grows(s, t)
    PROVE  Grows(r, t)
BY DEF Grows, Tables

LEMMA TicketsStay ==
    ASSUME NEW s \in Tables, NEW t \in Tables, Grows(s, t), NEW a
    PROVE  /\ TicketsOf(s, a) \subseteq TicketsOf(t, a)
           /\ \A i \in TicketsOf(s, a) : t.ticket[i].type = s.ticket[i].type
           /\ DOMAIN s.ticket \subseteq DOMAIN t.ticket
<1>1. s.ticket \in Seq(Ticket) /\ t.ticket \in Seq(Ticket)
  BY DEF Tables
<1>2. DOMAIN s.ticket = 1 .. Len(s.ticket) /\ DOMAIN t.ticket = 1 .. Len(t.ticket)
  BY <1>1
<1>3. Len(s.ticket) \in Nat /\ Len(t.ticket) \in Nat
  BY <1>1
<1> QED BY <1>2, <1>3 DEF TicketsOf, Grows

\* A cap that is reached stays reached: no ticket goes.
LEMMA CapStays ==
    ASSUME NEW s \in Tables, NEW t \in Tables, Grows(s, t), NEW a, AtCap(s, a)
    PROVE  Cardinality(TicketsOf(t, a)) >= Cap
<1>1. t.ticket \in Seq(Ticket) /\ Len(t.ticket) \in Nat /\ DOMAIN t.ticket = 1 .. Len(t.ticket)
  BY DEF Tables
<1>2. TicketsOf(t, a) \subseteq 1 .. Len(t.ticket)
  BY <1>1 DEF TicketsOf
<1>3. IsFiniteSet(TicketsOf(t, a))
  <2>1. IsFiniteSet(1 .. Len(t.ticket))
    BY <1>1, FS_Interval
  <2> QED BY <1>2, <2>1, FS_Subset
<1>4. /\ Cardinality(TicketsOf(s, a)) <= Cardinality(TicketsOf(t, a))
      /\ Cardinality(TicketsOf(s, a)) \in Nat /\ Cardinality(TicketsOf(t, a)) \in Nat
  BY <1>3, TicketsStay, FS_Subset, FS_CardinalityType
<1> QED BY <1>4 DEF AtCap

\* What was true stays true.
LEMMA SoundStays ==
    ASSUME db \in Tables, db' \in Tables, Grows(db, db'),
           effects \in [Keys -> Nat], effects' \in [Keys -> Nat],
           \A k \in Keys : effects'[k] >= effects[k] /\ (Barred(k) => effects'[k] = 0),
           NEW k \in Keys, NEW result \in Results, Sound(k, result)
    PROVE  Sound(k, result)'
<1> DEFINE a == AccountOf[k]
           arg == CallOf[k].arg
<1>1. /\ TicketsOf(db, a) \subseteq TicketsOf(db', a)
      /\ \A i \in TicketsOf(db, a) : db'.ticket[i].type = db.ticket[i].type
      /\ DOMAIN db.ticket \subseteq DOMAIN db'.ticket
  BY TicketsStay
<1>2. /\ db.assignment \subseteq db'.assignment
      /\ db.escalation \subseteq db'.escalation
      /\ db.outbox \subseteq db'.outbox
  BY DEF Grows
<1>3. effects'[k] >= effects[k] /\ (Barred(k) => effects'[k] = 0)
  OBVIOUS
<1>4. (result.status = "invalid" => Barred(k)) /\ IsTrue(k, result)
  BY DEF Sound
<1>5. effects[k] \in Nat /\ effects'[k] \in Nat
  OBVIOUS
<1>6. IsTrue(k, result)'
  <2>1. CASE result.status = "created"
    <3>1. /\ effects[k] > 0 /\ result.id \in TicketsOf(db, a)
          /\ \E i \in TicketsOf(db, a) : i <= result.id /\ db.ticket[i].type = arg
      BY <1>4, <2>1 DEF IsTrue
    <3> QED BY <1>1, <1>3, <1>5, <2>1, <3>1 DEF IsTrue
  <2>2. CASE result.status = "already_open"
    BY <1>1, <1>4, <2>2 DEF IsTrue
  <2>3. CASE result.status \in {"done", "repeated"}
    BY <1>1, <1>2, <1>3, <1>4, <1>5, <2>3 DEF IsTrue
  <2>4. CASE result.status = "invalid"
    BY <1>3, <1>4, <2>4 DEF IsTrue
  <2>5. CASE result.status \in {"not_allowed", "too_many"}
    <3>1. AtCap(db, a)
      BY <1>4, <2>5 DEF IsTrue, AtCap
    <3>2. Cardinality(TicketsOf(db', a)) >= Cap
      BY <3>1, CapStays
    <3> QED BY <2>5, <3>2 DEF IsTrue
  <2> QED BY <2>1, <2>2, <2>3, <2>4, <2>5 DEF Results
<1> QED BY <1>4, <1>6 DEF Sound, Barred

LEMMA CallFineStays ==
    ASSUME db \in Tables, db' \in Tables, Grows(db, db'),
           effects \in [Keys -> Nat], effects' \in [Keys -> Nat],
           \A k \in Keys : effects'[k] >= effects[k] /\ (Barred(k) => effects'[k] = 0),
           NEW c, NEW v, CallFine(c, v)
    PROVE  CallFine(c, v)'
<1>1. CASE c.phase = "key"
  BY <1>1, SoundStays DEF CallFine, Barred
<1>2. CASE c.phase = "find"
  <2>1. c.key \in Keys /\ Made(c.key)
    BY <1>2 DEF CallFine
  <2>2. Made(c.key)'
    BY <2>1, TicketsStay DEF Made
  <2>3. c.result.status = "created" => effects'[c.key] > 0
    BY <1>2, <2>1 DEF CallFine
  <2> QED BY <1>2, <2>2, <2>3 DEF CallFine
<1>3. CASE c.phase \notin {"find", "key"}
  BY <1>3 DEF CallFine, Barred
<1> QED BY <1>1, <1>2, <1>3

-----------------------------------------------------------------------------
(* Steps that leave the tables alone, and steps that write to them.        *)

\* What a connection may read next: a new snapshot, its own, or none.
LEMMA SnapshotGrows ==
    ASSUME Inv, NEW w \in Workers
    PROVE  Snapshot(w) \in Tables /\ Grows(Snapshot(w), db)
BY GrowsRefl DEF Inv, SupportTypeOK, ViewsInv, Snapshot

LEMMA QuietStep ==
    ASSUME Inv, NEW w \in Workers, NEW c \in CallState, NEW x, x \in {NULL, Snapshot(w)},
           CallFine(c, x), UNCHANGED <<db, effects, day>>,
           call' = [call EXCEPT ![w] = c], view' = [view EXCEPT ![w] = x]
    PROVE  Inv'
<1>1. db \in Tables /\ db' = db /\ Grows(db, db') /\ effects \in [Keys -> Nat] /\ effects' = effects
  BY GrowsRefl DEF Inv, SupportTypeOK
<1>2. \A k \in Keys : effects'[k] >= effects[k] /\ (Barred(k) => effects'[k] = 0)
  BY <1>1 DEF Inv, TablesInv
<1>3. x = NULL \/ (x \in Tables /\ Grows(x, db'))
  BY <1>1, SnapshotGrows
<1>4. SupportTypeOK'
  BY <1>1, <1>3 DEF Inv, SupportTypeOK
<1>5. TablesInv'
  BY <1>1 DEF Inv, TablesInv, Barred
<1>6. ViewsInv'
  BY <1>1, <1>3 DEF Inv, ViewsInv, SupportTypeOK
<1>7. CallsInv'
  <2> SUFFICES ASSUME NEW v \in Workers PROVE CallFine(call[v], view[v])'
    BY DEF CallsInv
  <2>1. CASE v = w
    BY <1>1, <1>2, <2>1, CallFineStays DEF Inv, SupportTypeOK
  <2>2. CASE v # w
    <3>1. CallFine(call[v], view[v]) /\ call'[v] = call[v] /\ view'[v] = view[v]
      BY <2>2 DEF Inv, CallsInv, SupportTypeOK
    <3> QED BY <1>1, <1>2, <3>1, CallFineStays
  <2> QED BY <2>1, <2>2
<1>8. StoredInv'
  <2> SUFFICES ASSUME NEW k \in Keys, db'.idempotency[k] # NULL
               PROVE  Sound(k, db.idempotency[k])'
    BY DEF StoredInv
  <2>1. db.idempotency[k] \in Results /\ Sound(k, db.idempotency[k])
    BY <1>1 DEF Inv, StoredInv, Tables
  <2> QED BY <1>1, <1>2, <2>1, SoundStays
<1> QED BY <1>4, <1>5, <1>6, <1>7, <1>8 DEF Inv

LEMMA WriteStep ==
    ASSUME Inv, NEW w \in Workers, NEW c \in CallState, NEW tables \in Tables,
           db' = tables, Grows(db, tables), Len(tables.ticket) <= MaxTickets,
           tables.assignment \cup tables.escalation \subseteq 1 .. Len(tables.ticket),
           effects' \in [Keys -> Nat],
           \A k \in Keys : effects'[k] >= effects[k] /\ (Barred(k) => effects'[k] = 0),
           \A k \in Keys : tables.idempotency[k] # NULL =>
              db.idempotency[k] # NULL \/ Sound(k, tables.idempotency[k])',
           CallFine(c, NULL)', UNCHANGED day,
           call' = [call EXCEPT ![w] = c], view' = [view EXCEPT ![w] = NULL]
    PROVE  Inv'
<1>1. db \in Tables /\ db' \in Tables /\ Grows(db, db') /\ effects \in [Keys -> Nat]
  BY DEF Inv, SupportTypeOK
<1>2. SupportTypeOK'
  BY <1>1 DEF Inv, SupportTypeOK
<1>3. TablesInv'
  BY DEF TablesInv, Barred
<1>4. ViewsInv'
  <2> SUFFICES ASSUME NEW v \in Workers, view'[v] # NULL PROVE Grows(view'[v], db')
    BY DEF ViewsInv
  <2>1. v # w /\ view'[v] = view[v] /\ view[v] \in Tables /\ Grows(view[v], db)
    BY DEF Inv, ViewsInv, SupportTypeOK
  <2> QED BY <1>1, <2>1, GrowsTrans
<1>5. CallsInv'
  <2> SUFFICES ASSUME NEW v \in Workers PROVE CallFine(call[v], view[v])'
    BY DEF CallsInv
  <2>1. CASE v = w
    BY <2>1 DEF Inv, SupportTypeOK
  <2>2. CASE v # w
    <3>1. CallFine(call[v], view[v]) /\ call'[v] = call[v] /\ view'[v] = view[v]
      BY <2>2 DEF Inv, CallsInv, SupportTypeOK
    <3> QED BY <1>1, <3>1, CallFineStays
  <2> QED BY <2>1, <2>2
<1>6. StoredInv'
  <2> SUFFICES ASSUME NEW k \in Keys, db'.idempotency[k] # NULL
               PROVE  Sound(k, db.idempotency[k])'
    BY DEF StoredInv
  <2>1. CASE db.idempotency[k] # NULL
    <3>1. db.idempotency[k] \in Results /\ Sound(k, db.idempotency[k])
      BY <1>1, <2>1 DEF Inv, StoredInv, Tables
    <3>2. db'.idempotency[k] = db.idempotency[k]
      BY <2>1 DEF Grows
    <3> QED BY <1>1, <3>1, <3>2, SoundStays
  <2>2. CASE db.idempotency[k] = NULL
    BY <2>2
  <2> QED BY <2>1, <2>2
<1> QED BY <1>2, <1>3, <1>4, <1>5, <1>6 DEF Inv

\* The effect's commit.
LEMMA CommittedStep ==
    ASSUME Inv, NEW w \in Workers, call[w].phase = "effect", NEW key, key = call[w].key,
           NEW tables \in Tables, Grows(db, tables), Len(tables.ticket) <= MaxTickets,
           tables.assignment \cup tables.escalation \subseteq 1 .. Len(tables.ticket),
           tables.idempotency = db.idempotency,
           NEW phase \in {"find", "key"}, NEW result \in Results,
           Committed(w, tables, phase, result),
           \A c : c.phase = phase /\ c.key = key /\ c.result = result => CallFine(c, NULL)'
    PROVE  Inv'
<1>1. call[w] \in CallState /\ key \in Keys /\ ~Barred(key)
  BY DEF Inv, SupportTypeOK, CallsInv, CallFine
<1>2. PICK c \in CallState : /\ c.phase = phase /\ c.key = key /\ c.result = result
                             /\ call' = [call EXCEPT ![w] = c]
  <2> DEFINE x == [call[w] EXCEPT !.phase = phase, !.result = result]
  <2>1. x \in CallState /\ x.phase = phase /\ x.key = key /\ x.result = result
    BY <1>1 DEF CallState
  <2>2. call' = [call EXCEPT ![w] = x]
    BY Zenon DEF Committed
  <2> HIDE DEF x
  <2> QED BY <2>1, <2>2
<1>3. db' = tables /\ view' = [view EXCEPT ![w] = NULL] /\ UNCHANGED day
  BY DEF Committed, CloseView
<1>4. PICK d \in Nat : effects' = [effects EXCEPT ![key] = @ + d]
  BY DEF Committed
<1>5. /\ effects' \in [Keys -> Nat]
      /\ \A k \in Keys : effects'[k] >= effects[k] /\ (Barred(k) => effects'[k] = 0)
  BY <1>1, <1>4 DEF Inv, SupportTypeOK, TablesInv
<1>6. CallFine(c, NULL)'
  BY <1>2
<1>7. \A k \in Keys : tables.idempotency[k] # NULL =>
         db.idempotency[k] # NULL \/ Sound(k, tables.idempotency[k])'
  OBVIOUS
<1> QED BY <1>2, <1>3, <1>5, <1>6, <1>7, WriteStep

-----------------------------------------------------------------------------
(* The actions.                                                            *)

LEMMA FailedStep ==
    ASSUME Inv, NEW w \in Workers, ToolFailed(w)
    PROVE  Inv'
<1>1. NoCall \in CallState /\ NoCall.phase = "idle"
  BY DEF NoCall, CallState
<1>2. CallFine(NoCall, NULL)
  BY <1>1 DEF CallFine
<1> QED BY <1>1, <1>2, QuietStep DEF ToolFailed, CloseView

\* Between two calls: the triage tools, and a key that is found.
LEMMA IdleStep ==
    ASSUME Inv, NEW w \in Workers, Browse(w) \/ \E k \in Keys : OnceReplay(w, k)
    PROVE  Inv'
<1> DEFINE c == call[w]
<1>1. c \in CallState /\ call' = [call EXCEPT ![w] = c] /\ c.phase = "idle"
  BY DEF Inv, SupportTypeOK, Browse, OnceReplay
<1>2. PICK x \in {NULL, Snapshot(w)} : view' = [view EXCEPT ![w] = x]
  BY DEF Browse, OnceReplay, OpenView, CloseView
<1>3. UNCHANGED <<db, effects, day>>
  BY DEF Browse, OnceReplay
<1> HIDE DEF c
<1>4. CallFine(c, x)
  BY <1>1 DEF CallFine
<1> QED BY <1>1, <1>2, <1>3, <1>4, QuietStep

LEMMA RefusalIsSound ==
    ASSUME Inv, NEW tables \in Tables, Grows(tables, db), NEW k \in Keys
    PROVE  \/ Refusal(tables, k) = NULL /\ ~Barred(k)
           \/ Refusal(tables, k) \in Results \ {NULL} /\ Sound(k, Refusal(tables, k))
<1>1. /\ Result("not_allowed", 0) \in Results
      /\ Result("invalid", 0) \in Results
  BY DEF Result, Results
<1>2. /\ Result("not_allowed", 0).status = "not_allowed"
      /\ Result("invalid", 0).status = "invalid"
  BY DEF Result
<1>3. AtCap(tables, AccountOf[k]) => Sound(k, Result("not_allowed", 0))
  <2>1. AtCap(tables, AccountOf[k]) => Cardinality(TicketsOf(db, AccountOf[k])) >= Cap
    BY CapStays DEF Inv, SupportTypeOK
  <2> QED BY <1>2, <2>1 DEF Sound, IsTrue
<1>4. Barred(k) => Sound(k, Result("invalid", 0))
  BY <1>2 DEF Sound, IsTrue, Inv, TablesInv
<1>5. CASE Refusal(tables, k) = Result("not_allowed", 0) /\ AtCap(tables, AccountOf[k])
  BY <1>1, <1>3, <1>5
<1>6. CASE Refusal(tables, k) = Result("invalid", 0) /\ Barred(k)
  BY <1>1, <1>4, <1>6
<1>7. CASE Refusal(tables, k) = NULL /\ ~Barred(k)
  BY <1>7
<1> QED BY <1>5, <1>6, <1>7 DEF Refusal, Barred

LEMMA BeginStep ==
    ASSUME Inv, NEW w \in Workers, NEW k \in Keys, OnceBegin(w, k)
    PROVE  Inv'
<1> DEFINE refusal == Refusal(Snapshot(w), k)
           c == Begin(k, IF refusal = NULL THEN "effect" ELSE "key", refusal)
<1>1. \/ refusal = NULL /\ ~Barred(k)
      \/ refusal \in Results \ {NULL} /\ Sound(k, refusal)
  BY SnapshotGrows, RefusalIsSound
<1>2. /\ call' = [call EXCEPT ![w] = c]
      /\ view' = [view EXCEPT ![w] = Snapshot(w)]
      /\ UNCHANGED <<db, effects, day>>
  BY DEF OnceBegin, OpenView
<1> HIDE DEF refusal
<1>3. /\ c \in CallState /\ c.key = k /\ c.result = refusal
      /\ c.phase = IF refusal = NULL THEN "effect" ELSE "key"
  BY <1>1 DEF Begin, CallState
<1> HIDE DEF c
<1>4. CallFine(c, Snapshot(w))
  BY <1>1, <1>3 DEF CallFine
<1> QED BY <1>2, <1>3, <1>4, QuietStep

\* In the middle of a call: its key, and its arguments.
LEMMA InCall ==
    ASSUME Inv, NEW w \in Workers, call[w].phase \in {"effect", "find", "key"}
    PROVE  /\ call[w] \in CallState /\ call[w].key \in Keys
           /\ Account(w) = AccountOf[call[w].key] /\ CallOf[call[w].key] \in Call
           /\ CallFine(call[w], view[w])
BY DEF Inv, SupportTypeOK, CallsInv, CallFine, Account

LEMMA FindStep ==
    ASSUME Inv, NEW w \in Workers, FindTicket(w)
    PROVE  Inv'
<1> DEFINE key == call[w].key
           mine == TicketsOf(Snapshot(w), Account(w))
           ofType == {i \in mine : Snapshot(w).ticket[i].type = Arg(w)}
           status == call[w].result.status
           id == IF status = "created" THEN Max(mine) ELSE Min(ofType)
           c == [call[w] EXCEPT !.phase = "key", !.result = Result(status, id)]
<1>1. /\ call[w] \in CallState /\ key \in Keys /\ CallFine(call[w], view[w])
      /\ call[w].phase = "find"
  BY InCall DEF FindTicket
<1>2. Snapshot(w) = db /\ mine = TicketsOf(db, AccountOf[key]) /\ Arg(w) = CallOf[key].arg
  BY <1>1 DEF CallFine, Snapshot, Account, Arg
<1>3. /\ status \in {"created", "already_open"} /\ CallOf[key].op = "create"
      /\ status = "created" => effects[key] > 0
      /\ ofType # {}
  BY <1>1, <1>2 DEF CallFine, Made
<1>4. mine \subseteq 1 .. Len(db.ticket) /\ Len(db.ticket) \in Nat /\ Len(db.ticket) <= MaxTickets
  BY <1>2 DEF TicketsOf, Inv, SupportTypeOK, Tables, TablesInv
<1>5. /\ Max(mine) \in mine /\ \A i \in mine : i <= Max(mine)
      /\ Min(ofType) \in ofType
  <2>1. mine # {} /\ ofType \in SUBSET Nat
    BY <1>3, <1>4
  <2> HIDE DEF mine, ofType
  <2> QED BY <1>3, <1>4, <2>1, MaxIsIn, MinIsIn
<1>6. id \in mine /\ id \in TicketIds /\ Result(status, id) \in Results
  BY <1>3, <1>4, <1>5 DEF TicketIds, Results, Result
<1>7. Result(status, id).status = status /\ Result(status, id).id = id
  BY DEF Result
<1>8. Sound(key, Result(status, id))
  <2>1. CASE status = "created"
    <3>1. PICK i \in ofType : TRUE
      BY <1>3
    <3>2. i \in TicketsOf(db, AccountOf[key]) /\ i <= id /\ db.ticket[i].type = CallOf[key].arg
      BY <1>2, <1>5, <2>1, <3>1
    <3> HIDE DEF mine, ofType, status, id, key
    <3> QED BY <1>2, <1>3, <1>6, <1>7, <2>1, <3>2 DEF Sound, IsTrue
  <2>2. CASE status = "already_open"
    <3>1. id \in TicketsOf(db, AccountOf[key]) /\ db.ticket[id].type = CallOf[key].arg
      BY <1>2, <1>5, <2>2
    <3> HIDE DEF mine, ofType, status, id, key
    <3> QED BY <1>7, <2>2, <3>1 DEF Sound, IsTrue
  <2> QED BY <1>3, <2>1, <2>2
<1>9. /\ call' = [call EXCEPT ![w] = c]
      /\ view' = [view EXCEPT ![w] = Snapshot(w)]
      /\ UNCHANGED <<db, effects, day>>
  BY Zenon DEF FindTicket, OpenView
<1>10. PICK result \in Results : result = Result(status, id)
  BY <1>6
<1>11. c \in CallState /\ c.phase = "key" /\ c.key = key /\ c.result = result
  <2> HIDE DEF id, status
  <2> QED BY <1>1, <1>10 DEF CallState
<1> HIDE DEF c
<1>12. CallFine(c, Snapshot(w))
  BY <1>1, <1>8, <1>10, <1>11 DEF CallFine
<1> QED BY <1>9, <1>11, <1>12, QuietStep

\* An effect that finds nothing to change, and one that does.
LEMMA KeptStep ==
    ASSUME Inv, NEW w \in Workers, call[w].phase = "effect", NEW key, key = call[w].key,
           NEW result \in Results, Committed(w, db, "key", result), Sound(key, result)
    PROVE  Inv'
<1>1. db \in Tables /\ Grows(db, db) /\ effects \in [Keys -> Nat] /\ key \in Keys
  BY InCall, GrowsRefl DEF Inv, SupportTypeOK
<1>2. db' = db /\ effects' = effects
  BY <1>1 DEF Committed
<1>3. Sound(key, result)'
  BY <1>1, <1>2, SoundStays DEF Inv, TablesInv
<1>4. \A c : c.phase = "key" /\ c.key = key /\ c.result = result => CallFine(c, NULL)'
  BY <1>1, <1>3 DEF CallFine
<1> QED BY <1>1, <1>4, CommittedStep DEF Inv, TablesInv

LEMMA ChangedStep ==
    ASSUME Inv, NEW w \in Workers, call[w].phase = "effect", NEW key, key = call[w].key,
           NEW tables \in Tables, tables # db, Grows(db, tables),
           Len(tables.ticket) <= MaxTickets,
           tables.assignment \cup tables.escalation \subseteq 1 .. Len(tables.ticket),
           tables.idempotency = db.idempotency,
           NEW phase \in {"find", "key"}, NEW result \in Results,
           Committed(w, tables, phase, result),
           db' = tables /\ effects'[key] > 0 =>
              \A c : c.phase = phase /\ c.key = key /\ c.result = result => CallFine(c, NULL)'
    PROVE  Inv'
<1>1. key \in Keys /\ effects \in [Keys -> Nat]
  BY InCall DEF Inv, SupportTypeOK
<1>2. db' = tables /\ effects'[key] > 0
  BY <1>1 DEF Committed
<1> QED BY <1>2, CommittedStep

LEMMA CreateStep ==
    ASSUME Inv, NEW w \in Workers, CreateTicket(w)
    PROVE  Inv'
<1> DEFINE a == Account(w)
           row == [account |-> a, type |-> Arg(w), status |-> "open"]
           tables == [db EXCEPT !.ticket = Append(@, row)]
<1>1. PICK key \in Keys : key = call[w].key
  BY InCall DEF CreateTicket
<1>2. call[w].phase = "effect" /\ ~Barred(key) /\ Op(w) = "create"
  BY <1>1, InCall DEF CreateTicket, CallFine
<1>3. /\ CallOf[key].op = "create" /\ CallOf[key].arg \in Types /\ Arg(w) = CallOf[key].arg
      /\ a = AccountOf[key] /\ a \in Accounts
  <2>1. CallOf[key] \in Call
    OBVIOUS
  <2> QED BY <1>1, <1>2, <2>1 DEF Op, Arg, Account, Barred, Call
<1>4. db \in Tables /\ db.ticket \in Seq(Ticket) /\ Grows(db, db)
  BY GrowsRefl DEF Inv, SupportTypeOK, Tables
<1>5. \A status \in {"already_open", "created", "too_many"} :
         Result(status, 0) \in Results /\ Result(status, 0).status = status
  BY DEF Result, Results
<1>6. CASE TypeIsOpen(w) /\ Committed(w, db, "find", Result("already_open", 0))
  <2>1. db' = db
    BY <1>6 DEF Committed
  <2>2. Made(key)'
    BY <1>3, <1>6, <2>1 DEF TypeIsOpen, OpenOfType, Made
  <2>3. PICK result \in Results : result = Result("already_open", 0)
    BY <1>5
  <2>4. \A c : c.phase = "find" /\ c.key = key /\ c.result = result => CallFine(c, NULL)'
    BY <1>3, <1>5, <2>2, <2>3 DEF CallFine
  <2> QED BY <1>1, <1>2, <1>4, <1>6, <2>3, <2>4, CommittedStep DEF Inv, TablesInv
<1>7. CASE AtCap(Snapshot(w), a) /\ Committed(w, db, "key", Result("too_many", 0))
  <2>1. PICK result \in Results : result = Result("too_many", 0) /\ result.status = "too_many"
    BY <1>5
  <2>2. Cardinality(TicketsOf(db, AccountOf[key])) >= Cap
    BY <1>3, <1>4, <1>7, SnapshotGrows, CapStays
  <2>3. Sound(key, result)
    BY <2>1, <2>2 DEF Sound, IsTrue
  <2> QED BY <1>1, <1>2, <1>7, <2>1, <2>3, KeptStep
<1>8. CASE Len(db.ticket) < MaxTickets /\ Committed(w, tables, "find", Result("created", 0))
  <2>1. row \in Ticket
    BY <1>3 DEF Ticket
  <2>2. /\ tables.ticket = Append(db.ticket, row)
        /\ tables.assignment = db.assignment /\ tables.escalation = db.escalation
        /\ tables.outbox = db.outbox /\ tables.idempotency = db.idempotency
    BY <1>4 DEF Tables
  <2>3. tables \in Tables
    <3>1. Append(db.ticket, row) \in Seq(Ticket)
      BY <1>4, <2>1
    <3> QED BY <1>4, <3>1 DEF Tables
  <2> HIDE DEF tables
  <2>4. /\ Len(tables.ticket) = Len(db.ticket) + 1 /\ Len(db.ticket) \in Nat
        /\ \A i \in 1 .. Len(db.ticket) : tables.ticket[i] = db.ticket[i]
        /\ tables.ticket[Len(db.ticket) + 1] = row
    BY <1>4, <2>1, <2>2
  <2>5. tables # db
    BY <2>4
  <2>6. Grows(db, tables)
    BY <2>2, <2>4 DEF Grows
  <2>7. Len(tables.ticket) <= MaxTickets
    BY <1>8, <2>4
  <2>8. tables.assignment \cup tables.escalation \subseteq 1 .. Len(tables.ticket)
    BY <2>2, <2>4 DEF Inv, TablesInv
  <2>9. PICK result \in Results : result = Result("created", 0) /\ result.status = "created"
    BY <1>5
  <2>10. ASSUME db' = tables, effects'[key] > 0, NEW c,
                c.phase = "find", c.key = key, c.result = result
         PROVE  CallFine(c, NULL)'
    <3> DEFINE i == Len(db.ticket) + 1
    <3>1. i \in DOMAIN tables.ticket /\ tables.ticket[i].account = AccountOf[key]
          /\ tables.ticket[i].type = CallOf[key].arg
      <4>1. DOMAIN tables.ticket = 1 .. Len(tables.ticket)
        BY <2>3 DEF Tables
      <4> QED BY <1>3, <2>4, <4>1
    <3>2. Made(key)'
      BY <2>10, <3>1 DEF Made, TicketsOf
    <3> QED BY <1>3, <2>9, <2>10, <3>2 DEF CallFine
  <2>11. Committed(w, tables, "find", result)
    BY <1>8, <2>9 DEF tables
  <2> QED BY <1>1, <1>2, <2>2, <2>3, <2>5, <2>6, <2>7, <2>8, <2>9, <2>10, <2>11, ChangedStep
<1> QED BY <1>6, <1>7, <1>8 DEF CreateTicket

LEMMA MovedTicket ==
    ASSUME NEW row \in Ticket, NEW status \in {"open", "assigned", "escalated"}, NEW moved,
           moved = [row EXCEPT !.status = status]
    PROVE  moved \in Ticket /\ moved.account = row.account /\ moved.type = row.type
BY DEF Ticket

LEMMA MovedTickets ==
    ASSUME NEW rows \in Seq(Ticket), NEW t \in 1 .. Len(rows), NEW moved \in Ticket,
           moved.account = rows[t].account, moved.type = rows[t].type
    PROVE  LET after == [rows EXCEPT ![t] = moved]
           IN  /\ after \in Seq(Ticket) /\ Len(after) = Len(rows)
               /\ \A i \in 1 .. Len(rows) : /\ after[i].account = rows[i].account
                                            /\ after[i].type = rows[i].type
OBVIOUS

\* Ticket t is moved, with a row that says why.
Moves(t, moved, tables) ==
    /\ t \in DOMAIN db.ticket
    /\ moved \in Ticket /\ moved.account = db.ticket[t].account /\ moved.type = db.ticket[t].type
    /\ tables = [db EXCEPT !.ticket = [@ EXCEPT ![t] = moved],
                           !.assignment = tables.assignment, !.escalation = tables.escalation]
    /\ db.assignment \subseteq tables.assignment /\ tables.assignment \subseteq db.assignment \cup {t}
    /\ db.escalation \subseteq tables.escalation /\ tables.escalation \subseteq db.escalation \cup {t}

LEMMA MovedTables ==
    ASSUME Inv, NEW t, NEW moved, NEW tables, Moves(t, moved, tables)
    PROVE  /\ tables \in Tables /\ Grows(db, tables)
           /\ tables.assignment \cup tables.escalation \subseteq 1 .. Len(tables.ticket)
           /\ Len(tables.ticket) <= MaxTickets /\ tables.idempotency = db.idempotency
<1>1. db \in Tables /\ db.ticket \in Seq(Ticket) /\ Len(db.ticket) \in Nat /\ t \in 1 .. Len(db.ticket)
  BY DEF Inv, SupportTypeOK, Tables, Moves
<1>2. /\ tables.ticket = [db.ticket EXCEPT ![t] = moved]
      /\ tables.outbox = db.outbox /\ tables.idempotency = db.idempotency
      /\ DOMAIN tables = DOMAIN db /\ tables = [x \in DOMAIN db |-> tables[x]]
  BY <1>1 DEF Moves, Tables
<1>3. /\ tables.ticket \in Seq(Ticket) /\ Len(tables.ticket) = Len(db.ticket)
      /\ \A i \in 1 .. Len(db.ticket) : /\ tables.ticket[i].account = db.ticket[i].account
                                        /\ tables.ticket[i].type = db.ticket[i].type
  <2>1. PICK rows \in Seq(Ticket) : rows = db.ticket
    BY <1>1
  <2>2. t \in 1 .. Len(rows) /\ moved.account = rows[t].account /\ moved.type = rows[t].type
    BY <1>1, <2>1 DEF Moves
  <2>3. tables.ticket = [rows EXCEPT ![t] = moved]
    BY <1>2, <2>1
  <2>4. PICK after : after = [rows EXCEPT ![t] = moved]
    OBVIOUS
  <2>5. /\ after \in Seq(Ticket) /\ Len(after) = Len(rows)
        /\ \A i \in 1 .. Len(rows) : /\ after[i].account = rows[i].account
                                      /\ after[i].type = rows[i].type
    BY <2>2, <2>4, MovedTickets DEF Moves
  <2> QED BY <2>1, <2>3, <2>4, <2>5
<1>4. tables.assignment \cup tables.escalation \subseteq 1 .. Len(db.ticket)
  BY <1>1 DEF Inv, TablesInv, Moves
<1>5. Len(db.ticket) <= MaxTickets
  BY DEF Inv, TablesInv
<1>6. 1 .. Len(db.ticket) \subseteq TicketIds
  BY <1>1, <1>5 DEF TicketIds
<1>7. tables \in Tables
  BY <1>2, <1>1, <1>3, <1>4, <1>6 DEF Tables
<1>8. Grows(db, tables)
  <2>1. Len(db.ticket) <= Len(tables.ticket)
    BY <1>1, <1>3
  <2> QED BY <1>2, <1>3, <2>1 DEF Grows, Moves
<1> QED BY <1>2, <1>3, <1>4, <1>5, <1>7, <1>8

LEMMA AssignedTables ==
    ASSUME Inv, NEW t \in DOMAIN db.ticket, NEW tables, tables = Assigned(db, t)
    PROVE  tables.assignment = db.assignment \cup {t} /\ \E moved : Moves(t, moved, tables)
<1>1. db \in Tables /\ db.ticket[t] \in Ticket
  BY DEF Inv, SupportTypeOK, Tables
<1>2. PICK row \in Ticket : row = db.ticket[t]
  BY <1>1
<1>3. PICK status \in {"open", "assigned", "escalated"} :
         status = IF row.status = "open" THEN "assigned" ELSE row.status
  BY DEF Ticket
<1>4. PICK moved : moved = [row EXCEPT !.status = status]
  OBVIOUS
<1>5. moved \in Ticket /\ moved.account = row.account /\ moved.type = row.type
  BY <1>3, <1>4, MovedTicket
<1>6. /\ tables.assignment = db.assignment \cup {t} /\ tables.escalation = db.escalation
      /\ tables = [db EXCEPT !.ticket = [@ EXCEPT ![t] = moved],
                             !.assignment = tables.assignment, !.escalation = tables.escalation]
  BY <1>1, <1>2, <1>3, <1>4 DEF Assigned, Tables
<1>7. Moves(t, moved, tables)
  BY <1>2, <1>5, <1>6 DEF Moves
<1> QED BY <1>6, <1>7

LEMMA EscalatedTables ==
    ASSUME Inv, NEW t \in DOMAIN db.ticket, NEW tables, tables = Escalated(db, t)
    PROVE  tables.escalation = db.escalation \cup {t} /\ \E moved : Moves(t, moved, tables)
<1>1. db \in Tables /\ db.ticket[t] \in Ticket
  BY DEF Inv, SupportTypeOK, Tables
<1>2. PICK row \in Ticket : row = db.ticket[t]
  BY <1>1
<1>3. PICK moved : moved = [row EXCEPT !.status = "escalated"]
  OBVIOUS
<1>4. moved \in Ticket /\ moved.account = row.account /\ moved.type = row.type
  BY <1>3, MovedTicket
<1>5. /\ tables.assignment = db.assignment /\ tables.escalation = db.escalation \cup {t}
      /\ tables = [db EXCEPT !.ticket = [@ EXCEPT ![t] = moved],
                             !.assignment = tables.assignment, !.escalation = tables.escalation]
  BY <1>1, <1>2, <1>3 DEF Escalated, Tables
<1>6. Moves(t, moved, tables)
  BY <1>2, <1>4, <1>5 DEF Moves
<1> QED BY <1>5, <1>6

\* The result of a move: it was made, or had been.
LEMMA MoveResults ==
    ASSUME NEW t \in TicketIds \cup {0}, NEW status \in {"done", "repeated"}
    PROVE  Result(status, t) \in Results /\ Result(status, t).status = status
BY DEF Result, Results

LEMMA AssignStep ==
    ASSUME Inv, NEW w \in Workers, AssignModerator(w)
    PROVE  Inv'
<1> DEFINE t == Arg(w)
<1>1. PICK key \in Keys : key = call[w].key
  BY InCall DEF AssignModerator
<1>2. call[w].phase = "effect" /\ CallOf[key].op = "assign" /\ t = CallOf[key].arg
  BY <1>1 DEF AssignModerator, Op, Arg
<1>3. t \in TicketIds
  <2>1. CallOf[key] \in Call
    OBVIOUS
  <2> QED BY <1>2, <2>1 DEF Call
<1>4. CASE t \in Snapshot(w).assignment /\ Committed(w, db, "key", Result("repeated", t))
  <2>1. PICK result \in Results : result = Result("repeated", t) /\ result.status = "repeated"
    BY <1>3, MoveResults
  <2>2. t \in db.assignment /\ t \in DOMAIN db.ticket
    BY <1>4, SnapshotGrows DEF Grows, Inv, SupportTypeOK, Tables, TablesInv
  <2>3. Sound(key, result)
    BY <1>2, <2>1, <2>2 DEF Sound, IsTrue
  <2> QED BY <1>1, <1>2, <1>4, <2>1, <2>3, KeptStep
<1>5. CASE t \in DOMAIN db.ticket \ db.assignment /\ Committed(w, Assigned(db, t), "key", Result("done", t))
  <2>1. PICK result \in Results : result = Result("done", t) /\ result.status = "done"
    BY <1>3, MoveResults
  <2>2. PICK tables : tables = Assigned(db, t)
    OBVIOUS
  <2>3. /\ tables \in Tables /\ Grows(db, tables) /\ Len(tables.ticket) <= MaxTickets
        /\ tables.assignment \cup tables.escalation \subseteq 1 .. Len(tables.ticket)
        /\ tables.assignment = db.assignment \cup {t} /\ tables.idempotency = db.idempotency
    BY <1>5, <2>2, AssignedTables, MovedTables
  <2>4. tables # db /\ t \in DOMAIN tables.ticket
    BY <1>5, <2>3, TicketsStay DEF Inv, SupportTypeOK
  <2>5. ASSUME db' = tables, effects'[key] > 0, NEW c,
               c.phase = "key", c.key = key, c.result = result
        PROVE  CallFine(c, NULL)'
    <3>1. Sound(key, result)'
      BY <1>2, <2>1, <2>3, <2>4, <2>5 DEF Sound, IsTrue
    <3> QED BY <2>5, <3>1 DEF CallFine
  <2>6. Committed(w, tables, "key", result)
    BY <1>5, <2>1, <2>2
  <2> QED BY <1>1, <1>2, <2>3, <2>4, <2>5, <2>6, ChangedStep
<1>6. CASE ToolFailed(w)
  BY <1>6, FailedStep
<1> QED BY <1>4, <1>5, <1>6 DEF AssignModerator

LEMMA EscalateStep ==
    ASSUME Inv, NEW w \in Workers, EscalateTicket(w)
    PROVE  Inv'
<1> DEFINE t == Arg(w)
<1>1. PICK key \in Keys : key = call[w].key
  BY InCall DEF EscalateTicket
<1>2. call[w].phase = "effect" /\ CallOf[key].op = "escalate" /\ t = CallOf[key].arg
  BY <1>1 DEF EscalateTicket, Op, Arg
<1>3. t \in TicketIds
  <2>1. CallOf[key] \in Call
    OBVIOUS
  <2> QED BY <1>2, <2>1 DEF Call
<1>4. CASE t \in Snapshot(w).escalation /\ Committed(w, db, "key", Result("repeated", t))
  <2>1. PICK result \in Results : result = Result("repeated", t) /\ result.status = "repeated"
    BY <1>3, MoveResults
  <2>2. t \in db.escalation /\ t \in DOMAIN db.ticket
    BY <1>4, SnapshotGrows DEF Grows, Inv, SupportTypeOK, Tables, TablesInv
  <2>3. Sound(key, result)
    BY <1>2, <2>1, <2>2 DEF Sound, IsTrue
  <2> QED BY <1>1, <1>2, <1>4, <2>1, <2>3, KeptStep
<1>5. CASE t \in DOMAIN db.ticket \ db.escalation /\ Committed(w, Escalated(db, t), "key", Result("done", t))
  <2>1. PICK result \in Results : result = Result("done", t) /\ result.status = "done"
    BY <1>3, MoveResults
  <2>2. PICK tables : tables = Escalated(db, t)
    OBVIOUS
  <2>3. /\ tables \in Tables /\ Grows(db, tables) /\ Len(tables.ticket) <= MaxTickets
        /\ tables.assignment \cup tables.escalation \subseteq 1 .. Len(tables.ticket)
        /\ tables.escalation = db.escalation \cup {t} /\ tables.idempotency = db.idempotency
    BY <1>5, <2>2, EscalatedTables, MovedTables
  <2>4. tables # db /\ t \in DOMAIN tables.ticket
    BY <1>5, <2>3, TicketsStay DEF Inv, SupportTypeOK
  <2>5. ASSUME db' = tables, effects'[key] > 0, NEW c,
               c.phase = "key", c.key = key, c.result = result
        PROVE  CallFine(c, NULL)'
    <3>1. Sound(key, result)'
      BY <1>2, <2>1, <2>3, <2>4, <2>5 DEF Sound, IsTrue
    <3> QED BY <2>5, <3>1 DEF CallFine
  <2>6. Committed(w, tables, "key", result)
    BY <1>5, <2>1, <2>2
  <2> QED BY <1>1, <1>2, <2>3, <2>4, <2>5, <2>6, ChangedStep
<1>6. CASE ToolFailed(w)
  BY <1>6, FailedStep
<1> QED BY <1>4, <1>5, <1>6 DEF EscalateTicket

LEMMA NotifyStep ==
    ASSUME Inv, NEW w \in Workers, NotifyUser(w)
    PROVE  Inv'
<1> DEFINE row == [account |-> Account(w), message |-> Arg(w), day |-> day]
<1>1. PICK key \in Keys : key = call[w].key
  BY InCall DEF NotifyUser
<1>2. call[w].phase = "effect" /\ CallOf[key].op = "notify" /\ Arg(w) = CallOf[key].arg
  BY <1>1 DEF NotifyUser, Op, Arg
<1>3. /\ CallOf[key].arg \in Messages /\ row \in Sent
      /\ row.account = AccountOf[key] /\ row.message = CallOf[key].arg
  <2>1. CallOf[key] \in Call /\ AccountOf[key] \in Accounts /\ day \in 1 .. MaxDay
    BY DEF Inv, SupportTypeOK
  <2> QED BY <1>1, <1>2, <2>1 DEF Call, Account, Sent
<1>4. CASE row \in db.outbox /\ Committed(w, db, "key", Result("repeated", 0))
  <2>1. PICK result \in Results : result = Result("repeated", 0) /\ result.status = "repeated"
    BY MoveResults
  <2>2. Sound(key, result)
    BY <1>2, <1>3, <1>4, <2>1 DEF Sound, IsTrue
  <2> QED BY <1>1, <1>2, <1>4, <2>1, <2>2, KeptStep
<1>5. CASE /\ row \notin db.outbox
           /\ Committed(w, [db EXCEPT !.outbox = @ \cup {row}], "key", Result("done", 0))
  <2>1. PICK result \in Results : result = Result("done", 0) /\ result.status = "done"
    BY MoveResults
  <2>2. PICK tables : tables = [db EXCEPT !.outbox = @ \cup {row}]
    OBVIOUS
  <2>3. /\ tables \in Tables /\ Grows(db, tables) /\ Len(tables.ticket) <= MaxTickets
        /\ tables.assignment \cup tables.escalation \subseteq 1 .. Len(tables.ticket)
        /\ tables.outbox = db.outbox \cup {row} /\ tables.idempotency = db.idempotency
    <3>1. db \in Tables /\ Len(db.ticket) \in Nat
      BY DEF Inv, SupportTypeOK, Tables
    <3> HIDE DEF row
    <3>2. /\ tables.ticket = db.ticket /\ tables.assignment = db.assignment
          /\ tables.escalation = db.escalation /\ tables.outbox = db.outbox \cup {row}
          /\ tables.idempotency = db.idempotency /\ tables \in Tables
      BY <1>3, <2>2, <3>1 DEF Tables
    <3>3. Grows(db, tables)
      BY <3>1, <3>2 DEF Grows
    <3> QED BY <3>2, <3>3 DEF Inv, TablesInv
  <2>4. tables # db
    BY <1>5, <2>3
  <2>5. ASSUME db' = tables, effects'[key] > 0, NEW c,
               c.phase = "key", c.key = key, c.result = result
        PROVE  CallFine(c, NULL)'
    <3>1. row \in db'.outbox
      BY <2>3, <2>5
    <3> HIDE DEF row
    <3>2. Sound(key, result)'
      BY <1>2, <1>3, <2>1, <2>5, <3>1 DEF Sound, IsTrue
    <3> QED BY <2>5, <3>2 DEF CallFine
  <2>6. Committed(w, tables, "key", result)
    BY <1>5, <2>1, <2>2
  <2> QED BY <1>1, <1>2, <2>3, <2>4, <2>5, <2>6, ChangedStep
<1>6. CASE ToolFailed(w)
  BY <1>6, FailedStep
<1> QED BY <1>4, <1>5, <1>6 DEF NotifyUser

LEMMA StoreStep ==
    ASSUME Inv, NEW w \in Workers, StoreKey(w)
    PROVE  Inv'
<1>1. PICK key \in Keys : key = call[w].key
  BY InCall DEF StoreKey
<1>2. PICK result \in Results : result = call[w].result /\ Sound(key, result)
  BY <1>1, InCall DEF StoreKey, CallFine
<1>3. CASE ToolFailed(w)
  BY <1>3, FailedStep
<1>4. CASE /\ db.idempotency[key] = NULL
           /\ db' = [db EXCEPT !.idempotency[key] = result]
           /\ call' = [call EXCEPT ![w] = NoCall]
           /\ CloseView(w)
           /\ UNCHANGED <<day, effects>>
  <2>1. PICK tables : tables = [db EXCEPT !.idempotency[key] = result]
    OBVIOUS
  <2>2. db \in Tables /\ effects \in [Keys -> Nat] /\ Len(db.ticket) \in Nat
    BY DEF Inv, SupportTypeOK, Tables
  <2>3. /\ tables \in Tables /\ tables.ticket = db.ticket
        /\ tables.assignment = db.assignment /\ tables.escalation = db.escalation
        /\ tables.outbox = db.outbox
        /\ tables.idempotency = [db.idempotency EXCEPT ![key] = result]
    BY <2>1, <2>2 DEF Tables
  <2>4. Grows(db, tables)
    BY <1>4, <2>2, <2>3 DEF Grows, Tables
  <2>5. \A k \in Keys : effects'[k] >= effects[k] /\ (Barred(k) => effects'[k] = 0)
    BY <1>4, <2>2 DEF Inv, TablesInv
  <2>6. Sound(key, result)'
    BY <1>2, <1>4, <2>1, <2>2, <2>3, <2>4, <2>5, SoundStays
  <2>7. \A k \in Keys : tables.idempotency[k] # NULL =>
           db.idempotency[k] # NULL \/ Sound(k, tables.idempotency[k])'
    <3> SUFFICES ASSUME NEW k \in Keys, k = key
                 PROVE  Sound(k, tables.idempotency[k])'
      BY <2>2, <2>3 DEF Tables
    <3>1. tables.idempotency[k] = result /\ tables'.idempotency[k] = result
      BY <2>2, <2>3 DEF Tables
    <3> QED BY <2>6, <3>1
  <2>8. NoCall \in CallState /\ NoCall.phase = "idle"
    BY DEF NoCall, CallState
  <2>9. CallFine(NoCall, NULL)'
    BY <2>8 DEF CallFine
  <2>10. Len(tables.ticket) <= MaxTickets
         /\ tables.assignment \cup tables.escalation \subseteq 1 .. Len(tables.ticket)
    BY <2>3 DEF Inv, TablesInv
  <2> QED BY <1>4, <2>1, <2>2, <2>3, <2>4, <2>5, <2>7, <2>8, <2>9, <2>10, WriteStep DEF CloseView
<1> QED BY <1>1, <1>2, <1>3, <1>4, Zenon DEF StoreKey

LEMMA NextDayStep ==
    ASSUME Inv, NextDay
    PROVE  Inv'
<1>1. day' \in 1 .. MaxDay
  BY DEF NextDay, Inv, SupportTypeOK
<1> QED BY <1>1 DEF NextDay, Inv, SupportTypeOK, TablesInv, ViewsInv, CallsInv, StoredInv, CallFine,
             Sound, IsTrue, Barred, Made, Grows

-----------------------------------------------------------------------------

LEMMA InitInv == SupportInit => Inv
<1> SUFFICES ASSUME SupportInit PROVE Inv
  OBVIOUS
<1>1. NoCall \in CallState /\ NoCall.phase = "idle"
  BY DEF NoCall, CallState
<1>2. db.ticket = <<>> /\ db \in Tables /\ \A k \in Keys : db.idempotency[k] = NULL
  BY DEF SupportInit, Tables
<1>3. SupportTypeOK
  BY <1>1, <1>2 DEF SupportInit, SupportTypeOK
<1>4. TablesInv
  BY <1>2 DEF SupportInit, TablesInv
<1> QED BY <1>1, <1>2, <1>3, <1>4 DEF SupportInit, Inv, ViewsInv, CallsInv, CallFine, StoredInv

LEMMA NextInv == Inv /\ [SupportNext]_supportVars => Inv'
<1> SUFFICES ASSUME Inv, [SupportNext]_supportVars PROVE Inv'
  OBVIOUS
<1>1. CASE UNCHANGED supportVars
  BY <1>1 DEF supportVars, Inv, SupportTypeOK, TablesInv, ViewsInv, CallsInv, StoredInv, CallFine,
     Sound, IsTrue, Barred, Made, Grows
<1>2. CASE NextDay
  BY <1>2, NextDayStep
<1>3. ASSUME NEW w \in Workers, Browse(w) PROVE Inv'
  BY <1>3, IdleStep
<1>4. ASSUME NEW w \in Workers, NEW k \in Keys, OnceReplay(w, k) \/ OnceBegin(w, k) PROVE Inv'
  BY <1>4, IdleStep, BeginStep
<1>5. ASSUME NEW w \in Workers, Effect(w) PROVE Inv'
  BY <1>5, CreateStep, FindStep, AssignStep, EscalateStep, NotifyStep, FailedStep
     DEF Effect, CreateDeadlock
<1>6. ASSUME NEW w \in Workers, StoreKey(w) \/ CrashCall(w) PROVE Inv'
  BY <1>6, StoreStep, FailedStep DEF CrashCall
<1> QED BY <1>1, <1>2, <1>3, <1>4, <1>5, <1>6 DEF SupportNext

LEMMA Safety == SupportSpec => []Inv
BY InitInv, NextInv, PTL DEF SupportSpec

\* Every variable keeps its type: support_db.py's tables, each connection's
\* snapshot and each call of once.
THEOREM Typing == SupportSpec => []SupportTypeOK
BY Safety, PTL DEF Inv

\* once never replays a result that was not so: the change a stored result
\* reports has been made, the ticket that create_ticket names is the account's,
\* and an account that was refused for the cap has reached it.
THEOREM ReplayedResultsAreTrue == SupportSpec => []StoredResultsAreTrue
<1>1. Inv => StoredResultsAreTrue
  BY DEF Inv, StoredInv, StoredResultsAreTrue, Sound
<1> QED BY <1>1, Safety, PTL

-----------------------------------------------------------------------------
(* The tickets.                                                            *)

Row(w) == [account |-> Account(w), type |-> Arg(w), status |-> "open"]

\* The step creates a ticket.
Creates(w) ==
    /\ Account(w) \in Accounts /\ Arg(w) \in Types
    /\ ~TypeIsOpen(w) /\ ~AtCap(Snapshot(w), Account(w))
    /\ db' = [db EXCEPT !.ticket = Append(@, Row(w))]
    /\ CloseView(w)

LEMMA TicketChanges ==
    ASSUME Inv, [SupportNext]_supportVars
    PROVE  \/ /\ db'.ticket = db.ticket
              /\ db'.assignment = db.assignment /\ db'.escalation = db.escalation
           \/ \E t \in DOMAIN db.ticket : db' = Assigned(db, t) \/ db' = Escalated(db, t)
           \/ \E w \in Workers : Creates(w)
<1>1. db \in Tables
  BY DEF Inv, SupportTypeOK
<1>2. CASE UNCHANGED db
  BY <1>2
<1>3. ASSUME NEW w \in Workers, CreateTicket(w) PROVE db' = db \/ Creates(w)
  <2>1. call[w].phase = "effect" /\ Op(w) = "create"
    BY <1>3 DEF CreateTicket
  <2>2. Account(w) \in Accounts /\ Arg(w) \in Types
    <3>1. PICK key \in Keys : key = call[w].key
      BY <2>1, InCall
    <3>2. ~Barred(key) /\ CallOf[key] \in Call /\ CallOf[key].op = "create"
      BY <2>1, <3>1, InCall DEF CallFine, Op
    <3> QED BY <3>1, <3>2 DEF Account, Arg, Barred, Call
  <2>3. CASE db' = db
    BY <2>3
  <2>4. CASE /\ ~TypeIsOpen(w) /\ ~AtCap(Snapshot(w), Account(w))
             /\ Committed(w, [db EXCEPT !.ticket = Append(@, Row(w))], "find",
                          Result("created", 0))
    BY <2>2, <2>4 DEF Creates, Committed
  <2> QED BY <1>3, <2>3, <2>4 DEF CreateTicket, Committed, Row
<1>4. ASSUME NEW w \in Workers, AssignModerator(w) \/ EscalateTicket(w)
      PROVE  db' = db \/ \E t \in DOMAIN db.ticket : db' = Assigned(db, t) \/ db' = Escalated(db, t)
  BY <1>4 DEF AssignModerator, EscalateTicket, Committed, ToolFailed
<1>5. ASSUME NEW w \in Workers, NotifyUser(w) \/ StoreKey(w)
      PROVE  /\ db'.ticket = db.ticket
             /\ db'.assignment = db.assignment /\ db'.escalation = db.escalation
  BY <1>1, <1>5 DEF NotifyUser, StoreKey, Committed, ToolFailed, Tables
<1>6. ASSUME NEW w \in Workers, \/ Browse(w) \/ FindTicket(w) \/ CreateDeadlock(w) \/ CrashCall(w)
                                \/ \E k \in Keys : OnceReplay(w, k) \/ OnceBegin(w, k)
      PROVE  db' = db
  BY <1>6 DEF Browse, FindTicket, CreateDeadlock, CrashCall, ToolFailed, OnceReplay, OnceBegin
<1>7. CASE NextDay
  BY <1>7 DEF NextDay
<1> QED BY <1>2, <1>3, <1>4, <1>5, <1>6, <1>7 DEF SupportNext, Effect, supportVars

\* What a move and a creation leave of the rows.
LEMMA AfterMove ==
    ASSUME Inv, NEW t \in DOMAIN db.ticket, db' = Assigned(db, t) \/ db' = Escalated(db, t)
    PROVE  /\ DOMAIN db'.ticket = DOMAIN db.ticket
           /\ \A i \in DOMAIN db.ticket :
                 /\ db'.ticket[i].account = db.ticket[i].account
                 /\ db'.ticket[i].type = db.ticket[i].type
                 /\ i # t => db'.ticket[i].status = db.ticket[i].status
           /\ \/ /\ db' = Assigned(db, t)
                 /\ db'.assignment = db.assignment \cup {t} /\ db'.escalation = db.escalation
                 /\ db'.ticket[t].status =
                       IF db.ticket[t].status = "open" THEN "assigned" ELSE db.ticket[t].status
              \/ /\ db' = Escalated(db, t)
                 /\ db'.assignment = db.assignment /\ db'.escalation = db.escalation \cup {t}
                 /\ db'.ticket[t].status = "escalated"
<1>1. db \in Tables /\ db.ticket \in Seq(Ticket)
  BY DEF Inv, SupportTypeOK, Tables
<1>2. \A i \in DOMAIN db.ticket : db.ticket[i] \in Ticket
  BY <1>1
<1>3. CASE db' = Assigned(db, t)
  BY <1>1, <1>2, <1>3 DEF Assigned, Tables, Ticket
<1>4. CASE db' = Escalated(db, t)
  BY <1>1, <1>2, <1>4 DEF Escalated, Tables, Ticket
<1> QED BY <1>3, <1>4

LEMMA AfterCreation ==
    ASSUME Inv, NEW w \in Workers, Creates(w)
    PROVE  /\ db'.assignment = db.assignment /\ db'.escalation = db.escalation
           /\ DOMAIN db.ticket = 1 .. Len(db.ticket) /\ Len(db.ticket) \in Nat
           /\ DOMAIN db'.ticket = 1 .. Len(db.ticket) + 1
           /\ \A i \in 1 .. Len(db.ticket) : db'.ticket[i] = db.ticket[i]
           /\ db'.ticket[Len(db.ticket) + 1] = Row(w)
           /\ Row(w).account = Account(w) /\ Row(w).type = Arg(w) /\ Row(w).status = "open"
<1>1. db \in Tables /\ db.ticket \in Seq(Ticket)
  BY DEF Inv, SupportTypeOK, Tables
<1>2. Row(w) \in Ticket
  BY DEF Creates, Row, Ticket
<1>3. /\ db'.ticket = Append(db.ticket, Row(w))
      /\ db'.assignment = db.assignment /\ db'.escalation = db.escalation
  BY <1>1 DEF Creates, Tables
<1> QED BY <1>1, <1>2, <1>3 DEF Row

LEMMA StatusStep ==
    ASSUME Inv, StatusMatchesTables, [SupportNext]_supportVars
    PROVE  StatusMatchesTables'
<1>1. CASE /\ db'.ticket = db.ticket
           /\ db'.assignment = db.assignment /\ db'.escalation = db.escalation
  BY <1>1 DEF StatusMatchesTables
<1>2. ASSUME NEW t \in DOMAIN db.ticket, db' = Assigned(db, t) \/ db' = Escalated(db, t)
      PROVE  StatusMatchesTables'
  BY <1>2, AfterMove DEF StatusMatchesTables
<1>3. ASSUME NEW w \in Workers, Creates(w)
      PROVE  StatusMatchesTables'
  BY <1>3, AfterCreation DEF StatusMatchesTables, Inv, TablesInv
<1> QED BY <1>1, <1>2, <1>3, TicketChanges

\* The status of every ticket and the tables agree, in whatever order
\* assign_moderator and escalate_ticket are called.
THEOREM StatusAgrees == SupportSpec => []StatusMatchesTables
<1>1. SupportInit => StatusMatchesTables
  BY DEF SupportInit, StatusMatchesTables
<1> QED BY <1>1, Safety, StatusStep, PTL DEF SupportSpec

\* Any two open tickets of an account and a type are one.
OneOpen ==
    \A a \in Accounts, type \in Types :
        \A i \in OpenOfType(db, a, type), j \in OpenOfType(db, a, type) : i = j

LEMMA OneOpenStep ==
    ASSUME Inv, OneOpen, [SupportNext]_supportVars
    PROVE  OneOpen'
<1>1. CASE db'.ticket = db.ticket
  BY <1>1 DEF OneOpen, OpenOfType, TicketsOf
<1>2. ASSUME NEW t \in DOMAIN db.ticket, db' = Assigned(db, t) \/ db' = Escalated(db, t)
      PROVE  OneOpen'
  <2>1. \A a \in Accounts, type \in Types : OpenOfType(db', a, type) \subseteq OpenOfType(db, a, type)
    BY <1>2, AfterMove DEF OpenOfType, TicketsOf
  <2> QED BY <2>1 DEF OneOpen
<1>3. ASSUME NEW w \in Workers, Creates(w)
      PROVE  OneOpen'
  <2> SUFFICES ASSUME NEW a \in Accounts, NEW type \in Types,
                      NEW i \in OpenOfType(db', a, type), NEW j \in OpenOfType(db', a, type)
               PROVE  i = j
    BY DEF OneOpen
  <2> DEFINE n == Len(db.ticket) + 1
  <2>1. OpenOfType(db', a, type) \subseteq OpenOfType(db, a, type) \cup {n}
    BY <1>3, AfterCreation DEF OpenOfType, TicketsOf
  <2>2. n \in OpenOfType(db', a, type) => OpenOfType(db, a, type) = {}
    BY <1>3, AfterCreation DEF OpenOfType, TicketsOf, Creates, TypeIsOpen
  <2> HIDE DEF n
  <2>3. ASSUME OpenOfType(db, a, type) # {}
        PROVE  \E k : OpenOfType(db, a, type) = {k}
    <3>1. PICK k : k \in OpenOfType(db, a, type)
      BY <2>3
    <3>2. OpenOfType(db, a, type) = {k}
      BY <3>1 DEF OneOpen
    <3> QED BY <3>2
  <2> QED BY <2>1, <2>2, <2>3
<1> QED BY <1>1, <1>2, <1>3, TicketChanges

\* There is never a second open ticket of an account and issue type: create_ticket
\* looks for one among the committed rows, under uq_open_ticket.
THEOREM NoSecondOpenTicket == SupportSpec => []OneOpenPerType
<1>1. SupportInit => OneOpen
  BY DEF SupportInit, OneOpen, OpenOfType, TicketsOf
<1>2. OneOpen => OneOpenPerType
  <2> SUFFICES ASSUME OneOpen, NEW a \in Accounts, NEW type \in Types
               PROVE  Cardinality(OpenOfType(db, a, type)) <= 1
    BY DEF OneOpenPerType
  <2>1. CASE OpenOfType(db, a, type) = {}
    BY <2>1, FS_EmptySet
  <2>2. ASSUME NEW i, OpenOfType(db, a, type) = {i}
        PROVE  Cardinality(OpenOfType(db, a, type)) <= 1
    <3>1. Cardinality({i}) = 1
      BY FS_Singleton
    <3> QED BY <2>2, <3>1
  <2>3. ASSUME OpenOfType(db, a, type) # {}
        PROVE  \E k : OpenOfType(db, a, type) = {k}
    <3>1. PICK k : k \in OpenOfType(db, a, type)
      BY <2>3
    <3>2. OpenOfType(db, a, type) = {k}
      BY <3>1 DEF OneOpen
    <3> QED BY <3>2
  <2> QED BY <2>1, <2>2, <2>3
<1> QED BY <1>1, <1>2, Safety, OneOpenStep, PTL DEF SupportSpec

\* The connections that still count fewer than Cap tickets of the account.
Stale(a) == {w \in Workers : view[w] # NULL /\ ~AtCap(view[w], a)}

\* Once the cap is reached, each of them may add one ticket and then counts again.
CapInv ==
    \A a \in Accounts :
        /\ IsFiniteSet(TicketsOf(db, a))
        /\ AtCap(db, a) => Cardinality(TicketsOf(db, a)) + Cardinality(Stale(a))
                              <= Cap + Cardinality(Workers) - 1

\* In a step a connection keeps its snapshot, ends it, or opens one.
LEMMA ViewChanges ==
    ASSUME Inv, [SupportNext]_supportVars, NEW w \in Workers
    PROVE  view'[w] = view[w] \/ view'[w] = NULL \/ (view'[w] = db /\ db' = db)
<1>1. view \in [Workers -> Tables \cup {NULL}]
  BY DEF Inv, SupportTypeOK
<1>2. CASE UNCHANGED view
  BY <1>2
<1>3. ASSUME NEW v \in Workers, CloseView(v) \/ (OpenView(v) /\ db' = db)
      PROVE  view'[w] = view[w] \/ view'[w] = NULL \/ (view'[w] = db /\ db' = db)
  BY <1>1, <1>3 DEF CloseView, OpenView, Snapshot
<1>4. ASSUME NEW v \in Workers, Browse(v) \/ FindTicket(v) \/ \E k \in Keys : OnceBegin(v, k)
      PROVE  OpenView(v) /\ db' = db
  BY <1>4 DEF Browse, FindTicket, OnceBegin
<1>5. ASSUME NEW v \in Workers, \/ CreateTicket(v) \/ CreateDeadlock(v) \/ AssignModerator(v)
                                \/ EscalateTicket(v) \/ NotifyUser(v) \/ StoreKey(v) \/ CrashCall(v)
                                \/ \E k \in Keys : OnceReplay(v, k)
      PROVE  CloseView(v)
  BY <1>5, Zenon DEF CreateTicket, CreateDeadlock, AssignModerator, EscalateTicket, NotifyUser,
     StoreKey, CrashCall, OnceReplay, Committed, ToolFailed
<1> QED BY <1>2, <1>3, <1>4, <1>5 DEF SupportNext, Effect, NextDay, supportVars

LEMMA CapStep ==
    ASSUME Inv, CapInv, [SupportNext]_supportVars
    PROVE  CapInv'
<1> SUFFICES ASSUME NEW a \in Accounts
             PROVE  /\ IsFiniteSet(TicketsOf(db, a))'
                    /\ AtCap(db', a) => Cardinality(TicketsOf(db', a)) + Cardinality(Stale(a)')
                                           <= Cap + Cardinality(Workers) - 1
  BY DEF CapInv
<1> DEFINE T == TicketsOf(db, a)
           S == Stale(a)
<1>1. IsFiniteSet(T) /\ Cardinality(T) \in Nat
  BY FS_CardinalityType DEF CapInv
<1>2. /\ S \subseteq Workers /\ IsFiniteSet(S) /\ Cardinality(S) \in Nat
      /\ Cardinality(Workers) \in Nat
  BY FS_CardinalityType, FS_Subset DEF Stale
<1>3. AtCap(db, a) => Cardinality(T) + Cardinality(S) <= Cap + Cardinality(Workers) - 1
  BY DEF CapInv
<1>4. AtCap(db, a) <=> Cardinality(T) >= Cap
  BY DEF AtCap
<1>5. CASE TicketsOf(db', a) = T
  <2> SUFFICES ASSUME AtCap(db', a)
               PROVE  Cardinality(T) + Cardinality(Stale(a)') <= Cap + Cardinality(Workers) - 1
    BY <1>1, <1>5
  <2>1. AtCap(db, a)
    BY <1>5 DEF AtCap
  <2>2. Stale(a)' \subseteq S
    BY <2>1, ViewChanges DEF Stale, Inv, SupportTypeOK
  <2>3. Cardinality(Stale(a)') <= Cardinality(S) /\ Cardinality(Stale(a)') \in Nat
    BY <1>2, <2>2, FS_Subset, FS_CardinalityType
  <2> QED BY <1>1, <1>2, <1>3, <2>1, <2>3
<1>6. ASSUME NEW w \in Workers, Creates(w), Account(w) = a
      PROVE  /\ IsFiniteSet(TicketsOf(db', a))
             /\ AtCap(db', a) => Cardinality(TicketsOf(db', a)) + Cardinality(Stale(a)')
                                    <= Cap + Cardinality(Workers) - 1
  <2> DEFINE n == Len(db.ticket) + 1
  <2>1. TicketsOf(db', a) = T \cup {n} /\ n \notin T
    BY <1>6, AfterCreation DEF TicketsOf
  <2>2. IsFiniteSet(TicketsOf(db', a)) /\ Cardinality(TicketsOf(db', a)) = Cardinality(T) + 1
    BY <1>1, <2>1, FS_AddElement
  <2>3. Stale(a)' \subseteq Workers \ {w}
    BY <1>6 DEF Stale, Creates, CloseView, Inv, SupportTypeOK
  <2>4. /\ Cardinality(Stale(a)') \in Nat
        /\ Cardinality(Stale(a)') <= Cardinality(Workers) - 1
    <3>1. IsFiniteSet(Workers \ {w}) /\ Cardinality(Workers \ {w}) = Cardinality(Workers) - 1
      BY FS_RemoveElement
    <3> QED BY <2>3, <3>1, FS_Subset, FS_CardinalityType
  <2>5. CASE ~AtCap(db, a)
    BY <1>1, <1>2, <1>4, <2>2, <2>4, <2>5
  <2>6. CASE AtCap(db, a)
    <3>1. w \in S
      BY <1>6, <2>6 DEF Creates, Stale, Snapshot
    <3>2. Stale(a)' \subseteq S \ {w}
      <4>1. \A v \in Workers \ {w} : view'[v] = view[v]
        BY <1>6 DEF Creates, CloseView, Inv, SupportTypeOK
      <4> QED BY <2>3, <4>1 DEF Stale
    <3>3. IsFiniteSet(S \ {w}) /\ Cardinality(S \ {w}) = Cardinality(S) - 1
      BY <1>2, <3>1, FS_RemoveElement
    <3>4. Cardinality(Stale(a)') <= Cardinality(S) - 1
      BY <3>2, <3>3, FS_Subset
    <3> QED BY <1>1, <1>2, <1>3, <2>2, <2>4, <2>6, <3>4
  <2> QED BY <2>2, <2>5, <2>6
<1>7. CASE db'.ticket = db.ticket
  BY <1>5, <1>7 DEF TicketsOf
<1>8. ASSUME NEW t \in DOMAIN db.ticket, db' = Assigned(db, t) \/ db' = Escalated(db, t)
      PROVE  TicketsOf(db', a) = T
  BY <1>8, AfterMove DEF TicketsOf
<1>9. ASSUME NEW w \in Workers, Creates(w), Account(w) # a
      PROVE  TicketsOf(db', a) = T
  BY <1>9, AfterCreation DEF TicketsOf
<1> QED BY <1>1, <1>5, <1>6, <1>7, <1>8, <1>9, TicketChanges

\* However calls race, the tickets of an account never exceed the cap by more
\* than one for each other worker.
THEOREM OvershootIsBounded == SupportSpec => []CapOvershootBounded
<1>1. SupportInit => CapInv
  <2> SUFFICES ASSUME SupportInit, NEW a \in Accounts
               PROVE  IsFiniteSet(TicketsOf(db, a)) /\ ~AtCap(db, a)
    BY DEF CapInv
  <2>1. TicketsOf(db, a) = {}
    BY DEF SupportInit, TicketsOf
  <2> QED BY <2>1, FS_EmptySet DEF AtCap
<1>2. CapInv => CapOvershootBounded
  <2> SUFFICES ASSUME CapInv, NEW a \in Accounts
               PROVE  Cardinality(TicketsOf(db, a)) <= Cap + Cardinality(Workers) - 1
    BY DEF CapOvershootBounded
  <2>1. Cardinality(TicketsOf(db, a)) \in Nat
    BY FS_CardinalityType DEF CapInv
  <2>2. Stale(a) \subseteq Workers /\ Cardinality(Stale(a)) \in Nat /\ Cardinality(Workers) \in Nat
    BY FS_CardinalityType, FS_Subset DEF Stale
  <2>3. CASE AtCap(db, a)
    BY <2>1, <2>2, <2>3 DEF CapInv
  <2>4. CASE ~AtCap(db, a)
    BY <2>1, <2>2, <2>4 DEF AtCap
  <2> QED BY <2>3, <2>4
<1> QED BY <1>1, <1>2, Safety, CapStep, PTL DEF SupportSpec
=============================================================================
