------------------------------ MODULE SupportDb -----------------------------
(***************************************************************************)
(* The schema `support`: tickets, assignments, escalations, outgoing       *)
(* messages and idempotency keys, as app/support_db.py and the resolution  *)
(* tools of app/tools/support_tools.py read and write them.                *)
(*                                                                         *)
(* Every worker process has one connection.  A plain SELECT reads the      *)
(* snapshot of its current transaction (view), which opens with the first  *)
(* such read and lasts until the connection commits or rolls back; nothing *)
(* else ends it, and the read methods never commit.  INSERT, UPDATE and    *)
(* SELECT ... FOR UPDATE work on the committed rows (db).                  *)
(*                                                                         *)
(* once reads the key, calls the effect and inserts the key in one         *)
(* `with transaction`; the effect opens another one on the same connection *)
(* whose commit ends both.  So the effect is committed in one step and the *)
(* key in a later one.                                                     *)
(*                                                                         *)
(* A key stands for one tool call of one account: the hash covers run,     *)
(* step, tool and arguments.  The caller is the most general one: any      *)
(* worker may call once with any key, again and again, as resumed runs and *)
(* workers that lost their lease do.  `closed` is never written by the     *)
(* code.                                                                   *)
(***************************************************************************)
EXTENDS Integers, Sequences, FiniteSets, FiniteSetsExt

CONSTANTS
    Workers,     \* worker processes, one connection each
    Accounts,
    Types,       \* issue types
    Messages,    \* notification texts, normalised
    Keys,        \* idempotency keys
    AccountOf,   \* the account a key's call is bound to
    CallOf,      \* the call a key stands for
    Cap,         \* policy max_open_tickets_per_user
    NULL,
    MaxTickets,  \* bound: rows of ticket
    MaxDay       \* bound: the last day

TicketIds == 1 .. MaxTickets

\* Arguments of NULL: a type create_ticket does not know, or any arguments that
\* dispatch or the texts' checks refuse.
Call == [op : {"create"}, arg : Types \cup {NULL}] \cup [op : {"notify"}, arg : Messages]
        \cup [op : {"assign", "escalate"}, arg : TicketIds] \cup [op : {"refused"}, arg : {NULL}]

ASSUME CallsAssumption == /\ AccountOf \in [Keys -> Accounts]
                          /\ CallOf \in [Keys -> Call]
                          /\ NULL \notin Keys \cup Types
ASSUME SizesAssumption == Cap \in Nat \ {0} /\ MaxTickets \in Nat /\ MaxDay \in Nat \ {0}
ASSUME WorkersAssumption == IsFiniteSet(Workers)

VARIABLES
    db,       \* the committed tables
    view,     \* per connection: the snapshot it reads, or NULL
    call,     \* per worker: the call of once in progress
    day,      \* the date notify_user reads
    effects   \* history: how often the effect of each key has been committed

supportVars == <<db, view, call, day, effects>>

-----------------------------------------------------------------------------

Ticket == [account : Accounts, type : Types, status : {"open", "assigned", "escalated"}]
Sent == [account : Accounts, message : Messages, day : 1 .. MaxDay]

Results == [status : {"created", "already_open", "not_allowed", "too_many", "invalid",
                      "done", "repeated"},
            id : {0} \cup TicketIds]
Result(status, id) == [status |-> status, id |-> id]

ASSUME ResultsAssumption == NULL \notin Results

Tables == [ticket : Seq(Ticket), assignment : SUBSET TicketIds, escalation : SUBSET TicketIds,
           outbox : SUBSET Sent, idempotency : [Keys -> Results \cup {NULL}]]

\* Between two calls; the key read and not found; the effect of create_ticket
\* committed and its id not yet looked up; the key still to be stored.
CallState == [phase : {"idle", "effect", "find", "key"}, key : Keys \cup {NULL},
              result : Results \cup {NULL}]
NoCall == [phase |-> "idle", key |-> NULL, result |-> NULL]

SupportTypeOK == /\ db \in Tables
                 /\ view \in [Workers -> Tables \cup {NULL}]
                 /\ call \in [Workers -> CallState]
                 /\ day \in 1 .. MaxDay
                 /\ effects \in [Keys -> Nat]

-----------------------------------------------------------------------------
(* A definition whose comment is in parentheses is a slip that the one     *)
(* after it does not make; no specification uses it (see RunStore).        *)

\* What a plain SELECT of w sees.
Snapshot(w) == IF view[w] = NULL THEN db ELSE view[w]

OpenView(w) == view' = [view EXCEPT ![w] = Snapshot(w)]
CloseView(w) == view' = [view EXCEPT ![w] = NULL]

\* open_tickets: the ids of the account's tickets that are not closed.
TicketsOf(tables, account) ==
    {i \in DOMAIN tables.ticket : tables.ticket[i].account = account}

\* (one more than the policy allows)
AboveCap(tables, account) == Cardinality(TicketsOf(tables, account)) > Cap
AtCap(tables, account) == Cardinality(TicketsOf(tables, account)) >= Cap

OpenOfType(tables, account, type) ==
    {i \in TicketsOf(tables, account) :
        tables.ticket[i].type = type /\ tables.ticket[i].status = "open"}

\* (the ticket is moved whatever its status)
AssignedAnyway(tables, t) ==
    [tables EXCEPT !.assignment = @ \cup {t}, !.ticket[t].status = "assigned"]
Assigned(tables, t) ==
    [tables EXCEPT !.assignment = @ \cup {t},
                   !.ticket[t].status = IF @ = "open" THEN "assigned" ELSE @]
Escalated(tables, t) ==
    [tables EXCEPT !.escalation = @ \cup {t}, !.ticket[t].status = "escalated"]

Account(w) == AccountOf[call[w].key]
Op(w) == CallOf[call[w].key].op
Arg(w) == CallOf[call[w].key].arg

Begin(k, phase, result) == [phase |-> phase, key |-> k, result |-> result]

\* run_tool turns an exception into tool_failed; the open transaction is rolled back.
ToolFailed(w) ==
    /\ call' = [call EXCEPT ![w] = NoCall]
    /\ CloseView(w)
    /\ UNCHANGED <<db, day, effects>>

\* (a tool whose answer is lost after the commit is called again)
CommittedRetried(w, tables, phase, result) ==
    /\ db' = tables
    /\ \/ call' = [call EXCEPT ![w].phase = phase, ![w].result = result]
       \/ UNCHANGED call
    /\ effects' = [effects EXCEPT ![call[w].key] = @ + (IF tables = db THEN 0 ELSE 1)]
    /\ CloseView(w)
    /\ UNCHANGED day

\* The effect changes the tables and commits.
Committed(w, tables, phase, result) ==
    /\ db' = tables
    /\ call' = [call EXCEPT ![w].phase = phase, ![w].result = result]
    /\ effects' = [effects EXCEPT ![call[w].key] = @ + (IF tables = db THEN 0 ELSE 1)]
    /\ CloseView(w)
    /\ UNCHANGED day

-----------------------------------------------------------------------------

\* The lookups of the triage tools, outside any transaction.
Browse(w) ==
    /\ call[w].phase = "idle"
    /\ view[w] = NULL
    /\ OpenView(w)
    /\ UNCHANGED <<db, call, day, effects>>

\* once finds the key and returns the stored result.
OnceReplay(w, k) ==
    /\ call[w].phase = "idle"
    /\ Snapshot(w).idempotency[k] # NULL
    /\ CloseView(w)
    /\ UNCHANGED <<db, call, day, effects>>

\* The result of a call that is answered without an effect, or NULL: dispatch
\* refuses arguments; create_ticket compares the cap and then looks at the type.
Refusal(tables, k) ==
    LET creates == CallOf[k].op = "create"
        full == AtCap(tables, AccountOf[k])
    IN  CASE creates /\ full -> Result("not_allowed", 0)
          [] creates /\ ~full /\ CallOf[k].arg = NULL -> Result("invalid", 0)
          [] CallOf[k].op = "refused" -> Result("invalid", 0)
          [] OTHER -> NULL

\* once does not find the key and calls the tool.
OnceBegin(w, k) ==
    LET refusal == Refusal(Snapshot(w), k)
    IN  /\ call[w].phase = "idle"
        /\ Snapshot(w).idempotency[k] = NULL
        /\ call' = [call EXCEPT ![w] = Begin(k, IF refusal = NULL THEN "effect" ELSE "key", refusal)]
        /\ OpenView(w)
        /\ UNCHANGED <<db, day, effects>>

\* (a plain SELECT, and no uq_open_ticket)
TypeWasOpen(w) == OpenOfType(Snapshot(w), Account(w), Arg(w)) # {}
TypeIsOpen(w) == OpenOfType(db, Account(w), Arg(w)) # {}

\* SupportDb.create_ticket: an open ticket of the type is looked for among the
\* committed rows, the tickets are counted in the snapshot.
CreateTicket(w) ==
    LET a == Account(w)
        row == [account |-> a, type |-> Arg(w), status |-> "open"]
    IN  /\ call[w].phase = "effect" /\ Op(w) = "create"
        /\ \/ /\ TypeIsOpen(w)
              /\ Committed(w, db, "find", Result("already_open", 0))
           \/ /\ ~TypeIsOpen(w)
              /\ IF AtCap(Snapshot(w), a)
                 THEN Committed(w, db, "key", Result("too_many", 0))
                 ELSE /\ Len(db.ticket) < MaxTickets
                      /\ Committed(w, [db EXCEPT !.ticket = Append(@, row)], "find",
                                   Result("created", 0))

\* Two empty ranges locked at once, of accounts without any ticket: each insert
\* waits for the other's gap lock and InnoDB rolls one of them back.
CreateDeadlock(w) ==
    /\ call[w].phase = "effect" /\ Op(w) = "create"
    /\ \E v \in Workers \ {w} :
          /\ call[v].phase = "effect" /\ Op(v) = "create"
          /\ TicketsOf(db, Account(w)) \cup TicketsOf(db, Account(v)) = {}
    /\ ToolFailed(w)

\* (the id is not looked up)
FindNoTicket(w) ==
    /\ call[w].phase = "find"
    /\ call' = [call EXCEPT ![w].phase = "key", ![w].result.id = NULL]
    /\ OpenView(w)
    /\ UNCHANGED <<db, day, effects>>

\* (the oldest ticket, whatever the status)
FindOldest(w) ==
    /\ call[w].phase = "find"
    /\ call' = [call EXCEPT ![w].phase = "key",
                   ![w].result = Result(@.status, Min(TicketsOf(Snapshot(w), Account(w))))]
    /\ OpenView(w)
    /\ UNCHANGED <<db, day, effects>>

\* The tool looks up the id to return: the newest ticket of the account after
\* "created", the oldest of the type after "already_open".
FindTicket(w) ==
    LET mine == TicketsOf(Snapshot(w), Account(w))
        ofType == {i \in mine : Snapshot(w).ticket[i].type = Arg(w)}
        status == call[w].result.status
    IN  /\ call[w].phase = "find"
        /\ call' = [call EXCEPT ![w].phase = "key",
                       ![w].result = Result(status, IF status = "created" THEN Max(mine)
                                                    ELSE Min(ofType))]
        /\ OpenView(w)
        /\ UNCHANGED <<db, day, effects>>

\* assign_moderator: moves an open ticket to assigned.
AssignModerator(w) ==
    LET t == Arg(w)
    IN  /\ call[w].phase = "effect" /\ Op(w) = "assign"
        /\ \/ /\ t \in Snapshot(w).assignment
              /\ Committed(w, db, "key", Result("repeated", t))
           \/ /\ t \notin Snapshot(w).assignment
              /\ t \in DOMAIN db.ticket \ db.assignment
              /\ Committed(w, Assigned(db, t), "key", Result("done", t))
           \/ /\ t \notin Snapshot(w).assignment
              /\ t \notin DOMAIN db.ticket \ db.assignment  \* fk_assignment_ticket, uq_assignment_ticket
              /\ ToolFailed(w)

\* escalate_ticket: moves the ticket to escalated whatever its status.
EscalateTicket(w) ==
    LET t == Arg(w)
    IN  /\ call[w].phase = "effect" /\ Op(w) = "escalate"
        /\ \/ /\ t \in Snapshot(w).escalation
              /\ Committed(w, db, "key", Result("repeated", t))
           \/ /\ t \notin Snapshot(w).escalation
              /\ t \in DOMAIN db.ticket \ db.escalation
              /\ Committed(w, Escalated(db, t), "key", Result("done", t))
           \/ /\ t \notin Snapshot(w).escalation
              /\ t \notin DOMAIN db.ticket \ db.escalation  \* fk_esc_ticket, uq_esc_ticket
              /\ ToolFailed(w)

\* notify_user: INSERT IGNORE under the dedupe key; a duplicate is then looked
\* up in the snapshot, where it may be missing.
NotifyUser(w) ==
    LET row == [account |-> Account(w), message |-> Arg(w), day |-> day]
    IN  /\ call[w].phase = "effect" /\ Op(w) = "notify"
        /\ \/ /\ row \notin db.outbox
              /\ Committed(w, [db EXCEPT !.outbox = @ \cup {row}], "key", Result("done", 0))
           \/ /\ row \in db.outbox /\ row \in Snapshot(w).outbox
              /\ Committed(w, db, "key", Result("repeated", 0))
           \/ /\ row \in db.outbox /\ row \notin Snapshot(w).outbox
              /\ ToolFailed(w)

\* The end of once: the key and its result are inserted and committed, unless
\* the key is there by now.
StoreKey(w) ==
    LET k == call[w].key IN
    /\ call[w].phase = "key"
    /\ \/ /\ db.idempotency[k] = NULL
          /\ db' = [db EXCEPT !.idempotency[k] = call[w].result]
          /\ call' = [call EXCEPT ![w] = NoCall]
          /\ CloseView(w)
          /\ UNCHANGED <<day, effects>>
       \/ /\ db.idempotency[k] # NULL
          /\ ToolFailed(w)

-----------------------------------------------------------------------------

\* The process dies and is started again: nothing of its connection is left.
CrashCall(w) ==
    /\ call[w].phase # "idle" \/ view[w] # NULL
    /\ ToolFailed(w)

NextDay ==
    /\ day < MaxDay
    /\ day' = day + 1
    /\ UNCHANGED <<db, view, call, effects>>

SupportInit ==
    /\ db = [ticket |-> <<>>, assignment |-> {}, escalation |-> {}, outbox |-> {},
             idempotency |-> [k \in Keys |-> NULL]]
    /\ view = [w \in Workers |-> NULL]
    /\ call = [w \in Workers |-> NoCall]
    /\ day = 1
    /\ effects = [k \in Keys |-> 0]

Effect(w) ==
    \/ CreateTicket(w) \/ CreateDeadlock(w) \/ FindTicket(w)
    \/ AssignModerator(w) \/ EscalateTicket(w) \/ NotifyUser(w)

SupportNext ==
    \/ \E w \in Workers :
          \/ Browse(w)
          \/ \E k \in Keys : OnceReplay(w, k) \/ OnceBegin(w, k)
          \/ Effect(w)
          \/ StoreKey(w)
          \/ CrashCall(w)
    \/ NextDay

SupportSpec == SupportInit /\ [][SupportNext]_supportVars

-----------------------------------------------------------------------------
(* Properties.                                                             *)

\* One open ticket per account and issue type, whatever calls race, are
\* repeated or were counted in an old snapshot.
OneOpenPerType ==
    \A a \in Accounts, type \in Types : Cardinality(OpenOfType(db, a, type)) <= 1

(***************************************************************************)
(* The status of a ticket and the tables agree: escalated exactly when it  *)
(* has an escalation, assigned exactly when it has an assignment and none, *)
(* in whatever order the two are made.                                     *)
(***************************************************************************)
StatusMatchesTables ==
    \A i \in DOMAIN db.ticket :
        db.ticket[i].status = IF i \in db.escalation THEN "escalated"
                              ELSE IF i \in db.assignment THEN "assigned" ELSE "open"

(***************************************************************************)
(* What is left of the cap when it is counted in snapshots: a connection   *)
(* counts its own inserts, so once the cap is reached every other one can  *)
(* add at most one more ticket.                                            *)
(***************************************************************************)
CapOvershootBounded ==
    \A a \in Accounts : Cardinality(TicketsOf(db, a)) <= Cap + Cardinality(Workers) - 1

\* What the call of k was answered is so, as far as the tables can tell.
IsTrue(k, result) ==
    LET mine == TicketsOf(db, AccountOf[k])
        arg == CallOf[k].arg
        has == CASE CallOf[k].op = "assign" -> arg \in db.assignment \cap DOMAIN db.ticket
                 [] CallOf[k].op = "escalate" -> arg \in db.escalation \cap DOMAIN db.ticket
                 [] OTHER -> \E row \in db.outbox : row.account = AccountOf[k] /\ row.message = arg
    IN  CASE result.status = "created" ->
                 /\ effects[k] > 0
                 /\ result.id \in mine
                 /\ \E i \in mine : i <= result.id /\ db.ticket[i].type = arg
          [] result.status = "already_open" -> result.id \in mine /\ db.ticket[result.id].type = arg
          [] result.status = "done" -> effects[k] > 0 /\ has
          [] result.status = "repeated" -> has
          [] result.status = "invalid" -> effects[k] = 0
          [] OTHER -> Cardinality(mine) >= Cap

(***************************************************************************)
(* A stored result is true whenever it is replayed: the change it reports  *)
(* has been made, or had been made before, and a refusal for the cap is of *)
(* an account that has as many tickets as that, however old the snapshot   *)
(* they were counted in.  The ticket that create_ticket names belongs to   *)
(* the account, and is of the type that is said to be open; the id after   *)
(* `created` is looked up later and may be another worker's newer ticket,  *)
(* but never one older than the call's own.  The ticket of an assignment   *)
(* or escalation exists and has been assigned or escalated; whose it is    *)
(* the tools do not ask, and nothing is said of it.                        *)
(***************************************************************************)
StoredResultsAreTrue ==
    \A k \in Keys : db.idempotency[k] # NULL => IsTrue(k, db.idempotency[k])

-----------------------------------------------------------------------------
(* What the repository says and the code does not do.                      *)

\* once: "Run a side effect at most once per idempotency key; effect and key
\* commit together."
AtMostOncePerKey == \A k \in Keys : effects[k] <= 1

\* README: "A cap on total open tickets per user. Enforced by the policy table
\* and checked inside create_ticket".
CapIsRespected == \A a \in Accounts : Cardinality(TicketsOf(db, a)) <= Cap
=============================================================================
