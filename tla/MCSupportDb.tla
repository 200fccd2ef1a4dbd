---------------------------- MODULE MCSupportDb -----------------------------
(* Two accounts and two connections; a handful of calls that touch the     *)
(* same tickets.                                                           *)
EXTENDS SupportDb, TLC

CONSTANTS spam, abuse, dm, me, you

\* The assignment and the escalation are asked for by runs of the other account.
MCAccountOf == [k \in Keys |-> IF k \in {"a1", "e1"} THEN you ELSE me]

\* Two runs open tickets of different types; the first ticket is assigned and
\* escalated; a message is sent; a type is unknown.
Calls == [c1 |-> [op |-> "create", arg |-> spam],
          c3 |-> [op |-> "create", arg |-> abuse],
          a1 |-> [op |-> "assign", arg |-> 1],
          e1 |-> [op |-> "escalate", arg |-> 1],
          n1 |-> [op |-> "notify", arg |-> dm],
          x1 |-> [op |-> "create", arg |-> NULL]]
MCCallOf == [k \in Keys |-> Calls[k]]

\* Messages and days touch no row the other calls read: they are explored in
\* the behaviours without tickets.
Apart == db.ticket = <<>> \/ (db.outbox = {} /\ day = 1)

Symmetry == Permutations(Workers)
=============================================================================
