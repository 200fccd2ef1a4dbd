---------------------------- MODULE MCDelegation ----------------------------
(* One delegation to each specialist and two workers; the one that changes  *)
(* data is executed twice.                                                 *)
EXTENDS Delegation

CONSTANTS spam, dm, me, ask, look

MCAgentOf == [p \in Parents |-> IF p = ask THEN "resolution" ELSE "triage"]

create == [op |-> "create", arg |-> spam]
notify == [op |-> "notify", arg |-> dm]
lookup == [op |-> "lookup", arg |-> me]

MCMaxPasses == [p \in Parents |-> IF p = ask THEN 2 ELSE 1]

MCLookups == {lookup}
MCWrites == {create, notify}
MCKeys == [parent : Resolutions, seq : 2 .. MaxSeq, call : MCWrites]
MCCallOf == [k \in Keys |-> k.call]
MCAccountOf == [k \in Keys |-> me]

\* Two writes, the same one twice, and a tool that one specialist has.
MCTurns == {<<create, notify>>, <<notify, notify>>, <<lookup>>}
=============================================================================
