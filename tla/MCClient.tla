------------------------------ MODULE MCClient ------------------------------
(* The queue with the processes that ask, on one conversation.             *)
EXTENDS Client, TLC

CONSTANT t1

MCThreads == {t1}
MCThreadOf == [r \in Runs |-> t1]

Symmetry == Permutations(Runs) \cup Permutations(Workers)
=============================================================================
