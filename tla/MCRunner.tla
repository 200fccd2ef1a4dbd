------------------------------ MODULE MCRunner ------------------------------
(* Instances of the workers on a small number of runs of one conversation. *)
EXTENDS Runner, TLC

CONSTANT t1

MCThreads == {t1}
MCThreadOf == [r \in Runs |-> t1]

\* Runs, workers and calls are each interchangeable.
Symmetry == Permutations(Runs) \cup Permutations(Workers) \cup Permutations(Calls)
=============================================================================
