----------------------------- MODULE MCRunStore -----------------------------
(* Instances of the queue whose runs all belong to one conversation.       *)
EXTENDS RunStore, TLC

CONSTANT t1

MCThreads == {t1}
MCThreadOf == [r \in Runs |-> t1]

\* The runs share the thread, and so are interchangeable; so are the workers.
Symmetry == Permutations(Runs) \cup Permutations(Workers)
=============================================================================
