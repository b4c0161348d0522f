--------------------------- MODULE MCTempLogStore ---------------------------
(* TempLogStore on small instances: two logs, a few seqs, short batches.     *)
EXTENDS TempLogStore

\* Nothing tells one log from another.
LogSymmetry == Permutations(Logs)
=============================================================================
