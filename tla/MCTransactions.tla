--------------------------- MODULE MCTransactions ---------------------------
(* Transactions with finite sets of threads, for TLC.                      *)
EXTENDS Transactions, TLC

\* Threads are interchangeable.
Threads == Permutations(Callers)
=============================================================================
