--------------------------- MODULE MCTransactions ---------------------------
(* One thread that serves requests and one that only queries, so that the    *)
(* routing counters are shared.  Four statuses let a request commit a status *)
(* that joined a forgotten transaction while another one is in progress.     *)
EXTENDS Transactions, TLC

StatusSymmetry == Permutations(Statuses)
=============================================================================
