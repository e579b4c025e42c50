--------------------------- MODULE MCPostgresStore --------------------------
(* Instances of PostgresStore for TLC.                                     *)
EXTENDS PostgresStore, TLC

CONSTANTS j1, j2, j3, j4, r1, r2, s1, s2, web, qa, ch1

(* Every run asks for the same suite in the same channel.                  *)
OneSuite == [j \in JobId |-> [product |-> web, server |-> qa, channel |-> ch1]]

(* So the runs are interchangeable, and sessions and test servers are.     *)
Symmetry == Permutations(JobId) \cup Permutations(Runner) \cup Permutations(Session)
=============================================================================
