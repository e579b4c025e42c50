----------------------------- MODULE MCJobStore -----------------------------
(* Instances of JobStore for TLC.                                          *)
EXTENDS JobStore, TLC

CONSTANTS j1, j2, j3, r1, r2, web, api, qa, ch1

Ask(p) == [product |-> p, server |-> qa, channel |-> ch1]

(* Two runs of one suite and one of another, all asked for in one channel. *)
OneChannel == j1 :> Ask(web) @@ j2 :> Ask(web) @@ j3 :> Ask(api)

(* The test servers are interchangeable, and so are the two runs j1 and j2 *)
(* of OneChannel, which ask for the same thing.                            *)
Symmetry == Permutations({r1, r2}) \cup Permutations({j1, j2})
=============================================================================
