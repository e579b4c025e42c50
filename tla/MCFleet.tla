------------------------------ MODULE MCFleet -------------------------------
(* Instances of Fleet for TLC.                                             *)
EXTENDS Fleet, TLC

CONSTANTS j1, j2, r1, r2, web, qa, ch1

Ask == [product |-> web, server |-> qa, channel |-> ch1]

OneRun  == j1 :> Ask
TwoRuns == j1 :> Ask @@ j2 :> Ask

AnyServer == [r \in Runner |-> {}]

Symmetry == Permutations({r1, r2})
=============================================================================
