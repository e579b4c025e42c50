---------------------------- MODULE MCStandalone ----------------------------
(* Instances of Standalone for TLC.                                        *)
EXTENDS Standalone, TLC

CONSTANTS j1, j2, web, qa, ch1

Ask == [product |-> web, server |-> qa, channel |-> ch1]

TwoCommands == j1 :> Ask @@ j2 :> Ask

Symmetry == Permutations(JobId)
=============================================================================
