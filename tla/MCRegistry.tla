----------------------------- MODULE MCRegistry -----------------------------
(* Instances of Registry for TLC.                                          *)
EXTENDS Registry

CONSTANTS h1, h2, e1, e2, qa1

(* Both hosts were given one name.                                         *)
SharedName == [h \in Host |-> qa1]
=============================================================================
