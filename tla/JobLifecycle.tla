---------------------------- MODULE JobLifecycle ----------------------------
(***************************************************************************)
(* What the queue promises about a run, with no table, lease or clock: an  *)
(* accepted run is always waiting, held by exactly one test server, or     *)
(* over; it is handed out at most MaxAttempts times; what is over stays    *)
(* over; and a run this process dispatched is never handed out.  This is   *)
(* the module docstring of store/base.py and the docstrings of JobStore's  *)
(* abstract methods, stated as a state machine that every backend is to    *)
(* implement.                                                              *)
(***************************************************************************)
EXTENDS Naturals

CONSTANTS JobId, Runner, MaxAttempts, NULL

VARIABLES
  phase,   \* where each run is
  holder,  \* the test server that holds it, or NULL
  tries    \* how many times it has been handed out

lifecycle == <<phase, holder, tries>>

Phase == {"unknown", "waiting", "held", "dispatched", "over"}

Init ==
  /\ phase = [j \in JobId |-> "unknown"]
  /\ holder = [j \in JobId |-> NULL]
  /\ tries = [j \in JobId |-> 0]

(* A run is asked for once.                                                *)
Accept(j) ==
  /\ phase[j] = "unknown"
  /\ \E p \in {"waiting", "dispatched"} : phase' = [phase EXCEPT ![j] = p]
  /\ UNCHANGED <<holder, tries>>

(* The runs E are taken back from whoever holds them, each to wait again   *)
(* or, out of attempts, to be over.                                        *)
TakenBack(E) ==
  [j \in JobId |-> IF j \notin E THEN phase[j]
                   ELSE IF tries[j] < MaxAttempts THEN "waiting" ELSE "over"]

TakeBack(E) ==
  /\ \A j \in E : phase[j] = "held"
  /\ phase' = TakenBack(E)
  /\ holder' = [j \in JobId |-> IF j \in E THEN NULL ELSE holder[j]]
  /\ UNCHANGED tries

(* Taking back E and handing one waiting run to r is one step.             *)
HandOut(E, j, r) ==
  /\ \A e \in E : phase[e] = "held"
  /\ TakenBack(E)[j] = "waiting"
  /\ phase' = [TakenBack(E) EXCEPT ![j] = "held"]
  /\ holder' = [k \in JobId |-> IF k = j THEN r
                                ELSE IF k \in E THEN NULL ELSE holder[k]]
  /\ tries' = [tries EXCEPT ![j] = tries[j] + 1]

(* A result, from the test server that holds the run.                      *)
Report(j) ==
  /\ phase[j] = "held"
  /\ phase' = [phase EXCEPT ![j] = "over"]
  /\ holder' = [holder EXCEPT ![j] = NULL]
  /\ UNCHANGED tries

(* A run nobody holds turns out never to have been dispatched.             *)
NeverDispatched(j) ==
  /\ phase[j] \in {"waiting", "dispatched"}
  /\ phase' = [phase EXCEPT ![j] = "over"]
  /\ UNCHANGED <<holder, tries>>

Next ==
  \/ \E j \in JobId : Accept(j) \/ Report(j) \/ NeverDispatched(j)
  \/ \E E \in SUBSET JobId :
       \/ TakeBack(E)
       \/ \E j \in JobId, r \in Runner : HandOut(E, j, r)

Spec == Init /\ [][Next]_lifecycle
=============================================================================
