------------------------------ MODULE Registry ------------------------------
(***************************************************************************)
(* Which test servers the edges know: enrolment and the runners table      *)
(* (enroll and _authenticate of app.py, auth.py, the runners of the two    *)
(* stores, run_forever of agent.py).                                       *)
(*                                                                         *)
(* A host makes a key when it first starts and enrols under the name it is *)
(* configured with; two hosts can have been given one name.  An edge       *)
(* decides about an enrolment on what it reads and writes the row in a     *)
(* second statement, so edges that share a store can decide at once.  From *)
(* then on a call is its sender's if the row of its name holds the key it  *)
(* is signed with.                                                         *)
(*                                                                         *)
(* Time is counted in heartbeat intervals, as in Fleet: a heartbeat that   *)
(* hangs is missed in every interval it spans.                             *)
(***************************************************************************)
EXTENDS Naturals

CONSTANTS
  Host,          \* machines that run a test server
  RunnerId,      \* the names test servers have
  Name,          \* the name each host is configured with
  Edge,          \* edge processes that share the store
  Token,         \* is there an enrolment token, known to the hosts?
  OfflineAfter,  \* heartbeat intervals in offline_after
  MaxKeys,       \* bound: keys one host makes
  Faults,        \* which of the faults below can happen
  NULL

ASSUME RegistryAssumption ==
  /\ Name \in [Host -> RunnerId]
  /\ Token \in BOOLEAN
  /\ OfflineAfter \in Nat \ {0}
  /\ MaxKeys \in Nat \ {0}
  /\ Faults \subseteq {"host crash", "key lost", "edge crash", "store lost",
                       "enrolment reply lost", "heartbeat lost"}

VARIABLES
  file,      \* the key in the <runner_id>.pub file of each name, if it has one
  runner,    \* the runners table: key and intervals since last_seen, if known
  accepted,  \* the enrolment each edge has decided to accept and not yet written
  host,      \* what each host's test server is doing
  serial,    \* which of its keys each host has
  due,       \* hosts no heartbeat of which has arrived in this interval
  missed,    \* intervals in a row in which none did, up to OfflineAfter
  stranded   \* history: enrolled hosts whose row was lost or overtaken

vars == <<file, runner, accepted, host, serial, due, missed, stranded>>

Key == Host \X (1..MaxKeys)

Row == [key : Key, seen : 0..(OfflineAfter + 1)]

Acceptance == [host : Host, key : Key, read : Key \cup {NULL}]

ASSUME NullAssumption == NULL \notin Key /\ NULL \notin Row /\ NULL \notin Acceptance

KeyOf(h) == <<h, serial[h]>>

Known(id) == runner[id] # NULL

(* The key a name is known by.                                             *)
Registered(id) == IF Known(id) THEN runner[id].key ELSE NULL

(* _authenticate: the row of the name holds the key the call is signed by. *)
Recognised(h) == Registered(Name[h]) = KeyOf(h)

(* runner_view                                                             *)
Online(id) == Known(id) /\ runner[id].seen <= OfflineAfter

(* Mutant: the heartbeat thread starts before the enrolment.               *)
StartedOrIn == {h \in Host : host[h] # "off"}

(* Test servers past their enrolment.                                      *)
In == {h \in Host : host[h] = "in"}

Init ==
  /\ file = [id \in RunnerId |-> NULL]
  /\ runner = [id \in RunnerId |-> NULL]
  /\ accepted = [e \in Edge |-> NULL]
  /\ host = [h \in Host |-> "off"]
  /\ serial = [h \in Host |-> 1]
  /\ due = {}
  /\ missed = [h \in Host |-> 0]
  /\ stranded = {}
-----------------------------------------------------------------------------
(* run_forever: a test server starts and tries to enrol until it succeeds. *)
Start(h) ==
  /\ host[h] = "off"
  /\ host' = [host EXCEPT ![h] = "enrolling"]
  /\ UNCHANGED <<file, runner, accepted, serial, due, missed, stranded>>

(* Mutant: a name that is known may come with another key.                 *)
AnyKeyWelcome(h) ==
  LET id == Name[h]
  IN  IF Known(id) THEN TRUE
      ELSE IF file[id] # NULL THEN file[id] = KeyOf(h)
      ELSE Token

(* enroll: a name that is known needs the key it is known by, one with a   *)
(* file the key in the file, any other the token.                          *)
Welcome(h) ==
  LET id == Name[h]
  IN  IF Known(id) THEN Registered(id) = KeyOf(h)
      ELSE IF file[id] # NULL THEN file[id] = KeyOf(h)
      ELSE Token

(* Mutant: a test server that is known is not enrolled again.              *)
DecideUnknown(e, h) ==
  /\ accepted[e] = NULL
  /\ host[h] = "enrolling"
  /\ Welcome(h) /\ ~Known(Name[h])
  /\ accepted' = [accepted EXCEPT ![e] = [host |-> h, key |-> KeyOf(h), read |-> NULL]]
  /\ UNCHANGED <<file, runner, host, serial, due, missed, stranded>>

(* An edge reads what it decides on.  A refusal is a 401, and is tried     *)
(* again later; an edge decides about one request at a time, because       *)
(* nothing in the handler waits between its two statements.                *)
Decide(e, h) ==
  /\ accepted[e] = NULL
  /\ host[h] = "enrolling"
  /\ Welcome(h)
  /\ accepted' = [accepted EXCEPT ![e] =
       [host |-> h, key |-> KeyOf(h), read |-> Registered(Name[h])]]
  /\ UNCHANGED <<file, runner, host, serial, due, missed, stranded>>

(* Hosts whose row was written after what this enrolment was decided on,   *)
(* and now goes to its key.                                                *)
Overtaken(a) ==
  {h \in In : Name[h] = Name[a.host] /\ Recognised(h) /\ KeyOf(h) \notin {a.key, a.read}}

(* The upsert of store.enrol, and the reply: it is heard, or it is lost or *)
(* comes to a host that has given up waiting for it.                       *)
Write(e, heard) ==
  LET a == accepted[e]
      id == Name[a.host]
  IN  /\ a # NULL
      /\ accepted' = [accepted EXCEPT ![e] = NULL]
      /\ runner' = [runner EXCEPT ![id] = [key |-> a.key, seen |-> 0]]
      /\ stranded' = stranded \cup Overtaken(a)
      /\ IF heard /\ host[a.host] = "enrolling" /\ KeyOf(a.host) = a.key
         THEN /\ host' = [host EXCEPT ![a.host] = "in"]
              /\ missed' = [missed EXCEPT ![a.host] = 0]
         ELSE UNCHANGED <<host, missed>>
      /\ UNCHANGED <<file, serial, due>>

Enrol(e) ==
  \E heard \in BOOLEAN :
    /\ ~heard => "enrolment reply lost" \in Faults
    /\ Write(e, heard)
-----------------------------------------------------------------------------
(* Mutant: a call does not say that its sender is there.                   *)
UntouchedBy(h) == runner

(* A call that is recognised marks its sender seen (touch).                *)
TouchedBy(h) ==
  IF Recognised(h) THEN [runner EXCEPT ![Name[h]].seen = 0] ELSE runner

(* A claim, started or a result, recognised or answered 401.               *)
Call(h) ==
  /\ host[h] = "in"
  /\ runner' = TouchedBy(h)
  /\ UNCHANGED <<file, accepted, host, serial, due, missed, stranded>>

(* The heartbeat thread; a heartbeat that fails is not repeated.           *)
Beat(h) ==
  /\ h \in due
  /\ due' = due \ {h}
  /\ \/ /\ runner' = TouchedBy(h)
        /\ missed' = [missed EXCEPT ![h] = 0]
     \/ /\ "heartbeat lost" \in Faults
        /\ missed' = [missed EXCEPT ![h] =
             IF missed[h] < OfflineAfter THEN missed[h] + 1 ELSE missed[h]]
        /\ UNCHANGED runner
  /\ UNCHANGED <<file, accepted, host, serial, stranded>>

Older(row) ==
  IF row # NULL /\ row.seen <= OfflineAfter THEN [row EXCEPT !.seen = row.seen + 1] ELSE row

Tick ==
  /\ due = {}
  /\ due' = In
  /\ runner' = [id \in RunnerId |-> Older(runner[id])]
  /\ UNCHANGED <<file, accepted, host, serial, missed, stranded>>
-----------------------------------------------------------------------------
(* The process of a test server ends.                                      *)
Stop(h) ==
  /\ "host crash" \in Faults
  /\ host[h] # "off"
  /\ host' = [host EXCEPT ![h] = "off"]
  /\ due' = due \ {h}
  /\ missed' = [missed EXCEPT ![h] = 0]
  /\ stranded' = stranded \ {h}
  /\ UNCHANGED <<file, runner, accepted, serial>>

(* load_or_create: a host that lost its key file makes another key.        *)
LoseKey(h) ==
  /\ "key lost" \in Faults
  /\ host[h] = "off"
  /\ serial[h] < MaxKeys
  /\ serial' = [serial EXCEPT ![h] = serial[h] + 1]
  /\ UNCHANGED <<file, runner, accepted, host, due, missed, stranded>>

(* An edge ends between its two statements.                                *)
EdgeStops(e) ==
  /\ "edge crash" \in Faults
  /\ accepted[e] # NULL
  /\ accepted' = [accepted EXCEPT ![e] = NULL]
  /\ UNCHANGED <<file, runner, host, serial, due, missed, stranded>>

(* The edges are deployed again, and the file their store was goes with    *)
(* them.                                                                   *)
Redeploy ==
  /\ "store lost" \in Faults
  /\ \E id \in RunnerId : Known(id)
  /\ runner' = [id \in RunnerId |-> NULL]
  /\ accepted' = [e \in Edge |-> NULL]
  /\ stranded' = In
  /\ UNCHANGED <<file, host, serial, due, missed>>

(* The operator puts a host's key into the directory of trusted keys, or   *)
(* deletes the file.                                                       *)
Authorise(h) ==
  /\ file' = [file EXCEPT ![Name[h]] = KeyOf(h)]
  /\ UNCHANGED <<runner, accepted, host, serial, due, missed, stranded>>

DeleteFile(id) ==
  /\ file' = [file EXCEPT ![id] = NULL]
  /\ UNCHANGED <<runner, accepted, host, serial, due, missed, stranded>>

Next ==
  \/ \E h \in Host :
       \/ Start(h) \/ Stop(h) \/ LoseKey(h) \/ Call(h) \/ Beat(h) \/ Authorise(h)
       \/ \E e \in Edge : Decide(e, h)
  \/ \E e \in Edge : Enrol(e) \/ EdgeStops(e)
  \/ \E id \in RunnerId : DeleteFile(id)
  \/ Redeploy
  \/ Tick

(* A test server goes on trying to enrol, an edge finishes what it has     *)
(* begun, and not every request and reply is lost.                         *)
Fairness ==
  /\ \A h \in Host : SF_vars(\E e \in Edge : Decide(e, h))
  /\ \A e \in Edge : SF_vars(Write(e, TRUE))

Spec == Init /\ [][Next]_vars
FairSpec == Spec /\ Fairness
-----------------------------------------------------------------------------
(* The types of the registry's state.                                      *)
TypeOK ==
  /\ file \in [RunnerId -> Key \cup {NULL}]
  /\ runner \in [RunnerId -> Row \cup {NULL}]
  /\ accepted \in [Edge -> Acceptance \cup {NULL}]
  /\ host \in [Host -> {"off", "enrolling", "in"}]
  /\ serial \in [Host -> 1..MaxKeys]
  /\ due \subseteq {h \in Host : host[h] = "in"}
  /\ missed \in [Host -> 0..OfflineAfter]
  /\ stranded \subseteq Host

(* A test server that has enrolled goes on being recognised: the file of   *)
(* its name may change or go, its name may be tried by another host or by  *)
(* its own former self, edges may end half-way.  Only a store that is lost *)
(* or an enrolment decided before its own was written takes its row.       *)
StaysKnown == \A h \in In \ stranded : Recognised(h)

(* A test server in contact is never shown offline: as long as it is       *)
(* recognised, it takes an offline_after in none of whose intervals a      *)
(* heartbeat arrives (_heartbeat_loop, touch, runner_view).                *)
ContactIsOnline ==
  \A h \in In : Recognised(h) /\ missed[h] < OfflineAfter => Online(Name[h])

(* Retrying is enough: a test server that keeps running and is welcome     *)
(* from some time on gets in, whatever was lost on the way (run_forever).  *)
EveryServerGetsIn ==
  \A h \in Host :
    <>[](host[h] # "off" /\ Welcome(h)) => <>[](host[h] = "in")
=============================================================================
