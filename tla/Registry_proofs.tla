--------------------------- MODULE Registry_proofs --------------------------
(***************************************************************************)
(* What holds of the runners table for any hosts, names, keys and edges.   *)
(*                                                                         *)
(* StaysKnown is not inductive: an edge that has decided on an enrolment   *)
(* may write it at any later time.  It becomes so with what the decision   *)
(* leaves behind: an edge that read a row has accepted no key but the one  *)
(* it read.  ContactIsOnline needs to know how old a row is at any moment: *)
(* no older than the heartbeats its host has missed, and the one it is     *)
(* about to send.                                                          *)
(***************************************************************************)
EXTENDS Registry, TLAPS

SameKeyAgain ==
  \A e \in Edge : accepted[e] # NULL => accepted[e].read \in {NULL, accepted[e].key}

Expecting(h) == IF h \in due THEN 1 ELSE 0

SeenLately ==
  \A h \in In :
    Recognised(h) /\ missed[h] < OfflineAfter => runner[Name[h]].seen <= missed[h] + Expecting(h)

IInv == TypeOK /\ SameKeyAgain /\ StaysKnown /\ SeenLately
-----------------------------------------------------------------------------
(* What the proofs use of the assumption on the constants.                 *)
LEMMA Bounds ==
  /\ Name \in [Host -> RunnerId]
  /\ OfflineAfter \in Nat /\ OfflineAfter # 0
  /\ MaxKeys \in Nat /\ MaxKeys # 0
BY RegistryAssumption

(* What a test server is recognised by.                                    *)
LEMMA KeyTypes ==
  ASSUME TypeOK, NEW h \in Host
  PROVE  KeyOf(h) \in Key /\ KeyOf(h) # NULL /\ Name[h] \in RunnerId
<1>1. serial[h] \in 1..MaxKeys
  BY DEF TypeOK
<1>2. KeyOf(h) \in Key
  BY <1>1 DEF KeyOf, Key
<1>. QED
  BY <1>2, Bounds, NullAssumption

(* A recognised test server has a row, and it holds its key.               *)
LEMMA RecognisedRow ==
  ASSUME TypeOK, NEW h \in Host, Recognised(h)
  PROVE  runner[Name[h]] \in Row /\ runner[Name[h]].key = KeyOf(h)
BY KeyTypes DEF TypeOK, Recognised, Registered, Known

(* The empty registry.                                                     *)
LEMMA InitIInv == Init => IInv
<1>. SUFFICES ASSUME Init PROVE IInv
  OBVIOUS
<1>1. In = {}
  BY DEF Init, In
<1>2. 1 \in 1..MaxKeys /\ 0 \in 0..OfflineAfter
  BY Bounds
<1>3. serial \in [Host -> 1..MaxKeys] /\ missed \in [Host -> 0..OfflineAfter]
  BY <1>2 DEF Init
<1>4. /\ file \in [RunnerId -> Key \cup {NULL}]
      /\ runner \in [RunnerId -> Row \cup {NULL}]
      /\ accepted \in [Edge -> Acceptance \cup {NULL}]
      /\ host \in [Host -> {"off", "enrolling", "in"}]
  BY DEF Init
<1>5. TypeOK
  BY <1>3, <1>4 DEF Init, TypeOK
<1>6. SameKeyAgain /\ StaysKnown /\ SeenLately
  BY <1>1 DEF Init, SameKeyAgain, StaysKnown, SeenLately
<1>. QED
  BY <1>5, <1>6 DEF IInv
-----------------------------------------------------------------------------
(* A call marks at most its own sender seen: whose key a row holds stays.  *)
LEMMA TouchKeepsKeys ==
  ASSUME TypeOK, NEW h \in Host
  PROVE  /\ TouchedBy(h) \in [RunnerId -> Row \cup {NULL}]
         /\ \A id \in RunnerId :
              /\ (TouchedBy(h)[id] = NULL) <=> (runner[id] = NULL)
              /\ runner[id] # NULL =>
                   /\ TouchedBy(h)[id].key = runner[id].key
                   /\ TouchedBy(h)[id].seen \in {runner[id].seen, 0}
         /\ Recognised(h) => TouchedBy(h)[Name[h]].seen = 0
<1>1. CASE ~Recognised(h)
  BY <1>1 DEF TouchedBy, TypeOK
<1>2. CASE Recognised(h)
  <2>1. runner[Name[h]] \in Row /\ Name[h] \in RunnerId
    BY <1>2, RecognisedRow, KeyTypes
  <2>2. 0 \in 0..(OfflineAfter + 1)
    BY Bounds
  <2>. DEFINE row == [runner[Name[h]] EXCEPT !.seen = 0]
  <2>3. row \in Row /\ row.key = runner[Name[h]].key /\ row.seen = 0
    BY <2>1, <2>2 DEF Row
  <2>4. TouchedBy(h) = [runner EXCEPT ![Name[h]] = row]
    BY <1>2 DEF TouchedBy
  <2>5. row # NULL /\ runner[Name[h]] # NULL
    BY <2>1, <2>3, NullAssumption
  <2>. HIDE DEF row
  <2>. QED
    BY <2>1, <2>3, <2>4, <2>5 DEF TypeOK
<1>. QED
  BY <1>1, <1>2

(* An interval ages a row and changes nothing else of it.                  *)
LEMMA OlderRow ==
  ASSUME NEW row \in Row \cup {NULL}
  PROVE  /\ Older(row) \in Row \cup {NULL}
         /\ (Older(row) = NULL) <=> (row = NULL)
         /\ row # NULL => Older(row).key = row.key /\ Older(row).seen <= row.seen + 1
<1>1. CASE row # NULL /\ row.seen <= OfflineAfter
  <2>1. row.seen \in 0..(OfflineAfter + 1) /\ row.seen + 1 \in 0..(OfflineAfter + 1)
    BY <1>1, Bounds DEF Row
  <2>2. Older(row) = [row EXCEPT !.seen = row.seen + 1]
    BY <1>1 DEF Older
  <2>3. Older(row) \in Row /\ Older(row).key = row.key /\ Older(row).seen = row.seen + 1
    BY <1>1, <2>1, <2>2 DEF Row
  <2>. QED
    BY <1>1, <2>1, <2>3, NullAssumption
<1>2. CASE ~(row # NULL /\ row.seen <= OfflineAfter)
  <2>1. Older(row) = row
    BY <1>2 DEF Older
  <2>2. row # NULL => row.seen <= row.seen + 1
    BY Bounds DEF Row
  <2>. QED
    BY <2>1, <2>2
<1>. QED
  BY <1>1, <1>2

(* Steps that touch no row, and no test server that stays enrolled.        *)
LEMMA RowsAlone ==
  ASSUME TypeOK, StaysKnown, SeenLately,
         runner' = runner, In' \subseteq In, stranded' \cap In' = stranded \cap In',
         \A g \in In' : /\ serial'[g] = serial[g]
                        /\ missed'[g] = missed[g]
                        /\ g \in due' <=> g \in due
  PROVE  StaysKnown' /\ SeenLately'
<1>1. ASSUME NEW g \in In' PROVE Recognised(g)' = Recognised(g) /\ Expecting(g)' = Expecting(g)
  BY <1>1 DEF Recognised, Registered, Known, KeyOf, Expecting
<1>2. StaysKnown'
  BY <1>1 DEF StaysKnown
<1>3. SeenLately'
  BY <1>1 DEF SeenLately
<1>. QED
  BY <1>2, <1>3

(* Steps that leave the table of acceptances alone.                        *)
LEMMA AcceptedAlone ==
  ASSUME SameKeyAgain, accepted' = accepted
  PROVE  SameKeyAgain'
BY DEF SameKeyAgain
-----------------------------------------------------------------------------
LEMMA StartStep ==
  ASSUME IInv, NEW h \in Host, Start(h)
  PROVE  IInv'
<1>1. TypeOK'
  BY DEF IInv, TypeOK, Start
<1>2. In' = In
  BY DEF IInv, TypeOK, Start, In
<1>3. StaysKnown' /\ SeenLately'
  BY <1>2, RowsAlone DEF IInv, Start
<1>. QED
  BY <1>1, <1>3, AcceptedAlone DEF IInv, Start

(* What an edge has read is the key it accepts, or that there is none.     *)
LEMMA DecideStep ==
  ASSUME IInv, NEW e \in Edge, NEW h \in Host, Decide(e, h)
  PROVE  IInv'
<1>. DEFINE a == [host |-> h, key |-> KeyOf(h), read |-> Registered(Name[h])]
<1>1. Registered(Name[h]) \in {NULL, KeyOf(h)}
  BY DEF Decide, Welcome, Registered
<1>2. a \in Acceptance
  BY <1>1, KeyTypes DEF IInv, Acceptance
<1>3. accepted' = [accepted EXCEPT ![e] = a]
  BY DEF Decide
<1>4. TypeOK'
  BY <1>2, <1>3 DEF IInv, TypeOK, Decide
<1>5. a.read \in {NULL, a.key}
  BY <1>1
<1>6. SameKeyAgain'
  <2>. HIDE DEF a
  <2>. QED BY <1>3, <1>5 DEF IInv, TypeOK, SameKeyAgain
<1>7. StaysKnown' /\ SeenLately'
  BY RowsAlone DEF IInv, Decide, In
<1>. QED
  BY <1>4, <1>6, <1>7 DEF IInv

(* The write of an acceptance: a test server under the same name goes on   *)
(* being recognised, unless it is overtaken.                               *)
LEMMA WriteStep ==
  ASSUME IInv, NEW e \in Edge, NEW heard \in BOOLEAN, Write(e, heard)
  PROVE  IInv'
<1>. DEFINE a == accepted[e]
            id == Name[a.host]
            row == [key |-> a.key, seen |-> 0]
<1>1. a \in Acceptance /\ a # NULL /\ a.read \in {NULL, a.key}
  BY DEF Write, IInv, TypeOK, SameKeyAgain
<1>2. /\ a.host \in Host /\ a.key \in Key
      /\ id \in RunnerId
  BY <1>1, KeyTypes DEF Acceptance, IInv
<1>3. 0 \in 0..(OfflineAfter + 1) /\ 0 \in 0..OfflineAfter
  BY Bounds
<1>4. row \in Row /\ row # NULL /\ row.key = a.key /\ row.seen = 0
  BY <1>2, <1>3, NullAssumption DEF Row
<1>5. /\ runner' = [runner EXCEPT ![id] = row]
      /\ accepted' = [accepted EXCEPT ![e] = NULL]
      /\ stranded' = stranded \cup Overtaken(a)
      /\ UNCHANGED <<file, serial, due>>
      /\ \/ /\ host' = [host EXCEPT ![a.host] = "in"]
            /\ missed' = [missed EXCEPT ![a.host] = 0]
            /\ host[a.host] = "enrolling" /\ KeyOf(a.host) = a.key
         \/ UNCHANGED <<host, missed>>
  BY DEF Write
<1>. HIDE DEF a, id, row
<1>6. TypeOK'
  <2>1. host' \in [Host -> {"off", "enrolling", "in"}] /\ missed' \in [Host -> 0..OfflineAfter]
    BY <1>2, <1>3, <1>5 DEF IInv, TypeOK
  <2>2. due' \subseteq {h \in Host : host'[h] = "in"}
    BY <1>2, <1>5 DEF IInv, TypeOK
  <2>3. runner' \in [RunnerId -> Row \cup {NULL}] /\ accepted' \in [Edge -> Acceptance \cup {NULL}]
    BY <1>2, <1>4, <1>5 DEF IInv, TypeOK
  <2>4. stranded' \subseteq Host
    BY <1>5 DEF IInv, TypeOK, Overtaken, In
  <2>. QED
    BY <1>5, <2>1, <2>2, <2>3, <2>4 DEF IInv, TypeOK
<1>7. SameKeyAgain'
  BY <1>5 DEF IInv, TypeOK, SameKeyAgain
<1>8. \A g \in Host : /\ Name[g] = id => (Recognised(g)' <=> KeyOf(g) = a.key)
                      /\ Name[g] # id => (Recognised(g)' <=> Recognised(g))
  BY <1>2, <1>4, <1>5, Bounds
     DEF IInv, TypeOK, Recognised, Registered, Known, KeyOf
<1>9. \A g \in In' : g \in In \/ (g = a.host /\ KeyOf(a.host) = a.key /\ missed'[g] = 0)
  BY <1>2, <1>5 DEF IInv, TypeOK, In
<1>10. StaysKnown'
  <2>. SUFFICES ASSUME NEW g \in In', g \notin stranded' PROVE Recognised(g)'
    BY DEF StaysKnown
  <2>1. CASE g \notin In
    BY <2>1, <1>2, <1>8, <1>9 DEF id
  <2>2. CASE g \in In
    <3>1. g \in Host /\ Recognised(g) /\ g \notin Overtaken(a)
      BY <2>2, <1>5 DEF IInv, StaysKnown, In
    <3>2. CASE Name[g] # id
      BY <3>1, <3>2, <1>8
    <3>3. CASE Name[g] = id
      <4>1. KeyOf(g) \in {a.key, a.read} /\ KeyOf(g) # NULL
        BY <2>2, <3>1, <3>3, KeyTypes DEF Overtaken, id, IInv
      <4>. QED
        BY <4>1, <3>1, <3>3, <1>1, <1>8
    <3>. QED
      BY <3>2, <3>3
  <2>. QED
    BY <2>1, <2>2
<1>11. SeenLately'
  <2>. SUFFICES ASSUME NEW g \in In', Recognised(g)', missed'[g] < OfflineAfter
                PROVE  runner'[Name[g]].seen <= missed'[g] + Expecting(g)'
    BY DEF SeenLately
  <2>1. g \in Host /\ missed'[g] \in 0..OfflineAfter /\ Expecting(g)' \in {0, 1}
    BY <1>6 DEF TypeOK, In, Expecting
  <2>2. CASE Name[g] = id
    <3>1. runner'[Name[g]].seen = 0
      BY <2>2, <1>2, <1>4, <1>5 DEF IInv, TypeOK
    <3>. QED
      BY <3>1, <2>1, Bounds
  <2>3. CASE Name[g] # id
    <3>1. g \in In /\ missed'[g] = missed[g]
      BY <2>3, <2>1, <1>2, <1>5, <1>9 DEF id, IInv, TypeOK
    <3>2. runner'[Name[g]] = runner[Name[g]] /\ Recognised(g) /\ Expecting(g)' = Expecting(g)
      BY <2>1, <2>3, <1>2, <1>5, <1>8, Bounds DEF IInv, TypeOK, Expecting
    <3>. QED
      BY <3>1, <3>2 DEF IInv, SeenLately
  <2>. QED
    BY <2>2, <2>3
<1>. QED
  BY <1>6, <1>7, <1>10, <1>11 DEF IInv
-----------------------------------------------------------------------------
(* A call changes whose key no row holds, and makes no row older.          *)
LEMMA TouchStep ==
  ASSUME IInv, NEW h \in Host, runner' = TouchedBy(h), UNCHANGED <<serial, host>>
  PROVE  /\ \A g \in Host : Recognised(g)' <=> Recognised(g)
         /\ \A g \in Host : Recognised(g) => runner'[Name[g]].seen \in {runner[Name[g]].seen, 0}
         /\ Recognised(h) => runner'[Name[h]].seen = 0
<1>1. TypeOK
  BY DEF IInv
<1>2. \A g \in Host : Name[g] \in RunnerId
  BY Bounds
<1>3. \A g \in Host : Recognised(g)' <=> Recognised(g)
  BY <1>1, <1>2, TouchKeepsKeys DEF Recognised, Registered, Known, KeyOf
<1>4. \A g \in Host : Recognised(g) => runner[Name[g]] # NULL
  BY <1>1, RecognisedRow, NullAssumption
<1>. QED
  BY <1>1, <1>2, <1>3, <1>4, TouchKeepsKeys

LEMMA CallStep ==
  ASSUME IInv, NEW h \in Host, Call(h)
  PROVE  IInv'
<1>1. TypeOK'
  BY TouchKeepsKeys DEF IInv, TypeOK, Call
<1>2. In' = In /\ (\A g \in Host : Recognised(g)' <=> Recognised(g))
  BY TouchStep DEF Call, In
<1>3. StaysKnown'
  BY <1>2 DEF IInv, StaysKnown, Call, In
<1>4. SeenLately'
  <2>. SUFFICES ASSUME NEW g \in In, Recognised(g), missed[g] < OfflineAfter
                PROVE  runner'[Name[g]].seen <= missed[g] + Expecting(g)
    BY <1>2 DEF SeenLately, Call, Expecting, In
  <2>1. g \in Host /\ missed[g] \in Nat /\ Expecting(g) \in {0, 1}
    BY Bounds DEF IInv, TypeOK, In, Expecting
  <2>2. runner'[Name[g]].seen \in {runner[Name[g]].seen, 0}
    BY <2>1, TouchStep DEF Call
  <2>3. runner[Name[g]].seen <= missed[g] + Expecting(g)
    BY DEF IInv, SeenLately
  <2>. QED
    BY <2>1, <2>2, <2>3
<1>. QED
  BY <1>1, <1>3, <1>4, AcceptedAlone DEF IInv, Call

(* A heartbeat that arrives makes its sender's row new; one that is lost   *)
(* is counted as missed.                                                   *)
LEMMA BeatStep ==
  ASSUME IInv, NEW h \in Host, Beat(h)
  PROVE  IInv'
<1>1. h \in due /\ due' = due \ {h} /\ UNCHANGED <<file, accepted, host, serial, stranded>>
  BY DEF Beat
<1>2. h \in In /\ In' = In
  BY <1>1 DEF IInv, TypeOK, In
<1>3. CASE runner' = TouchedBy(h) /\ missed' = [missed EXCEPT ![h] = 0]
  <2>1. 0 \in 0..OfflineAfter
    BY Bounds
  <2>2. TypeOK'
    BY <1>1, <1>3, <2>1, TouchKeepsKeys DEF IInv, TypeOK
  <2>3. \A g \in Host : Recognised(g)' <=> Recognised(g)
    BY <1>1, <1>3, TouchStep
  <2>4. StaysKnown'
    BY <1>1, <1>2, <2>3 DEF IInv, StaysKnown, In
  <2>5. SeenLately'
    <3>. SUFFICES ASSUME NEW g \in In, Recognised(g), missed'[g] < OfflineAfter
                  PROVE  runner'[Name[g]].seen <= missed'[g] + Expecting(g)'
      BY <1>2, <2>3 DEF SeenLately, In
    <3>1. g \in Host /\ missed'[g] \in Nat /\ Expecting(g)' \in {0, 1}
      BY <2>2, Bounds DEF TypeOK, In, Expecting
    <3>2. CASE g = h
      BY <1>1, <1>3, <3>1, <3>2, TouchStep
    <3>3. CASE g # h
      <4>1. missed'[g] = missed[g] /\ Expecting(g)' = Expecting(g)
        BY <1>1, <1>3, <3>1, <3>3 DEF IInv, TypeOK, Expecting
      <4>2. runner'[Name[g]].seen \in {runner[Name[g]].seen, 0}
        BY <1>1, <1>3, <3>1, TouchStep
      <4>3. runner[Name[g]].seen <= missed[g] + Expecting(g)
        BY <4>1 DEF IInv, SeenLately
      <4>. QED
        BY <3>1, <4>1, <4>2, <4>3
    <3>. QED
      BY <3>2, <3>3
  <2>. QED
    BY <1>1, <2>2, <2>4, <2>5, AcceptedAlone DEF IInv
<1>4. CASE /\ missed' = [missed EXCEPT ![h] =
                IF missed[h] < OfflineAfter THEN missed[h] + 1 ELSE missed[h]]
           /\ UNCHANGED runner
  <2>1. h \in Host /\ missed[h] \in 0..OfflineAfter
    BY <1>2 DEF IInv, TypeOK, In
  <2>2. /\ missed'[h] \in 0..OfflineAfter
        /\ missed'[h] < OfflineAfter => missed'[h] = missed[h] + 1
    BY <1>4, <2>1, Bounds DEF IInv, TypeOK
  <2>3. missed' \in [Host -> 0..OfflineAfter]
    BY <1>4, <2>1, <2>2 DEF IInv, TypeOK
  <2>4. TypeOK'
    BY <1>1, <1>4, <2>3 DEF IInv, TypeOK
  <2>5. \A g \in Host : Recognised(g)' <=> Recognised(g)
    BY <1>1, <1>4 DEF Recognised, Registered, Known, KeyOf
  <2>6. StaysKnown'
    BY <1>1, <1>2, <2>5 DEF IInv, StaysKnown, In
  <2>7. SeenLately'
    <3>. SUFFICES ASSUME NEW g \in In, Recognised(g), missed'[g] < OfflineAfter
                  PROVE  runner[Name[g]].seen <= missed'[g] + Expecting(g)'
      BY <1>2, <1>4, <2>5 DEF SeenLately, In
    <3>1. g \in Host
      BY DEF In
    <3>2. CASE g = h
      <4>1. missed[h] < OfflineAfter /\ missed'[h] = missed[h] + 1
        BY <2>1, <2>2, <3>2, Bounds
      <4>2. Expecting(h) = 1 /\ Expecting(h)' = 0
        BY <1>1 DEF Expecting
      <4>3. runner[Name[h]].seen <= missed[h] + 1
        BY <3>2, <4>1, <4>2 DEF IInv, SeenLately
      <4>. QED
        BY <2>1, <3>2, <4>1, <4>2, <4>3, Bounds
    <3>3. CASE g # h
      <4>1. missed'[g] = missed[g] /\ Expecting(g)' = Expecting(g)
        BY <1>1, <1>4, <3>1, <3>3 DEF IInv, TypeOK, Expecting
      <4>. QED
        BY <4>1 DEF IInv, SeenLately
    <3>. QED
      BY <3>2, <3>3
  <2>. QED
    BY <1>1, <2>4, <2>6, <2>7, AcceptedAlone DEF IInv
<1>. QED
  BY <1>3, <1>4 DEF Beat

(* An interval begins when every heartbeat of the last has been sent or    *)
(* lost: every row is one interval older, and every host has one to send.  *)
LEMMA TickStep ==
  ASSUME IInv, Tick
  PROVE  IInv'
<1>1. In' = In
  BY DEF Tick, In
<1>2. \A id \in RunnerId : runner'[id] = Older(runner[id]) /\ runner[id] \in Row \cup {NULL}
  BY DEF Tick, IInv, TypeOK
<1>3. runner' \in [RunnerId -> Row \cup {NULL}]
  BY <1>2, OlderRow DEF Tick
<1>4. TypeOK'
  BY <1>3 DEF IInv, TypeOK, Tick, In
<1>5. ASSUME NEW g \in Host PROVE Recognised(g)' <=> Recognised(g)
  <2>1. Name[g] \in RunnerId
    BY Bounds
  <2>2. KeyOf(g)' = KeyOf(g)
    BY DEF KeyOf, Tick
  <2>3. /\ (runner'[Name[g]] = NULL) <=> (runner[Name[g]] = NULL)
        /\ runner[Name[g]] # NULL => runner'[Name[g]].key = runner[Name[g]].key
    BY <1>2, <2>1, OlderRow
  <2>. QED
    BY <2>2, <2>3 DEF Recognised, Registered, Known
<1>6. StaysKnown'
  BY <1>1, <1>5 DEF IInv, StaysKnown, Tick, In
<1>7. SeenLately'
  <2>. SUFFICES ASSUME NEW g \in In, Recognised(g), missed[g] < OfflineAfter
                PROVE  runner'[Name[g]].seen <= missed[g] + Expecting(g)'
    BY <1>1, <1>5 DEF SeenLately, Tick, In
  <2>1. g \in Host /\ missed[g] \in Nat /\ Name[g] \in RunnerId
    BY Bounds DEF IInv, TypeOK, In
  <2>2. Expecting(g) = 0 /\ Expecting(g)' = 1
    BY DEF Tick, Expecting
  <2>3. runner[Name[g]] \in Row /\ runner[Name[g]] # NULL
    BY <2>1, RecognisedRow, NullAssumption DEF IInv
  <2>4. runner'[Name[g]].seen <= runner[Name[g]].seen + 1
    BY <1>2, <2>1, <2>3, OlderRow
  <2>5. runner[Name[g]].seen <= missed[g] + Expecting(g)
    BY DEF IInv, SeenLately
  <2>6. runner[Name[g]].seen \in Nat
    BY <2>3, Bounds DEF Row
  <2>7. runner'[Name[g]].seen \in Nat
    BY <1>3, <2>1, <2>3, <1>2, OlderRow, Bounds, NullAssumption DEF Row
  <2>. QED
    BY <2>1, <2>2, <2>4, <2>5, <2>6, <2>7
<1>. QED
  BY <1>4, <1>6, <1>7, AcceptedAlone DEF IInv, Tick
-----------------------------------------------------------------------------
LEMMA StopStep ==
  ASSUME IInv, NEW h \in Host, Stop(h)
  PROVE  IInv'
<1>1. 0 \in 0..OfflineAfter
  BY Bounds
<1>2. TypeOK'
  BY <1>1 DEF IInv, TypeOK, Stop
<1>3. In' = In \ {h}
  BY DEF IInv, TypeOK, Stop, In
<1>4. StaysKnown' /\ SeenLately'
  <2>1. \A g \in In' : serial'[g] = serial[g] /\ missed'[g] = missed[g] /\ (g \in due' <=> g \in due)
    BY <1>3 DEF IInv, TypeOK, Stop, In
  <2>. QED
    BY <1>3, <2>1, RowsAlone DEF IInv, Stop
<1>. QED
  BY <1>2, <1>4, AcceptedAlone DEF IInv, Stop

LEMMA LoseKeyStep ==
  ASSUME IInv, NEW h \in Host, LoseKey(h)
  PROVE  IInv'
<1>1. serial[h] + 1 \in 1..MaxKeys
  <2>1. serial[h] \in 1..MaxKeys /\ serial[h] < MaxKeys
    BY DEF IInv, TypeOK, LoseKey
  <2>. QED
    BY <2>1, Bounds
<1>2. TypeOK'
  BY <1>1 DEF IInv, TypeOK, LoseKey
<1>3. In' = In /\ h \notin In
  BY DEF IInv, TypeOK, LoseKey, In
<1>4. StaysKnown' /\ SeenLately'
  <2>1. \A g \in In' : serial'[g] = serial[g]
    BY <1>3 DEF IInv, TypeOK, LoseKey, In
  <2>. QED
    BY <1>3, <2>1, RowsAlone DEF IInv, LoseKey
<1>. QED
  BY <1>2, <1>4, AcceptedAlone DEF IInv, LoseKey

LEMMA EdgeStopsStep ==
  ASSUME IInv, NEW e \in Edge, EdgeStops(e)
  PROVE  IInv'
<1>1. TypeOK'
  BY DEF IInv, TypeOK, EdgeStops
<1>2. SameKeyAgain'
  BY DEF IInv, TypeOK, SameKeyAgain, EdgeStops
<1>3. StaysKnown' /\ SeenLately'
  BY RowsAlone DEF IInv, EdgeStops, In
<1>. QED
  BY <1>1, <1>2, <1>3 DEF IInv

(* Every test server that had enrolled is stranded, and none recognised.   *)
LEMMA RedeployStep ==
  ASSUME IInv, Redeploy
  PROVE  IInv'
<1>1. TypeOK'
  BY DEF IInv, TypeOK, Redeploy, In
<1>2. In' = In /\ stranded' = In
  BY DEF Redeploy, In
<1>3. ASSUME NEW g \in Host PROVE ~Recognised(g)'
  <2>1. TypeOK' /\ KeyOf(g)' = KeyOf(g) /\ Name[g] \in RunnerId /\ KeyOf(g) # NULL
    BY <1>1, KeyTypes DEF IInv, Redeploy, KeyOf
  <2>. QED
    BY <2>1 DEF Recognised, Registered, Known, Redeploy
<1>4. StaysKnown' /\ SeenLately'
  BY <1>2, <1>3 DEF StaysKnown, SeenLately, In
<1>5. SameKeyAgain'
  BY DEF SameKeyAgain, Redeploy
<1>. QED
  BY <1>1, <1>4, <1>5 DEF IInv

LEMMA FileStep ==
  ASSUME IInv, file' \in [RunnerId -> Key \cup {NULL}],
         UNCHANGED <<runner, accepted, host, serial, due, missed, stranded>>
  PROVE  IInv'
<1>1. TypeOK'
  BY DEF IInv, TypeOK
<1>2. StaysKnown' /\ SeenLately'
  BY RowsAlone DEF IInv, In
<1>. QED
  BY <1>1, <1>2, AcceptedAlone DEF IInv

LEMMA NextIInv == IInv /\ [Next]_vars => IInv'
<1>. SUFFICES ASSUME IInv, [Next]_vars PROVE IInv'
  OBVIOUS
<1>1. ASSUME NEW h \in Host, Start(h) PROVE IInv'
  BY <1>1, StartStep
<1>2. ASSUME NEW h \in Host, Stop(h) PROVE IInv'
  BY <1>2, StopStep
<1>3. ASSUME NEW h \in Host, LoseKey(h) PROVE IInv'
  BY <1>3, LoseKeyStep
<1>4. ASSUME NEW h \in Host, Call(h) PROVE IInv'
  BY <1>4, CallStep
<1>5. ASSUME NEW h \in Host, Beat(h) PROVE IInv'
  BY <1>5, BeatStep
<1>6. ASSUME NEW h \in Host, Authorise(h) PROVE IInv'
  BY <1>6, FileStep, KeyTypes DEF Authorise, IInv, TypeOK
<1>7. ASSUME NEW h \in Host, NEW e \in Edge, Decide(e, h) PROVE IInv'
  BY <1>7, DecideStep
<1>8. ASSUME NEW e \in Edge, Enrol(e) PROVE IInv'
  BY <1>8, WriteStep DEF Enrol
<1>9. ASSUME NEW e \in Edge, EdgeStops(e) PROVE IInv'
  BY <1>9, EdgeStopsStep
<1>10. ASSUME NEW id \in RunnerId, DeleteFile(id) PROVE IInv'
  BY <1>10, FileStep DEF DeleteFile, IInv, TypeOK
<1>11. CASE Redeploy
  BY <1>11, RedeployStep
<1>12. CASE Tick
  BY <1>12, TickStep
<1>13. CASE UNCHANGED vars
  <2>1. UNCHANGED <<runner, accepted, host, serial, due, missed, stranded>> /\ file' = file
    BY <1>13 DEF vars
  <2>. QED
    BY <2>1, FileStep DEF IInv, TypeOK
<1>. QED
  BY <1>1, <1>2, <1>3, <1>4, <1>5, <1>6, <1>7, <1>8, <1>9, <1>10, <1>11, <1>12, <1>13 DEF Next
-----------------------------------------------------------------------------
(* The invariant the theorems below follow from.                           *)
THEOREM Invariant == Spec => []IInv
BY InitIInv, NextIInv, PTL DEF Spec

(* The state of the registry has its types.                                *)
THEOREM TypeCorrect == Spec => []TypeOK
<1>1. IInv => TypeOK
  BY DEF IInv
<1>. QED
  BY <1>1, Invariant, PTL

(* A test server that has enrolled goes on being recognised, for any       *)
(* hosts, names and edges: only the loss of the store, or an enrolment     *)
(* decided before its own was written, takes its row from it.              *)
THEOREM StaysKnownAlways == Spec => []StaysKnown
<1>1. IInv => StaysKnown
  BY DEF IInv
<1>. QED
  BY <1>1, Invariant, PTL

(* A test server in contact is never shown offline, whatever offline_after *)
(* is: the row of one that has missed fewer heartbeats than that is no     *)
(* older than the ones it has missed and the one it is about to send.      *)
THEOREM ContactIsOnlineAlways == Spec => []ContactIsOnline
<1>1. IInv => ContactIsOnline
  <2>. SUFFICES ASSUME IInv, NEW h \in In, Recognised(h), missed[h] < OfflineAfter
                PROVE  Online(Name[h])
    BY DEF ContactIsOnline
  <2>1. h \in Host /\ missed[h] \in 0..OfflineAfter /\ Expecting(h) \in {0, 1}
    BY DEF IInv, TypeOK, In, Expecting
  <2>2. runner[Name[h]] \in Row /\ runner[Name[h]] # NULL
    BY <2>1, RecognisedRow, NullAssumption DEF IInv
  <2>3. runner[Name[h]].seen <= missed[h] + Expecting(h)
    BY DEF IInv, SeenLately
  <2>4. runner[Name[h]].seen \in Nat
    BY <2>2, Bounds DEF Row
  <2>. QED
    BY <2>1, <2>2, <2>3, <2>4, Bounds DEF Online, Known
<1>. QED
  BY <1>1, Invariant, PTL
=============================================================================
