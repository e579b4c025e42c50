--------------------------- MODULE Fleet_proofs -----------------------------
(***************************************************************************)
(* The fleet keeps its promises for any number of runs and test servers,   *)
(* any labels, lease and number of attempts, and whichever faults happen.  *)
(*                                                                         *)
(* The invariant IInv says of the table what JobTable_proofs says (Sound), *)
(* bounds the executions by the attempts the store counts, ties every      *)
(* result on its way to a run that came to that end, and ties the lease of *)
(* a job that is worked on to the intervals its test server missed.        *)
(***************************************************************************)
EXTENDS Fleet, JobTable_proofs

USE DEF ABSENT, QUEUED, CLAIMED, RUNNING, DONE, FAILED, ABANDONED, NOT_DISPATCHED,
        Row, JobState, Mode, ACTIVE_STATES, BUSY_STATES, TERMINAL_STATES
-----------------------------------------------------------------------------
Types ==
  /\ agent \in [Runner -> Agent]
  /\ gone \in [Runner -> 0..MaxGone]
  /\ late \subseteq [runner : Runner, job : JobId, passed : BOOLEAN]
  /\ due \subseteq Up
  /\ missed \in [Runner -> 0..(LeaseTicks - 1)]
  /\ begun \in [JobId -> Nat]
  /\ ended \subseteq Runner \X JobId \X BOOLEAN

(* The test servers about to start j.                                      *)
GotBy(j) == {r \in Runner : agent[r] = Got(j)}

(* Every report, held by its test server or on its way, is of a run that   *)
(* came to that end.                                                       *)
ReportsAreReal ==
  /\ \A m \in late : <<m.runner, m.job, m.passed>> \in ended
  /\ \A r \in Runner :
       agent[r].at = "reporting" => <<r, agent[r].job, agent[r].passed>> \in ended

(* What is left of the lease of a job that is worked on: what the missed   *)
(* intervals, and the one that goes on, have not used up.                  *)
LeaseIsKept ==
  \A r \in Runner, j \in JobId :
    WorksOn(r, j) /\ Holds(r, j) =>
      \/ missed[r] >= LeaseTicks - 1
      \/ jobs[j].lease + missed[r] + (IF r \in due THEN 1 ELSE 0) >= LeaseTicks

IInv ==
  /\ Sound(jobs)
  /\ Types
  /\ ExecutionsBounded
  /\ RecordedIsReal
  /\ ReportsAreReal
  /\ LeaseIsKept
-----------------------------------------------------------------------------
(* The states of a test server's main thread.                              *)
LEMMA AgentShapes ==
  ASSUME NEW a \in Agent
  PROVE  /\ a.at \in {"off", "dead", "idle", "polling", "got", "running", "reporting"}
         /\ a.at = "got" => a.job \in JobId /\ a = Got(a.job)
         /\ a.at = "running" => a.job \in JobId
         /\ a.at = "reporting" => /\ a.job \in JobId /\ a.passed \in BOOLEAN
                                  /\ a.try \in 1..TRIES
                                  /\ a = Reporting(a.job, a.passed, a.try)
BY DEF Agent, Off, Dead, Idle, Polling, Got, Running, Reporting

LEMMA AgentTypes ==
  /\ Off \in Agent /\ Dead \in Agent /\ Idle \in Agent /\ Polling \in Agent
  /\ \A j \in JobId : Got(j) \in Agent /\ Running(j) \in Agent
  /\ \A j \in JobId, p \in BOOLEAN, n \in 1..TRIES : Reporting(j, p, n) \in Agent
BY DEF Agent

LEMMA AgentFields ==
  /\ Off.at = "off" /\ Dead.at = "dead" /\ Idle.at = "idle" /\ Polling.at = "polling"
  /\ \A j : Got(j).at = "got" /\ Got(j).job = j
  /\ \A j : Running(j).at = "running" /\ Running(j).job = j
  /\ \A j, p, n : /\ Reporting(j, p, n).at = "reporting" /\ Reporting(j, p, n).job = j
                  /\ Reporting(j, p, n).passed = p /\ Reporting(j, p, n).try = n
BY DEF Off, Dead, Idle, Polling, Got, Running, Reporting

(* One more try of the same report, or the report is given up.             *)
LEMMA NextTryMakes ==
  ASSUME NEW r \in Runner, agent \in [Runner -> Agent], agent[r].at = "reporting", NextTry(r)
  PROVE  \E a \in Agent :
           /\ Becomes(r, a)
           /\ \/ a = Idle
              \/ a.at = "reporting" /\ a.job = agent[r].job /\ a.passed = agent[r].passed
<1>. DEFINE j == agent[r].job
            p == agent[r].passed
            n == agent[r].try
<1>1. /\ j \in JobId /\ p \in BOOLEAN /\ n \in 1..TRIES
      /\ agent[r] = Reporting(j, p, n)
  BY AgentShapes
<1>2. CASE n < TRIES
  <2>1. [agent[r] EXCEPT !.try = n + 1] = Reporting(j, p, n + 1)
    BY <1>1 DEF Reporting
  <2>2. n + 1 \in 1..TRIES
    BY <1>1, <1>2 DEF TRIES
  <2>3. Reporting(j, p, n + 1) \in Agent
    BY <1>1, <2>2, AgentTypes
  <2>4. Becomes(r, Reporting(j, p, n + 1))
    BY <1>2, <2>1 DEF NextTry
  <2>. QED
    BY <2>3, <2>4, AgentFields
<1>3. CASE ~(n < TRIES)
  BY <1>3, AgentTypes DEF NextTry
<1>. QED
  BY <1>2, <1>3
-----------------------------------------------------------------------------
(* What keeps each part of the invariant.                                  *)

(* A test server that goes on, or comes up, keeps the heartbeats due those *)
(* of running test servers.                                                *)
LEMMA BecomesTypes ==
  ASSUME Types, NEW r \in Runner, NEW a \in Agent, Becomes(r, a)
  PROVE  /\ agent' \in [Runner -> Agent]
         /\ agent'[r] = a /\ \A s \in Runner \ {r} : agent'[s] = agent[s]
         /\ a.at \notin {"off", "dead"} => due \subseteq Up'
BY DEF Types, Becomes, Up

LEMMA GotByIsFinite ==
  ASSUME NEW S \in SUBSET Runner
  PROVE  IsFiniteSet(S) /\ Cardinality(S) \in Nat
BY FleetAssumption, FS_Subset, FS_CardinalityType

LEMMA FewerGot ==
  ASSUME NEW S \in SUBSET Runner, NEW R \in SUBSET S
  PROVE  Cardinality(R) <= Cardinality(S)
BY GotByIsFinite, FS_Subset

LEMMA OneMoreGot ==
  ASSUME NEW S \in SUBSET Runner, NEW r \in Runner
  PROVE  /\ r \notin S => Cardinality(S \cup {r}) = Cardinality(S) + 1
         /\ r \in S => Cardinality(S \ {r}) = Cardinality(S) - 1
BY GotByIsFinite, FS_AddElement, FS_RemoveElement

(* Nobody new is about to start a run, and no attempt is taken back.       *)
LEMMA ExecutionsKept ==
  ASSUME Types, SoundRows(jobs), SoundRows(jobs'), ExecutionsBounded, UNCHANGED begun,
         \A k \in JobId : jobs'[k].attempts >= jobs[k].attempts,
         \A k \in JobId : GotBy(k)' \subseteq GotBy(k)
  PROVE  ExecutionsBounded'
<1>. SUFFICES ASSUME NEW k \in JobId
              PROVE  begun[k] + Cardinality(GotBy(k)') <= jobs'[k].attempts
  BY DEF ExecutionsBounded, GotBy
<1>1. GotBy(k) \in SUBSET Runner /\ GotBy(k)' \in SUBSET GotBy(k) /\ GotBy(k)' \in SUBSET Runner
  BY DEF GotBy
<1>2. Cardinality(GotBy(k)') <= Cardinality(GotBy(k))
  BY <1>1, FewerGot
<1>3. Cardinality(GotBy(k)) \in Nat /\ Cardinality(GotBy(k)') \in Nat
  BY <1>1, GotByIsFinite
<1>4. begun[k] + Cardinality(GotBy(k)) <= jobs[k].attempts
  BY DEF ExecutionsBounded, GotBy
<1>5. begun[k] \in Nat /\ jobs[k].attempts \in Nat /\ jobs'[k].attempts \in Nat
  BY DEF Types, SoundRows, GoodRow
<1>. QED
  BY <1>2, <1>3, <1>4, <1>5

(* A row that is found finished was found so before, or a run that came to *)
(* that end is recorded in it.                                             *)
LEMMA RecordedKept ==
  ASSUME RecordedIsReal, ended \subseteq ended',
         \A k \in JobId :
           jobs'[k].state \in {DONE, FAILED} =>
             \/ jobs'[k].state = jobs[k].state /\ jobs'[k].runner = jobs[k].runner
             \/ \E p \in BOOLEAN : /\ jobs'[k].state = IF p THEN DONE ELSE FAILED
                                   /\ <<jobs'[k].runner, k, p>> \in ended'
  PROVE  RecordedIsReal'
<1>. SUFFICES ASSUME NEW k \in JobId
              PROVE  /\ jobs'[k].state = DONE => <<jobs'[k].runner, k, TRUE>> \in ended'
                     /\ jobs'[k].state = FAILED => <<jobs'[k].runner, k, FALSE>> \in ended'
  BY DEF RecordedIsReal
<1>1. /\ jobs[k].state = DONE => <<jobs[k].runner, k, TRUE>> \in ended'
      /\ jobs[k].state = FAILED => <<jobs[k].runner, k, FALSE>> \in ended'
  BY DEF RecordedIsReal
<1>. QED
  BY <1>1

LEMMA ReportsKept ==
  ASSUME ReportsAreReal, ended \subseteq ended', late' \subseteq late,
         \A r \in Runner :
           agent'[r].at = "reporting" =>
             \/ /\ agent[r].at = "reporting"
                /\ agent'[r].job = agent[r].job /\ agent'[r].passed = agent[r].passed
             \/ <<r, agent'[r].job, agent'[r].passed>> \in ended'
  PROVE  ReportsAreReal'
BY DEF ReportsAreReal

(* A job that is worked on was worked on before under the same lease, or   *)
(* its lease has just begun.                                               *)
LEMMA LeaseKept ==
  ASSUME LeaseIsKept, missed' \in [Runner -> Nat],
         \A r \in Runner, j \in JobId :
           WorksOn(r, j)' /\ Holds(r, j)' =>
             \/ jobs'[j].lease = LeaseTicks
             \/ /\ WorksOn(r, j) /\ Holds(r, j) /\ jobs'[j].lease = jobs[j].lease
                /\ missed'[r] = missed[r] /\ (r \in due' <=> r \in due)
  PROVE  LeaseIsKept'
<1>. SUFFICES ASSUME NEW r \in Runner, NEW j \in JobId, WorksOn(r, j)', Holds(r, j)'
              PROVE  \/ missed'[r] >= LeaseTicks - 1
                     \/ jobs'[j].lease + missed'[r] + (IF r \in due' THEN 1 ELSE 0) >= LeaseTicks
  BY DEF LeaseIsKept
<1>1. CASE jobs'[j].lease = LeaseTicks
  BY <1>1, LeaseAssumption
<1>2. CASE /\ WorksOn(r, j) /\ Holds(r, j) /\ jobs'[j].lease = jobs[j].lease
           /\ missed'[r] = missed[r] /\ (r \in due' <=> r \in due)
  BY <1>2 DEF LeaseIsKept
<1>. QED
  BY <1>1, <1>2
-----------------------------------------------------------------------------
(* What the statements do to the rows, as the edge calls them.             *)

(* The reaper takes a row back only when its lease is over.                *)
LEMMA ReapedMoves ==
  ASSUME NEW T, SoundRows(T), NEW k \in JobId
  PROVE  /\ Reaped(T)[k].attempts = T[k].attempts
         /\ \/ Reaped(T)[k] = T[k]
            \/ /\ Reaped(T)[k].state \in {QUEUED, ABANDONED}
               /\ T[k].state \in BUSY_STATES /\ T[k].lease = 0
<1>1. k \in Expired(T) => T[k].state \in BUSY_STATES /\ T[k].lease = 0
  BY DEF Expired, InState
<1>. QED
  BY <1>1, ReapedRow

LEMMA HandedOut ==
  ASSUME Sound(jobs), NEW r \in Runner, NEW j \in JobId, HandsOut(r, Reaped(jobs), j)
  PROVE  /\ Sound(jobs')
         /\ jobs'[j].state = CLAIMED /\ jobs'[j].runner = r /\ jobs'[j].lease = LeaseTicks
         /\ jobs'[j].attempts = jobs[j].attempts + 1
         /\ jobs[j].state \in BUSY_STATES => jobs[j].lease = 0
         /\ \A k \in JobId \ {j} : jobs'[k] = Reaped(jobs)[k]
<1>. DEFINE T == Reaped(jobs)
<1>1. Sound(T) /\ SoundRows(T) /\ SoundRows(jobs)
  BY ReapedSound, SoundHas
<1>2. T[j].state = QUEUED /\ ~ChannelBusy(T, j) /\ jobs' = Claimed(T, j, r)
  BY DEF HandsOut, Oldest, Claimable, InState
<1>3. Sound(jobs')
  BY <1>1, <1>2, ClaimedSound
<1>4. T[j].attempts = jobs[j].attempts /\ (T[j] = jobs[j] \/ jobs[j].lease = 0)
  BY <1>1, ReapedMoves
<1>. HIDE DEF T
<1>5. T[j] \in Row /\ T \in [JobId -> GoodRow]
  BY <1>1 DEF SoundRows, GoodRow
<1>6. /\ jobs'[j].state = CLAIMED /\ jobs'[j].runner = r /\ jobs'[j].lease = LeaseTicks
      /\ jobs'[j].attempts = T[j].attempts + 1
      /\ \A k \in JobId \ {j} : jobs'[k] = T[k]
  BY <1>2, <1>5 DEF Claimed
<1>. QED
  BY <1>2, <1>3, <1>4, <1>6 DEF T

LEMMA FinishedMoves ==
  ASSUME Sound(jobs), NEW j \in JobId, NEW r \in Runner, NEW p \in BOOLEAN,
         CanFinish(jobs, j, r), jobs' = Finished(jobs, j, p)
  PROVE  /\ Sound(jobs')
         /\ jobs'[j].state = IF p THEN DONE ELSE FAILED
         /\ jobs'[j].runner = r /\ jobs'[j].attempts = jobs[j].attempts
         /\ \A k \in JobId \ {j} : jobs'[k] = jobs[k]
<1>1. SoundRows(jobs) /\ SoundRows(jobs')
  BY SoundHas, FinishedRows
<1>2. /\ jobs'[j].state = IF p THEN DONE ELSE FAILED
      /\ jobs'[j].runner = r /\ jobs'[j].attempts = jobs[j].attempts
      /\ jobs'[j].mode = jobs[j].mode
      /\ \A k \in JobId \ {j} : jobs'[k] = jobs[k]
  BY <1>1 DEF SoundRows, GoodRow, CanFinish, Finished
<1>3. Sound(jobs')
  BY <1>1, <1>2, QuieterSound
<1>. QED
  BY <1>2, <1>3

LEMMA StartedMoves ==
  ASSUME Sound(jobs), NEW j \in JobId, NEW r \in Runner, CanMarkRunning(jobs, j, r),
         jobs' = MarkedRunning(jobs, j)
  PROVE  /\ Sound(jobs')
         /\ jobs[j].state = CLAIMED /\ jobs'[j].state = RUNNING
         /\ jobs'[j].runner = jobs[j].runner /\ jobs'[j].attempts = jobs[j].attempts
         /\ jobs'[j].lease = jobs[j].lease
         /\ \A k \in JobId \ {j} : jobs'[k] = jobs[k]
<1>1. SoundRows(jobs) /\ SoundRows(jobs')
  BY SoundHas, MarkedRunningRows
<1>2. /\ jobs[j].state = CLAIMED /\ jobs'[j].state = RUNNING
      /\ jobs'[j].runner = jobs[j].runner /\ jobs'[j].attempts = jobs[j].attempts
      /\ jobs'[j].lease = jobs[j].lease /\ jobs'[j].mode = jobs[j].mode
      /\ \A k \in JobId \ {j} : jobs'[k] = jobs[k]
  BY <1>1 DEF SoundRows, GoodRow, CanMarkRunning, MarkedRunning
<1>3. Sound(jobs')
  BY <1>1, <1>2, QuieterSound
<1>. QED
  BY <1>2, <1>3

LEMMA RenewedMoves ==
  ASSUME Sound(jobs), NEW r \in Runner, jobs' = Renewed(jobs, r)
  PROVE  /\ Sound(jobs')
         /\ \A k \in JobId :
              /\ jobs'[k].state = jobs[k].state /\ jobs'[k].runner = jobs[k].runner
              /\ jobs'[k].attempts = jobs[k].attempts
              /\ jobs'[k].lease = IF Holds(r, k) THEN LeaseTicks ELSE jobs[k].lease
<1>1. SoundRows(jobs) /\ SoundRows(jobs')
  BY SoundHas, RenewedRows
<1>2. \A k \in JobId :
        /\ jobs'[k].state = jobs[k].state /\ jobs'[k].runner = jobs[k].runner
        /\ jobs'[k].attempts = jobs[k].attempts /\ jobs'[k].mode = jobs[k].mode
        /\ jobs'[k].lease = IF Holds(r, k) THEN LeaseTicks ELSE jobs[k].lease
  BY <1>1 DEF SoundRows, GoodRow, Renewed, HeldBy, Holds
<1>3. Sound(jobs')
  BY <1>1, <1>2, QuieterSound
<1>. QED
  BY <1>2, <1>3

LEMMA AgedMoves ==
  ASSUME Sound(jobs), jobs' = Aged(jobs)
  PROVE  /\ Sound(jobs')
         /\ \A k \in JobId :
              /\ jobs'[k].state = jobs[k].state /\ jobs'[k].runner = jobs[k].runner
              /\ jobs'[k].attempts = jobs[k].attempts
              /\ jobs[k].lease # NULL =>
                   jobs'[k].lease = IF jobs[k].lease = 0 THEN 0 ELSE jobs[k].lease - 1
<1>1. SoundRows(jobs) /\ SoundRows(jobs')
  BY SoundHas, AgedRows
<1>2. \A k \in JobId :
        /\ jobs'[k].state = jobs[k].state /\ jobs'[k].runner = jobs[k].runner
        /\ jobs'[k].attempts = jobs[k].attempts /\ jobs'[k].mode = jobs[k].mode
        /\ jobs[k].lease # NULL =>
             jobs'[k].lease = IF jobs[k].lease = 0 THEN 0 ELSE jobs[k].lease - 1
  BY <1>1 DEF SoundRows, GoodRow, Aged
<1>3. Sound(jobs')
  BY <1>1, <1>2, QuieterSound
<1>. QED
  BY <1>2, <1>3
-----------------------------------------------------------------------------
(* The invariant, action by action.                                        *)
LEMMA InitInv == Init => IInv
<1>. SUFFICES ASSUME Init
              PROVE  IInv
  OBVIOUS
<1>1. /\ \A j \in JobId : jobs[j] = NoRow
      /\ \A r \in Runner : agent[r] = Off
  BY DEF Init, EmptyTable
<1>2. Sound(jobs)
  <2>1. NoRow \in GoodRow
    BY LeaseAssumption DEF GoodRow, NoRow
  <2>2. SoundRows(jobs)
    BY <2>1 DEF SoundRows, Init, EmptyTable
  <2>3. InState(jobs, ACTIVE_STATES) = {} /\ InState(jobs, BUSY_STATES) = {}
    BY <1>1 DEF InState, NoRow
  <2>4. /\ \A j \in JobId : ActiveOf(jobs, j) = {}
        /\ \A c \in Channel : BusyIn(jobs, c) = {} /\ BacklogIn(jobs, c) = {}
    BY <1>1, <2>3 DEF ActiveOf, BusyIn, BacklogIn, InChannel, NoRow
  <2>5. JobCapIn(jobs) /\ RunningCapIn(jobs) /\ BacklogBoundIn(jobs)
    BY <2>4, FS_EmptySet, CapsAssumption DEF JobCapIn, RunningCapIn, BacklogBoundIn
  <2>. QED
    BY <2>2, <2>5, SoundHas
<1>3. Types
  <2>1. MaxGone \in Nat
    BY FleetAssumption
  <2>2. 0 \in 0..MaxGone /\ 0 \in 0..(LeaseTicks - 1)
    BY <2>1, LeaseAssumption
  <2>. QED
    BY <2>2, AgentTypes DEF Init, Types
<1>4. ExecutionsBounded
  <2>1. \A j \in JobId : {r \in Runner : agent[r] = Got(j)} = {}
    BY <1>1, AgentFields
  <2>2. \A j \in JobId : begun[j] = 0 /\ jobs[j].attempts = 0
    BY <1>1 DEF Init, NoRow
  <2>. QED
    BY <2>1, <2>2, FS_EmptySet DEF ExecutionsBounded
<1>5. RecordedIsReal
  BY <1>1 DEF RecordedIsReal, NoRow
<1>6. ReportsAreReal
  BY <1>1, AgentFields DEF ReportsAreReal, Init
<1>7. LeaseIsKept
  BY <1>1, AgentFields DEF LeaseIsKept, WorksOn
<1>. QED
  BY <1>2, <1>3, <1>4, <1>5, <1>6, <1>7 DEF IInv

LEMMA SoundPrimed == Sound(jobs') => Sound(jobs)'
BY DEF Sound, Table, CustodyIn, DispatchedStaysOutIn, AttemptsBoundedIn, JobCapIn,
       RunningCapIn, BacklogBoundIn, Held, ActiveOf, BusyIn, BacklogIn, InState

(* The types of the variables, as facts to cite.                           *)
LEMMA InvTypes ==
  ASSUME IInv
  PROVE  /\ SoundRows(jobs) /\ Types
         /\ missed \in [Runner -> Nat]
         /\ \A k \in JobId : jobs[k] \in Row /\ jobs[k].attempts \in Nat
<1>1. \A r \in Runner : missed[r] \in Nat
  BY LeaseAssumption DEF IInv, Types
<1>2. SoundRows(jobs) /\ Types
  BY SoundHas DEF IInv
<1>. QED
  BY <1>1, <1>2 DEF Types, SoundRows, GoodRow

(* A test server that idles or polls says nothing, holds no result and is  *)
(* about to start nothing.                                                 *)
LEMMA WaitsInv ==
  ASSUME IInv, NEW r \in Runner, NEW a \in {Idle, Polling}, Becomes(r, a),
         gone' \in [Runner -> 0..MaxGone], UNCHANGED <<jobs, late, due, missed, begun, ended>>
  PROVE  IInv'
<1>0. Types /\ SoundRows(jobs) /\ missed' \in [Runner -> Nat]
  BY InvTypes
<1>1. /\ a \in Agent /\ a.at \in {"idle", "polling"}
      /\ agent'[r] = a /\ \A s \in Runner \ {r} : agent'[s] = agent[s]
      /\ agent' \in [Runner -> Agent] /\ due \subseteq Up'
  BY <1>0, BecomesTypes, AgentTypes, AgentFields
<1>2. Sound(jobs)'
  BY DEF IInv
<1>3. Types'
  BY <1>0, <1>1 DEF Types
<1>4. ExecutionsBounded'
  <2>1. \A k \in JobId : GotBy(k)' \subseteq GotBy(k)
    BY <1>1, AgentFields DEF GotBy
  <2>2. \A k \in JobId : jobs'[k].attempts >= jobs[k].attempts
    BY InvTypes
  <2>. QED
    BY <1>0, <2>1, <2>2, ExecutionsKept DEF IInv
<1>5. RecordedIsReal'
  BY RecordedKept DEF IInv
<1>6. ReportsAreReal'
  BY <1>1, ReportsKept DEF IInv
<1>7. LeaseIsKept'
  BY <1>0, <1>1, LeaseKept DEF IInv, WorksOn, Holds
<1>. QED
  BY <1>2, <1>3, <1>4, <1>5, <1>6, <1>7 DEF IInv

LEMMA EnqueueInv ==
  ASSUME IInv, NEW j \in JobId, Enqueue(j)
  PROVE  IInv'
<1>0. Types /\ SoundRows(jobs) /\ missed' \in [Runner -> Nat]
  BY InvTypes DEF Enqueue
<1>1. PICK at \in Stamp : EnqueueAccepted(jobs, j) /\ jobs' = Enqueued(jobs, j, at)
  BY DEF Enqueue
<1>2. at \in Nat
  BY StampAssumption
<1>3. Sound(jobs')
  BY <1>1, <1>2, EnqueuedSound DEF IInv
<1>4. /\ \A k \in JobId \ {j} : jobs'[k] = jobs[k]
      /\ jobs'[j].state = QUEUED /\ jobs'[j].attempts = 0
      /\ jobs[j].attempts = 0
  BY <1>0, <1>1 DEF SoundRows, GoodRow, EnqueueAccepted, Duplicate, Enqueued, Inserted
<1>5. Types'
  BY <1>0 DEF Types, Enqueue, Up
<1>6. ExecutionsBounded'
  <2>1. \A k \in JobId : GotBy(k)' \subseteq GotBy(k)
    BY DEF GotBy, Enqueue
  <2>2. \A k \in JobId : jobs'[k].attempts >= jobs[k].attempts
    BY <1>4, InvTypes
  <2>. QED
    BY <1>0, <1>3, <2>1, <2>2, SoundHas, ExecutionsKept DEF IInv, Enqueue
<1>7. RecordedIsReal'
  BY <1>4, RecordedKept DEF IInv, Enqueue
<1>8. ReportsAreReal'
  BY ReportsKept DEF IInv, Enqueue
<1>9. LeaseIsKept'
  BY <1>0, <1>4, LeaseKept DEF IInv, WorksOn, Holds, Enqueue
<1>. QED
  BY <1>3, <1>5, <1>6, <1>7, <1>8, <1>9, SoundPrimed DEF IInv

(* What a claim that is served leaves of the rest of the table.            *)
LEMMA ServedRows ==
  ASSUME IInv, NEW r \in Runner,
         \/ jobs' = Reaped(jobs)
         \/ \E j \in JobId : HandsOut(r, Reaped(jobs), j)
  PROVE  /\ Sound(jobs') /\ SoundRows(jobs')
         /\ \A k \in JobId :
              /\ jobs'[k].attempts >= jobs[k].attempts
              /\ jobs'[k].state \notin {CLAIMED} => jobs'[k].attempts = jobs[k].attempts
              /\ \/ jobs'[k] = jobs[k]
                 \/ jobs'[k].state \in {QUEUED, ABANDONED}
                 \/ jobs'[k].state = CLAIMED /\ jobs'[k].runner = r /\ jobs'[k].lease = LeaseTicks
<1>0. Sound(jobs) /\ SoundRows(jobs) /\ \A k \in JobId : jobs[k].attempts \in Nat
  BY InvTypes DEF IInv
<1>1. CASE jobs' = Reaped(jobs)
  BY <1>0, <1>1, ReapedSound, ReapedMoves, SoundHas
<1>2. ASSUME NEW j \in JobId, HandsOut(r, Reaped(jobs), j)
      PROVE  /\ Sound(jobs')
             /\ jobs'[j].state = CLAIMED /\ jobs'[j].runner = r /\ jobs'[j].lease = LeaseTicks
             /\ jobs'[j].attempts = jobs[j].attempts + 1
             /\ \A k \in JobId \ {j} : jobs'[k] = Reaped(jobs)[k]
  BY <1>0, <1>2, HandedOut
<1>3. ASSUME NEW j \in JobId, HandsOut(r, Reaped(jobs), j), NEW k \in JobId
      PROVE  /\ jobs'[k].attempts >= jobs[k].attempts
             /\ jobs'[k].state \notin {CLAIMED} => jobs'[k].attempts = jobs[k].attempts
             /\ \/ jobs'[k] = jobs[k]
                \/ jobs'[k].state \in {QUEUED, ABANDONED}
                \/ jobs'[k].state = CLAIMED /\ jobs'[k].runner = r /\ jobs'[k].lease = LeaseTicks
  <2>1. CASE k = j
    BY <1>0, <1>2, <1>3, <2>1
  <2>2. CASE k # j
    BY <1>0, <1>2, <1>3, <2>2, ReapedMoves
  <2>. QED
    BY <2>1, <2>2
<1>. QED
  BY <1>1, <1>2, <1>3, SoundHas

(* A claim that is served for nobody, or for a client that does not hear   *)
(* what it was given, starts nothing.                                      *)
LEMMA ServedInv ==
  ASSUME IInv, NEW r \in Runner,
         \/ jobs' = Reaped(jobs)
         \/ \E j \in JobId : HandsOut(r, Reaped(jobs), j),
         UNCHANGED agent \/ Becomes(r, Idle),
         gone' \in [Runner -> 0..MaxGone], UNCHANGED <<late, due, missed, begun, ended>>
  PROVE  IInv'
<1>0. Types /\ SoundRows(jobs) /\ missed' \in [Runner -> Nat]
  BY InvTypes
<1>1. /\ agent' \in [Runner -> Agent] /\ due \subseteq Up'
      /\ \A s \in Runner : agent'[s] = agent[s] \/ agent'[s] = Idle
  <2>1. CASE UNCHANGED agent
    BY <1>0, <2>1 DEF Types, Up
  <2>2. CASE Becomes(r, Idle)
    BY <1>0, <2>2, BecomesTypes, AgentTypes, AgentFields
  <2>. QED
    BY <2>1, <2>2
<1>2. /\ Sound(jobs') /\ SoundRows(jobs')
      /\ \A k \in JobId :
           /\ jobs'[k].attempts >= jobs[k].attempts
           /\ \/ jobs'[k] = jobs[k]
              \/ jobs'[k].state \in {QUEUED, ABANDONED}
              \/ jobs'[k].state = CLAIMED /\ jobs'[k].runner = r /\ jobs'[k].lease = LeaseTicks
  BY ServedRows
<1>3. Types'
  BY <1>0, <1>1 DEF Types
<1>4. ExecutionsBounded'
  <2>1. \A k \in JobId : GotBy(k)' \subseteq GotBy(k)
    BY <1>1, AgentFields DEF GotBy
  <2>. QED
    BY <1>0, <1>2, <2>1, ExecutionsKept DEF IInv
<1>5. RecordedIsReal'
  BY <1>2, RecordedKept DEF IInv
<1>6. ReportsAreReal'
  BY <1>1, AgentFields, ReportsKept DEF IInv
<1>7. LeaseIsKept'
  BY <1>0, <1>1, <1>2, AgentFields, LeaseKept DEF IInv, WorksOn, Holds
<1>. QED
  BY <1>2, <1>3, <1>4, <1>5, <1>6, <1>7, SoundPrimed DEF IInv

(* The attempt that was counted as the job was handed out is that of the   *)
(* test server that heard of it.                                           *)
LEMMA HeardInv ==
  ASSUME IInv, NEW r \in Runner, NEW j \in JobId, agent[r] = Polling,
         HandsOut(r, Reaped(jobs), j), Becomes(r, Got(j)),
         UNCHANGED <<gone, late, due, missed, begun, ended>>
  PROVE  IInv'
<1>0. Types /\ SoundRows(jobs) /\ missed' \in [Runner -> Nat] /\ Sound(jobs)
  BY InvTypes DEF IInv
<1>1. /\ agent' \in [Runner -> Agent] /\ due \subseteq Up'
      /\ agent'[r] = Got(j) /\ \A s \in Runner \ {r} : agent'[s] = agent[s]
  BY <1>0, BecomesTypes, AgentTypes, AgentFields
<1>2. /\ Sound(jobs') /\ SoundRows(jobs')
      /\ jobs'[j].attempts = jobs[j].attempts + 1 /\ jobs'[j].lease = LeaseTicks
      /\ \A k \in JobId :
           /\ jobs'[k].attempts >= jobs[k].attempts
           /\ \/ jobs'[k] = jobs[k]
              \/ jobs'[k].state \in {QUEUED, ABANDONED}
              \/ jobs'[k].state = CLAIMED /\ jobs'[k].runner = r /\ jobs'[k].lease = LeaseTicks
  BY <1>0, ServedRows, HandedOut
<1>3. Types'
  BY <1>0, <1>1 DEF Types
<1>4. ExecutionsBounded'
  <2>. SUFFICES ASSUME NEW k \in JobId
                PROVE  begun[k] + Cardinality(GotBy(k)') <= jobs'[k].attempts
    BY DEF ExecutionsBounded, GotBy
  <2>1. /\ begun[k] \in Nat /\ jobs[k].attempts \in Nat
        /\ jobs'[k].attempts \in Nat /\ jobs'[k].attempts >= jobs[k].attempts
    BY <1>0, <1>2 DEF Types, SoundRows, GoodRow
  <2>2. /\ GotBy(k) \in SUBSET Runner /\ Cardinality(GotBy(k)) \in Nat
        /\ begun[k] + Cardinality(GotBy(k)) <= jobs[k].attempts
    BY GotByIsFinite DEF IInv, ExecutionsBounded, GotBy
  <2>3. CASE k = j
    <3>1. r \notin GotBy(j) /\ GotBy(j)' = GotBy(j) \cup {r}
      BY <1>1, AgentFields DEF GotBy
    <3>2. Cardinality(GotBy(j)') = Cardinality(GotBy(j)) + 1
      BY <2>2, <2>3, <3>1, OneMoreGot
    <3>. QED
      BY <1>2, <2>1, <2>2, <2>3, <3>2
  <2>4. CASE k # j
    <3>1. GotBy(k)' = GotBy(k)
      BY <1>1, <2>4, AgentFields DEF GotBy
    <3>. QED
      BY <2>1, <2>2, <3>1
  <2>. QED
    BY <2>3, <2>4
<1>5. RecordedIsReal'
  BY <1>2, RecordedKept DEF IInv
<1>6. ReportsAreReal'
  BY <1>1, AgentFields, ReportsKept DEF IInv
<1>7. LeaseIsKept'
  BY <1>0, <1>1, <1>2, AgentFields, LeaseKept DEF IInv, WorksOn, Holds
<1>. QED
  BY <1>2, <1>3, <1>4, <1>5, <1>6, <1>7, SoundPrimed DEF IInv

LEMMA ServeClaimInv ==
  ASSUME IInv, NEW r \in Runner, ServeClaim(r)
  PROVE  IInv'
<1>1. gone \in [Runner -> 0..MaxGone]
  BY InvTypes DEF Types
<1>2. CASE \E j \in JobId : HandsOut(r, Reaped(jobs), j) /\ Becomes(r, Got(j))
  BY <1>2, HeardInv DEF ServeClaim
<1>3. CASE (\E j \in JobId : HandsOut(r, Reaped(jobs), j)) /\ Becomes(r, Idle)
  BY <1>1, <1>3, ServedInv DEF ServeClaim
<1>4. CASE jobs' = Reaped(jobs) /\ (UNCHANGED agent \/ Becomes(r, Idle))
  BY <1>1, <1>4, ServedInv DEF ServeClaim
<1>. QED
  BY <1>2, <1>3, <1>4 DEF ServeClaim, FindsNothing

LEMMA ServeGoneClaimInv ==
  ASSUME IInv, NEW r \in Runner, ServeGoneClaim(r)
  PROVE  IInv'
<1>1. gone \in [Runner -> 0..MaxGone] /\ MaxGone \in Nat
  BY InvTypes, FleetAssumption DEF Types
<1>2. gone[r] - 1 \in 0..MaxGone
  BY <1>1 DEF ServeGoneClaim
<1>3. gone' \in [Runner -> 0..MaxGone]
  BY <1>1, <1>2 DEF ServeGoneClaim
<1>4. jobs' = Reaped(jobs) \/ \E j \in JobId : HandsOut(r, Reaped(jobs), j)
  BY DEF ServeGoneClaim, FindsNothing
<1>. QED
  BY <1>3, <1>4, ServedInv DEF ServeGoneClaim

(* The run of a job ends, or its test server refuses it.                   *)
LEMMA EndsInv ==
  ASSUME IInv, NEW r \in Runner, NEW p \in BOOLEAN, agent[r].at \in {"got", "running"},
         Becomes(r, Reporting(agent[r].job, p, 1)),
         ended' = ended \cup {<<r, agent[r].job, p>>},
         UNCHANGED <<jobs, gone, late, due, missed, begun>>
  PROVE  IInv'
<1>. DEFINE j == agent[r].job
            a == Reporting(j, p, 1)
<1>0. /\ Types /\ SoundRows(jobs) /\ missed' \in [Runner -> Nat] /\ agent \in [Runner -> Agent]
      /\ \A k \in JobId : jobs[k].attempts \in Nat
  BY InvTypes DEF Types
<1>1. j \in JobId /\ 1 \in 1..TRIES
  BY <1>0, AgentShapes DEF TRIES
<1>2. /\ a \in Agent /\ a.at = "reporting" /\ a.job = j /\ a.passed = p
      /\ agent' \in [Runner -> Agent] /\ due \subseteq Up'
      /\ agent'[r] = a /\ \A s \in Runner \ {r} : agent'[s] = agent[s]
  BY <1>0, <1>1, BecomesTypes, AgentTypes, AgentFields
<1>. HIDE DEF a
<1>3. Sound(jobs)'
  BY DEF IInv
<1>4. Types'
  BY <1>0, <1>1, <1>2 DEF Types
<1>5. ExecutionsBounded'
  <2>1. \A k \in JobId : GotBy(k)' \subseteq GotBy(k)
    BY <1>2, AgentFields DEF GotBy
  <2>2. \A k \in JobId : jobs'[k].attempts >= jobs[k].attempts
    BY <1>0
  <2>. QED
    BY <1>0, <2>1, <2>2, ExecutionsKept DEF IInv
<1>6. RecordedIsReal'
  BY RecordedKept DEF IInv
<1>7. ReportsAreReal'
  BY <1>2, ReportsKept DEF IInv
<1>8. LeaseIsKept'
  BY <1>0, <1>2, LeaseKept DEF IInv, WorksOn, Holds
<1>. QED
  BY <1>3, <1>4, <1>5, <1>6, <1>7, <1>8 DEF IInv

(* The run a test server starts is one it was about to start, so the sum   *)
(* of both stays.                                                          *)
LEMMA BeginInv ==
  ASSUME IInv, NEW r \in Runner, Begin(r)
  PROVE  IInv'
<1>. DEFINE j == agent[r].job
<1>0. /\ Types /\ SoundRows(jobs) /\ Sound(jobs) /\ missed' \in [Runner -> Nat]
      /\ agent \in [Runner -> Agent]
  BY InvTypes DEF IInv, Types, Begin
<1>1. j \in JobId /\ agent[r] = Got(j) /\ agent[r].at = "got"
  BY <1>0, AgentShapes DEF Begin
<1>2. /\ Becomes(r, Running(j)) /\ begun' = [begun EXCEPT ![j] = begun[j] + 1]
      /\ UNCHANGED <<gone, late, due, missed, ended>>
      /\ \/ CanMarkRunning(jobs, j, r) /\ jobs' = MarkedRunning(jobs, j)
         \/ UNCHANGED jobs
  BY DEF Begin
<1>. HIDE DEF j
<1>3. /\ agent' \in [Runner -> Agent] /\ due \subseteq Up'
      /\ agent'[r] = Running(j) /\ \A s \in Runner \ {r} : agent'[s] = agent[s]
  BY <1>0, <1>1, <1>2, BecomesTypes, AgentTypes, AgentFields
<1>4. /\ Sound(jobs') /\ SoundRows(jobs')
      /\ \A k \in JobId :
           /\ jobs'[k].attempts = jobs[k].attempts /\ jobs'[k].runner = jobs[k].runner
           /\ jobs'[k].lease = jobs[k].lease
           /\ \/ jobs'[k].state = jobs[k].state
              \/ jobs[k].state = CLAIMED /\ jobs'[k].state = RUNNING
  <2>1. CASE CanMarkRunning(jobs, j, r) /\ jobs' = MarkedRunning(jobs, j)
    BY <1>0, <1>1, <2>1, StartedMoves, SoundHas
  <2>2. CASE jobs' = jobs
    BY <1>0, <2>2
  <2>. QED
    BY <1>2, <2>1, <2>2
<1>5. Types'
  <2>1. begun' \in [JobId -> Nat]
    BY <1>0, <1>1, <1>2 DEF Types
  <2>. QED
    BY <1>0, <1>2, <1>3, <2>1 DEF Types
<1>6. ExecutionsBounded'
  <2>. SUFFICES ASSUME NEW k \in JobId
                PROVE  begun'[k] + Cardinality(GotBy(k)') <= jobs'[k].attempts
    BY DEF ExecutionsBounded, GotBy
  <2>1. /\ begun[k] \in Nat /\ jobs[k].attempts \in Nat
        /\ jobs'[k].attempts = jobs[k].attempts
    BY <1>0, <1>4 DEF Types, SoundRows, GoodRow
  <2>2. /\ GotBy(k) \in SUBSET Runner /\ Cardinality(GotBy(k)) \in Nat
        /\ begun[k] + Cardinality(GotBy(k)) <= jobs[k].attempts
    BY GotByIsFinite DEF IInv, ExecutionsBounded, GotBy
  <2>3. CASE k = j
    <3>1. r \in GotBy(k) /\ GotBy(k)' = GotBy(k) \ {r}
      BY <1>1, <1>3, <2>3, AgentFields DEF GotBy
    <3>2. Cardinality(GotBy(k)') = Cardinality(GotBy(k)) - 1
      BY <2>2, <3>1, OneMoreGot
    <3>3. begun'[k] = begun[k] + 1
      BY <1>0, <1>2, <2>3 DEF Types
    <3>. QED
      BY <2>1, <2>2, <3>2, <3>3
  <2>4. CASE k # j
    <3>1. GotBy(k)' = GotBy(k)
      BY <1>1, <1>3, <2>4, AgentFields DEF GotBy
    <3>2. begun'[k] = begun[k]
      BY <1>0, <1>2, <2>4 DEF Types
    <3>. QED
      BY <2>1, <2>2, <3>1, <3>2
  <2>. QED
    BY <2>3, <2>4
<1>7. RecordedIsReal'
  BY <1>2, <1>4, RecordedKept DEF IInv
<1>8. ReportsAreReal'
  <2>1. \A s \in Runner : agent'[s].at = "reporting" => agent'[s] = agent[s]
    BY <1>3, AgentFields
  <2>. QED
    BY <1>2, <2>1, ReportsKept DEF IInv
<1>9. LeaseIsKept'
  <2>1. \A s \in Runner, k \in JobId : WorksOn(s, k)' => WorksOn(s, k)
    BY <1>1, <1>3, AgentFields DEF WorksOn
  <2>2. \A s \in Runner, k \in JobId : Holds(s, k)' => Holds(s, k)
    BY <1>4 DEF Holds
  <2>. QED
    BY <1>0, <1>2, <1>4, <2>1, <2>2, LeaseKept DEF IInv
<1>. QED
  BY <1>4, <1>5, <1>6, <1>7, <1>8, <1>9, SoundPrimed DEF IInv

(* The row a result is recorded in is that of the run the result is of.    *)
LEMMA ResultRows ==
  ASSUME IInv, NEW j \in JobId, NEW r \in Runner, NEW p \in BOOLEAN,
         <<r, j, p>> \in ended, UNCHANGED ended,
         \/ CanFinish(jobs, j, r) /\ jobs' = Finished(jobs, j, p)
         \/ UNCHANGED jobs
  PROVE  /\ Sound(jobs)' /\ SoundRows(jobs')
         /\ RecordedIsReal'
         /\ \A k \in JobId :
              /\ jobs'[k].attempts >= jobs[k].attempts
              /\ jobs'[k] = jobs[k] \/ jobs'[k].state \in {DONE, FAILED}
<1>0. Sound(jobs) /\ RecordedIsReal /\ \A k \in JobId : jobs[k].attempts \in Nat
  BY InvTypes DEF IInv
<1>1. CASE CanFinish(jobs, j, r) /\ jobs' = Finished(jobs, j, p)
  <2>1. /\ Sound(jobs') /\ SoundRows(jobs')
        /\ jobs'[j].state = IF p THEN DONE ELSE FAILED
        /\ jobs'[j].runner = r /\ jobs'[j].attempts = jobs[j].attempts
        /\ \A k \in JobId \ {j} : jobs'[k] = jobs[k]
    BY <1>0, <1>1, FinishedMoves, SoundHas
  <2>2. RecordedIsReal'
    BY <1>0, <2>1, RecordedKept
  <2>. QED
    BY <1>0, <2>1, <2>2, SoundPrimed
<1>2. CASE UNCHANGED jobs
  BY <1>0, <1>2, RecordedKept, SoundHas, SoundPrimed
<1>. QED
  BY <1>1, <1>2

LEMMA ReportInv ==
  ASSUME IInv, NEW r \in Runner, Report(r)
  PROVE  IInv'
<1>. DEFINE j == agent[r].job
            p == agent[r].passed
<1>0. /\ Types /\ SoundRows(jobs) /\ missed' \in [Runner -> Nat]
      /\ agent \in [Runner -> Agent] /\ agent[r].at = "reporting"
  BY InvTypes DEF Types, Report
<1>1. j \in JobId /\ p \in BOOLEAN /\ <<r, j, p>> \in ended
  BY <1>0, AgentShapes DEF IInv, ReportsAreReal
<1>2. PICK a \in Agent : /\ Becomes(r, a)
                         /\ \/ a = Idle
                            \/ a.at = "reporting" /\ a.job = j /\ a.passed = p
  <2>1. Becomes(r, Idle) \/ NextTry(r)
    BY DEF Report
  <2>. QED
    BY <1>0, <2>1, NextTryMakes, AgentTypes
<1>3. /\ agent' \in [Runner -> Agent] /\ due \subseteq Up'
      /\ agent'[r] = a /\ \A s \in Runner \ {r} : agent'[s] = agent[s]
      /\ a.at \in {"idle", "reporting"}
  BY <1>0, <1>2, BecomesTypes, AgentFields
<1>4. /\ \/ CanFinish(jobs, j, r) /\ jobs' = Finished(jobs, j, p)
         \/ UNCHANGED jobs
      /\ late' = late \/ late' = late \cup {[runner |-> r, job |-> j, passed |-> p]}
      /\ UNCHANGED <<gone, due, missed, begun, ended>>
  BY DEF Report, ReportOf
<1>. HIDE DEF j, p
<1>5. /\ Sound(jobs)' /\ SoundRows(jobs') /\ RecordedIsReal'
      /\ \A k \in JobId : /\ jobs'[k].attempts >= jobs[k].attempts
                          /\ jobs'[k] = jobs[k] \/ jobs'[k].state \in {DONE, FAILED}
  BY <1>1, <1>4, ResultRows
<1>6. Types'
  <2>1. late' \subseteq [runner : Runner, job : JobId, passed : BOOLEAN]
    BY <1>0, <1>1, <1>4 DEF Types
  <2>. QED
    BY <1>0, <1>3, <1>4, <2>1 DEF Types
<1>7. ExecutionsBounded'
  <2>1. \A k \in JobId : GotBy(k)' \subseteq GotBy(k)
    BY <1>3, AgentFields DEF GotBy
  <2>. QED
    BY <1>0, <1>4, <1>5, <2>1, ExecutionsKept DEF IInv
<1>8. ReportsAreReal'
  <2>1. UNCHANGED ended /\ ReportsAreReal
    BY <1>4 DEF IInv
  <2>2. ASSUME NEW m \in late'
        PROVE  <<m.runner, m.job, m.passed>> \in ended
    <3>1. CASE m \in late
      BY <2>1, <3>1 DEF ReportsAreReal
    <3>2. CASE m = [runner |-> r, job |-> j, passed |-> p]
      BY <1>1, <3>2
    <3>. QED
      BY <1>4, <3>1, <3>2
  <2>3. \A s \in Runner : agent'[s].at = "reporting"
                          => <<s, agent'[s].job, agent'[s].passed>> \in ended
    BY <1>0, <1>1, <1>2, <1>3, AgentFields, <2>1 DEF ReportsAreReal
  <2>. QED
    BY <2>1, <2>2, <2>3 DEF ReportsAreReal
<1>9. LeaseIsKept'
  <2>1. \A s \in Runner, k \in JobId : WorksOn(s, k)' => WorksOn(s, k)
    BY <1>0, <1>2, <1>3, AgentFields DEF WorksOn, j
  <2>2. \A s \in Runner, k \in JobId :
          Holds(s, k)' => Holds(s, k) /\ jobs'[k].lease = jobs[k].lease
    BY <1>5 DEF Holds
  <2>. QED
    BY <1>0, <1>4, <2>1, <2>2, LeaseKept DEF IInv
<1>. QED
  BY <1>5, <1>6, <1>7, <1>8, <1>9 DEF IInv

LEMMA LateResultInv ==
  ASSUME IInv, NEW m \in late, LateResult(m)
  PROVE  IInv'
<1>0. Types /\ SoundRows(jobs) /\ missed' \in [Runner -> Nat]
  BY InvTypes DEF LateResult
<1>1. /\ m.job \in JobId /\ m.runner \in Runner /\ m.passed \in BOOLEAN
      /\ <<m.runner, m.job, m.passed>> \in ended
  BY <1>0 DEF Types, IInv, ReportsAreReal
<1>2. /\ Sound(jobs)' /\ SoundRows(jobs') /\ RecordedIsReal'
      /\ \A k \in JobId : /\ jobs'[k].attempts >= jobs[k].attempts
                          /\ jobs'[k] = jobs[k] \/ jobs'[k].state \in {DONE, FAILED}
  BY <1>1, ResultRows DEF LateResult
<1>3. Types'
  BY <1>0 DEF Types, LateResult, Up
<1>4. ExecutionsBounded'
  <2>1. \A k \in JobId : GotBy(k)' \subseteq GotBy(k)
    BY DEF GotBy, LateResult
  <2>. QED
    BY <1>0, <1>2, <2>1, ExecutionsKept DEF IInv, LateResult
<1>5. ReportsAreReal'
  BY ReportsKept DEF IInv, LateResult
<1>6. LeaseIsKept'
  BY <1>0, <1>2, LeaseKept DEF IInv, WorksOn, Holds, LateResult
<1>. QED
  BY <1>2, <1>3, <1>4, <1>5, <1>6 DEF IInv

(* A heartbeat that is lost uses up one interval of the leases of its      *)
(* sender, one that arrives begins them anew.                              *)
LEMMA BeatInv ==
  ASSUME IInv, NEW r \in Runner, Beat(r)
  PROVE  IInv'
<1>0. /\ Types /\ SoundRows(jobs) /\ Sound(jobs)
      /\ missed \in [Runner -> 0..(LeaseTicks - 1)] /\ missed[r] \in Nat
      /\ \A k \in JobId : jobs[k].attempts \in Nat
  BY InvTypes DEF IInv, Types
<1>1. /\ r \in due /\ due' = due \ {r} /\ UNCHANGED <<agent, gone, late, begun, ended>>
      /\ \/ jobs' = Renewed(jobs, r) /\ missed' = [missed EXCEPT ![r] = 0]
         \/ /\ UNCHANGED jobs
            /\ missed' = [missed EXCEPT ![r] = IF missed[r] < LeaseTicks - 1
                                               THEN missed[r] + 1 ELSE missed[r]]
  BY DEF Beat
<1>2. /\ Sound(jobs') /\ SoundRows(jobs')
      /\ \A k \in JobId :
           /\ jobs'[k].state = jobs[k].state /\ jobs'[k].runner = jobs[k].runner
           /\ jobs'[k].attempts >= jobs[k].attempts
           /\ \/ jobs'[k].lease = jobs[k].lease
              \/ Holds(r, k) /\ jobs'[k].lease = LeaseTicks
  BY <1>0, <1>1, RenewedMoves, SoundHas
<1>3. missed' \in [Runner -> 0..(LeaseTicks - 1)] /\ missed' \in [Runner -> Nat]
  <2>1. /\ 0 \in 0..(LeaseTicks - 1)
        /\ (IF missed[r] < LeaseTicks - 1 THEN missed[r] + 1 ELSE missed[r])
              \in 0..(LeaseTicks - 1)
    BY <1>0, LeaseAssumption
  <2>2. missed' \in [Runner -> 0..(LeaseTicks - 1)]
    BY <1>0, <1>1, <2>1
  <2>. QED
    BY <2>2, LeaseAssumption
<1>4. Types'
  BY <1>0, <1>1, <1>3 DEF Types, Up
<1>5. ExecutionsBounded'
  <2>1. \A k \in JobId : GotBy(k)' \subseteq GotBy(k)
    BY <1>1 DEF GotBy
  <2>. QED
    BY <1>0, <1>1, <1>2, <2>1, ExecutionsKept DEF IInv
<1>6. RecordedIsReal'
  BY <1>1, <1>2, RecordedKept DEF IInv
<1>7. ReportsAreReal'
  BY <1>1, ReportsKept DEF IInv
<1>8. LeaseIsKept'
  <2>1. CASE jobs' = Renewed(jobs, r) /\ missed' = [missed EXCEPT ![r] = 0]
    <3>1. \A k \in JobId : /\ Holds(r, k) => jobs'[k].lease = LeaseTicks
                           /\ ~Holds(r, k) => jobs'[k].lease = jobs[k].lease
      BY <1>0, <2>1, RenewedMoves
    <3>2. \A s \in Runner \ {r} : missed'[s] = missed[s] /\ (s \in due' <=> s \in due)
      BY <1>0, <1>1, <2>1
    <3>3. \A s \in Runner, k \in JobId : WorksOn(s, k)' /\ Holds(s, k)'
                                         => WorksOn(s, k) /\ Holds(s, k)
      BY <1>1, <1>2 DEF WorksOn, Holds
    <3>4. \A s \in Runner \ {r}, k \in JobId : Holds(s, k) => ~Holds(r, k)
      BY DEF Holds
    <3>. QED
      BY <1>3, <3>1, <3>2, <3>3, <3>4, LeaseKept DEF IInv
  <2>2. CASE /\ UNCHANGED jobs
             /\ missed' = [missed EXCEPT ![r] = IF missed[r] < LeaseTicks - 1
                                                THEN missed[r] + 1 ELSE missed[r]]
    <3>. SUFFICES ASSUME NEW s \in Runner, NEW k \in JobId, WorksOn(s, k), Holds(s, k)
                  PROVE  \/ missed'[s] >= LeaseTicks - 1
                         \/ jobs[k].lease + missed'[s] + (IF s \in due' THEN 1 ELSE 0)
                              >= LeaseTicks
      BY <1>1, <2>2 DEF LeaseIsKept, WorksOn, Holds
    <3>1. \/ missed[s] >= LeaseTicks - 1
          \/ jobs[k].lease + missed[s] + (IF s \in due THEN 1 ELSE 0) >= LeaseTicks
      BY DEF IInv, LeaseIsKept
    <3>2. CASE s # r
      BY <1>0, <1>1, <2>2, <3>1, <3>2
    <3>3. CASE s = r
      <4>1. r \in due /\ r \notin due'
        BY <1>1
      <4>2. missed'[r] = IF missed[r] < LeaseTicks - 1 THEN missed[r] + 1 ELSE missed[r]
        BY <1>0, <2>2
      <4>3. jobs[k].lease \in Nat
        <5>1. jobs[k].state \in BUSY_STATES /\ jobs[k].runner # NULL
          BY NullAssumption DEF Holds
        <5>. QED
          BY <1>0, <5>1 DEF SoundRows, GoodRow
      <4>. QED
        BY <1>0, <3>1, <3>3, <4>1, <4>2, <4>3, LeaseAssumption
    <3>. QED
      BY <3>2, <3>3
  <2>. QED
    BY <1>1, <2>1, <2>2
<1>. QED
  BY <1>2, <1>4, <1>5, <1>6, <1>7, <1>8, SoundPrimed DEF IInv

(* As an interval goes by every lease loses one tick, and every test       *)
(* server that works on a job has a heartbeat due.                         *)
LEMMA TickInv ==
  ASSUME IInv, Tick
  PROVE  IInv'
<1>0. /\ Types /\ SoundRows(jobs) /\ Sound(jobs) /\ missed \in [Runner -> Nat]
      /\ agent \in [Runner -> Agent]
      /\ \A k \in JobId : jobs[k].attempts \in Nat
  BY InvTypes DEF IInv, Types
<1>1. /\ due = {} /\ due' = Up /\ UNCHANGED <<agent, gone, late, missed, begun, ended>>
      /\ jobs' = Aged(jobs)
  BY DEF Tick
<1>2. /\ Sound(jobs') /\ SoundRows(jobs')
      /\ \A k \in JobId :
           /\ jobs'[k].state = jobs[k].state /\ jobs'[k].runner = jobs[k].runner
           /\ jobs'[k].attempts = jobs[k].attempts
           /\ jobs[k].lease # NULL =>
                jobs'[k].lease = IF jobs[k].lease = 0 THEN 0 ELSE jobs[k].lease - 1
  BY <1>0, <1>1, AgedMoves, SoundHas
<1>3. Types'
  BY <1>0, <1>1 DEF Types, Up
<1>4. ExecutionsBounded'
  <2>1. \A k \in JobId : GotBy(k)' \subseteq GotBy(k)
    BY <1>1 DEF GotBy
  <2>2. \A k \in JobId : jobs'[k].attempts >= jobs[k].attempts
    BY <1>0, <1>2
  <2>. QED
    BY <1>0, <1>1, <1>2, <2>1, <2>2, ExecutionsKept DEF IInv
<1>5. RecordedIsReal'
  BY <1>1, <1>2, RecordedKept DEF IInv
<1>6. ReportsAreReal'
  BY <1>1, ReportsKept DEF IInv
<1>7. LeaseIsKept'
  <2>. SUFFICES ASSUME NEW s \in Runner, NEW k \in JobId, WorksOn(s, k), Holds(s, k)
                PROVE  \/ missed[s] >= LeaseTicks - 1
                       \/ jobs'[k].lease + missed[s] + (IF s \in due' THEN 1 ELSE 0)
                            >= LeaseTicks
    BY <1>1, <1>2 DEF LeaseIsKept, WorksOn, Holds
  <2>1. s \in due' /\ s \notin due
    BY <1>1 DEF Up, WorksOn
  <2>2. jobs[k].lease \in Nat /\ missed[s] \in Nat
    <3>1. jobs[k].state \in BUSY_STATES /\ jobs[k].runner # NULL
      BY NullAssumption DEF Holds
    <3>. QED
      BY <1>0, <3>1 DEF SoundRows, GoodRow
  <2>3. missed[s] >= LeaseTicks - 1 \/ jobs[k].lease + missed[s] >= LeaseTicks
    BY <2>1, <2>2, LeaseAssumption DEF IInv, LeaseIsKept
  <2>4. jobs'[k].lease = IF jobs[k].lease = 0 THEN 0 ELSE jobs[k].lease - 1
    BY <1>2, <2>2, NullAssumption
  <2>. QED
    BY <2>1, <2>2, <2>3, <2>4, LeaseAssumption
<1>. QED
  BY <1>2, <1>3, <1>4, <1>5, <1>6, <1>7, SoundPrimed DEF IInv

LEMMA StopInv ==
  ASSUME IInv, NEW r \in Runner, Stop(r)
  PROVE  IInv'
<1>0. /\ Types /\ SoundRows(jobs) /\ missed \in [Runner -> 0..(LeaseTicks - 1)]
      /\ gone \in [Runner -> 0..MaxGone] /\ MaxGone \in Nat
      /\ \A k \in JobId : jobs[k].attempts \in Nat
  BY InvTypes, FleetAssumption DEF Types
<1>1. PICK a \in {Off, Dead} : Becomes(r, a)
  BY DEF Stop
<1>2. /\ due' = due \ {r} /\ missed' = [missed EXCEPT ![r] = 0]
      /\ UNCHANGED <<jobs, late, begun, ended>>
      /\ \/ UNCHANGED gone
         \/ gone[r] < MaxGone /\ gone' = [gone EXCEPT ![r] = gone[r] + 1]
  BY DEF Stop, LeavesClaim
<1>3. /\ a \in Agent /\ a.at \in {"off", "dead"}
      /\ agent' \in [Runner -> Agent]
      /\ agent'[r] = a /\ \A s \in Runner \ {r} : agent'[s] = agent[s]
  BY <1>0, <1>1, BecomesTypes, AgentTypes, AgentFields
<1>4. missed' \in [Runner -> 0..(LeaseTicks - 1)] /\ missed' \in [Runner -> Nat]
  <2>1. 0 \in 0..(LeaseTicks - 1)
    BY LeaseAssumption
  <2>2. missed' \in [Runner -> 0..(LeaseTicks - 1)]
    BY <1>0, <1>2, <2>1
  <2>. QED
    BY <2>2, LeaseAssumption
<1>5. Types'
  <2>1. gone' \in [Runner -> 0..MaxGone]
    BY <1>0, <1>2
  <2>2. due' \subseteq Up'
    BY <1>0, <1>2, <1>3 DEF Types, Up
  <2>. QED
    BY <1>0, <1>2, <1>3, <1>4, <2>1, <2>2 DEF Types
<1>6. ExecutionsBounded'
  <2>1. \A k \in JobId : GotBy(k)' \subseteq GotBy(k)
    BY <1>3, AgentFields DEF GotBy
  <2>2. \A k \in JobId : jobs'[k].attempts >= jobs[k].attempts
    BY <1>0, <1>2
  <2>. QED
    BY <1>0, <1>2, <2>1, <2>2, ExecutionsKept DEF IInv
<1>7. RecordedIsReal'
  BY <1>2, RecordedKept DEF IInv
<1>8. ReportsAreReal'
  BY <1>2, <1>3, ReportsKept DEF IInv
<1>9. LeaseIsKept'
  <2>1. \A s \in Runner, k \in JobId : WorksOn(s, k)' => s # r /\ WorksOn(s, k)
    BY <1>3 DEF WorksOn
  <2>2. \A s \in Runner \ {r} : missed'[s] = missed[s] /\ (s \in due' <=> s \in due)
    BY <1>0, <1>2
  <2>3. \A s \in Runner, k \in JobId :
          Holds(s, k)' => Holds(s, k) /\ jobs'[k].lease = jobs[k].lease
    BY <1>2 DEF Holds
  <2>. QED
    BY <1>4, <2>1, <2>2, <2>3, LeaseKept DEF IInv
<1>. QED
  BY <1>2, <1>5, <1>6, <1>7, <1>8, <1>9 DEF IInv

LEMMA NextInv == IInv /\ [Next]_vars => IInv'
<1>. SUFFICES ASSUME IInv, [Next]_vars
              PROVE  IInv'
  OBVIOUS
<1>1. ASSUME NEW j \in JobId, Enqueue(j) PROVE IInv'
  BY <1>1, EnqueueInv
<1>2. ASSUME NEW r \in Runner, Enrol(r) \/ Poll(r) \/ BusyUntilDeadline(r) \/ HangUp(r)
      PROVE  IInv'
  <2>1. gone \in [Runner -> 0..MaxGone] /\ MaxGone \in Nat
    BY InvTypes, FleetAssumption DEF Types
  <2>2. gone' \in [Runner -> 0..MaxGone]
    <3>1. UNCHANGED gone \/ LeavesClaim(r)
      BY <1>2 DEF Enrol, Poll, BusyUntilDeadline, HangUp
    <3>. QED
      BY <2>1, <3>1 DEF LeavesClaim
  <2>3. Becomes(r, Idle) \/ Becomes(r, Polling)
    BY <1>2 DEF Enrol, Poll, BusyUntilDeadline, HangUp
  <2>4. UNCHANGED <<jobs, late, due, missed, begun, ended>>
    BY <1>2 DEF Enrol, Poll, BusyUntilDeadline, HangUp
  <2>. QED
    BY <2>2, <2>3, <2>4, WaitsInv
<1>3. ASSUME NEW r \in Runner, ServeClaim(r) PROVE IInv'
  BY <1>3, ServeClaimInv
<1>4. ASSUME NEW r \in Runner, ServeGoneClaim(r) PROVE IInv'
  BY <1>4, ServeGoneClaimInv
<1>5. ASSUME NEW r \in Runner, Refuse(r) PROVE IInv'
  BY <1>5, EndsInv DEF Refuse
<1>6. ASSUME NEW r \in Runner, Begin(r) PROVE IInv'
  BY <1>6, BeginInv
<1>7. ASSUME NEW r \in Runner, NEW passed \in BOOLEAN, End(r, passed) PROVE IInv'
  BY <1>7, EndsInv DEF End
<1>8. ASSUME NEW r \in Runner, Report(r) PROVE IInv'
  BY <1>8, ReportInv
<1>9. ASSUME NEW r \in Runner, Beat(r) PROVE IInv'
  BY <1>9, BeatInv
<1>10. ASSUME NEW r \in Runner, Stop(r) PROVE IInv'
  BY <1>10, StopInv
<1>11. ASSUME NEW m \in late, LateResult(m) PROVE IInv'
  BY <1>11, LateResultInv
<1>12. CASE Tick
  BY <1>12, TickInv
<1>13. CASE UNCHANGED vars
  BY <1>13 DEF vars, IInv, Sound, Table, CustodyIn, DispatchedStaysOutIn, AttemptsBoundedIn,
     JobCapIn, RunningCapIn, BacklogBoundIn, Held, ActiveOf, BusyIn, BacklogIn, InState,
     Types, Up, ExecutionsBounded, RecordedIsReal, ReportsAreReal, LeaseIsKept, WorksOn, Holds
<1>. QED
  BY <1>1, <1>2, <1>3, <1>4, <1>5, <1>6, <1>7, <1>8, <1>9, <1>10, <1>11, <1>12, <1>13
     DEF Next

(* IInv holds in every reachable state of the fleet.                       *)
THEOREM AlwaysInv == Spec => []IInv
BY InitInv, NextInv, PTL DEF Spec
-----------------------------------------------------------------------------
(* The bound of the executions by the attempts, and theirs by MaxAttempts. *)
LEMMA BegunBound ==
  ASSUME IInv, NEW j \in JobId
  PROVE  begun[j] \in 0..MaxAttempts
<1>1. /\ begun[j] \in Nat /\ Cardinality(GotBy(j)) \in Nat
      /\ jobs[j].attempts \in Nat /\ jobs[j].attempts <= MaxAttempts
  BY InvTypes, GotByIsFinite DEF Types, SoundRows, GoodRow, GotBy
<1>2. begun[j] + Cardinality(GotBy(j)) <= jobs[j].attempts
  BY DEF IInv, ExecutionsBounded, GotBy
<1>. QED
  BY <1>1, <1>2, LeaseAssumption

(* The fleet's state keeps its types; no job is ever started more than     *)
(* MaxAttempts times.                                                      *)
THEOREM TypeCorrect == Spec => []TypeOK
<1>1. ASSUME IInv PROVE TypeOK
  <2>1. begun \in [JobId -> 0..MaxAttempts]
    BY <1>1, InvTypes, BegunBound DEF Types
  <2>2. jobs \in Table
    BY <1>1 DEF IInv, Sound
  <2>. QED
    BY <1>1, <2>1, <2>2 DEF IInv, Types, TypeOK
<1>. QED
  BY <1>1, AlwaysInv, PTL

(* A job is started on no more machines than it was handed out times,      *)
(* whatever is lost, late, repeated or crashed.                            *)
THEOREM ExecutionsAlwaysBounded == Spec => []ExecutionsBounded
<1>1. IInv => ExecutionsBounded
  BY DEF IInv
<1>. QED
  BY <1>1, AlwaysInv, PTL

(* The row of a finished run names a test server on which it ended so.     *)
THEOREM RecordedIsAlwaysReal == Spec => []RecordedIsReal
<1>1. IInv => RecordedIsReal
  BY DEF IInv
<1>. QED
  BY <1>1, AlwaysInv, PTL

(* What is held under a lease that is not over leaves its test server only *)
(* with a result.                                                          *)
LEMMA HeldMoves ==
  ASSUME IInv, [Next]_vars, NEW r \in Runner, NEW k \in JobId, Holds(r, k),
         jobs[k].lease # 0
  PROVE  /\ jobs'[k].state \in {DONE, FAILED} \/ Holds(r, k)'
         /\ jobs'[k].runner = jobs[k].runner
<1>0. /\ Sound(jobs) /\ SoundRows(jobs)
      /\ jobs[k].state \in BUSY_STATES /\ jobs[k].runner = r
      /\ Reaped(jobs)[k] = jobs[k]
  <2>1. Sound(jobs) /\ SoundRows(jobs) /\ jobs[k].state \in BUSY_STATES /\ jobs[k].runner = r
    BY InvTypes DEF IInv, Holds
  <2>2. Held(jobs, k)
    BY <2>1, NullAssumption DEF SoundRows, GoodRow, Held
  <2>. QED
    BY <2>1, <2>2, ReapedLeaves
<1>1. ASSUME NEW j \in JobId, Enqueue(j) PROVE jobs'[k] = jobs[k]
  <2>1. jobs[j].state = ABSENT /\ j # k
    BY <1>0, <1>1 DEF Enqueue, EnqueueAccepted, Duplicate
  <2>. QED
    BY <1>0, <1>1, <2>1 DEF SoundRows, Enqueue, Enqueued, Inserted
<1>2. ASSUME NEW s \in Runner, ServeClaim(s) \/ ServeGoneClaim(s) PROVE jobs'[k] = jobs[k]
  <2>1. jobs' = Reaped(jobs) \/ \E j \in JobId : HandsOut(s, Reaped(jobs), j)
    BY <1>2 DEF ServeClaim, ServeGoneClaim, FindsNothing
  <2>2. ASSUME NEW j \in JobId, HandsOut(s, Reaped(jobs), j) PROVE jobs'[k] = jobs[k]
    <3>1. Reaped(jobs)[j].state = QUEUED
      BY <2>2 DEF HandsOut, Oldest, Claimable, InState
    <3>2. j # k
      BY <1>0, <3>1
    <3>. QED
      BY <1>0, <2>2, <3>2, HandedOut
  <2>. QED
    BY <1>0, <2>1, <2>2
<1>3. ASSUME NEW s \in Runner, Begin(s)
      PROVE  jobs'[k].state \in BUSY_STATES /\ jobs'[k].runner = r
  <2>1. agent[s].job \in JobId
    BY <1>3, InvTypes, AgentShapes DEF Types, Begin
  <2>2. \/ UNCHANGED jobs
        \/ /\ CanMarkRunning(jobs, agent[s].job, s)
           /\ jobs' = MarkedRunning(jobs, agent[s].job)
    BY <1>3 DEF Begin
  <2>. QED
    BY <1>0, <2>1, <2>2, StartedMoves
<1>4. ASSUME NEW s \in Runner, Report(s)
      PROVE  jobs'[k] = jobs[k] \/ (jobs'[k].state \in {DONE, FAILED} /\ jobs'[k].runner = r)
  <2>1. agent[s].job \in JobId /\ agent[s].passed \in BOOLEAN
    BY <1>4, InvTypes, AgentShapes DEF Types, Report
  <2>2. \/ UNCHANGED jobs
        \/ /\ CanFinish(jobs, agent[s].job, s)
           /\ jobs' = Finished(jobs, agent[s].job, agent[s].passed)
    BY <1>4 DEF Report
  <2>. QED
    BY <1>0, <2>1, <2>2, FinishedMoves DEF CanFinish
<1>5. ASSUME NEW m \in late, LateResult(m)
      PROVE  jobs'[k] = jobs[k] \/ (jobs'[k].state \in {DONE, FAILED} /\ jobs'[k].runner = r)
  <2>1. m.runner \in Runner /\ m.job \in JobId /\ m.passed \in BOOLEAN
    BY InvTypes DEF Types
  <2>. QED
    BY <1>0, <1>5, <2>1, FinishedMoves DEF CanFinish, LateResult
<1>6. ASSUME NEW s \in Runner, Beat(s)
      PROVE  jobs'[k].state \in BUSY_STATES /\ jobs'[k].runner = r
  BY <1>0, <1>6, RenewedMoves DEF Beat
<1>7. ASSUME Tick
      PROVE  jobs'[k].state \in BUSY_STATES /\ jobs'[k].runner = r
  BY <1>0, <1>7, AgedMoves DEF Tick
<1>8. ASSUME NEW s \in Runner,
             \/ Enrol(s) \/ Poll(s) \/ BusyUntilDeadline(s) \/ HangUp(s)
             \/ Refuse(s) \/ Stop(s) \/ \E passed \in BOOLEAN : End(s, passed)
      PROVE  jobs'[k] = jobs[k]
  BY <1>8 DEF Enrol, Poll, BusyUntilDeadline, HangUp, Refuse, Stop, End
<1>9. CASE UNCHANGED vars
  BY <1>0, <1>9 DEF vars, Holds
<1>. QED
  BY <1>0, <1>1, <1>2, <1>3, <1>4, <1>5, <1>6, <1>7, <1>8, <1>9 DEF Next, Holds

(* A busy test server loses its job only with its result, or after as many *)
(* lost heartbeats in a row as fit inside a lease: by then the lease, kept *)
(* up by the others (LeaseIsKept), may be over.                            *)
THEOREM BusyIsNeverDead == Spec => BusyIsNotDead
<1>1. ASSUME IInv, [Next]_vars, NEW r \in Runner, NEW j \in JobId,
             WorksOn(r, j), Holds(r, j), ~Holds(r, j)'
      PROVE  jobs'[j].state \in {DONE, FAILED} \/ missed[r] >= LeaseTicks - 1
  <2>1. CASE jobs[j].lease # 0
    BY <1>1, <2>1, HeldMoves
  <2>2. CASE jobs[j].lease = 0
    <3>1. missed[r] \in Nat
      BY <1>1, InvTypes
    <3>2. \/ missed[r] >= LeaseTicks - 1
          \/ 0 + missed[r] + (IF r \in due THEN 1 ELSE 0) >= LeaseTicks
      BY <1>1, <2>2 DEF IInv, LeaseIsKept
    <3>. QED
      BY <3>1, <3>2, LeaseAssumption
  <2>. QED
    BY <2>1, <2>2
<1>2. IInv /\ [Next]_vars
        => [\A r \in Runner, j \in JobId :
              WorksOn(r, j) /\ Holds(r, j) /\ ~Holds(r, j)'
                => jobs'[j].state \in {DONE, FAILED} \/ missed[r] >= LeaseTicks - 1]_vars
  BY <1>1
<1>. QED
  BY <1>2, AlwaysInv, PTL DEF Spec, BusyIsNotDead
-----------------------------------------------------------------------------
(* Every step of the fleet is a step of the queue store: the operators the *)
(* store is instantiated with are those of the table.                      *)
LEMMA SameStates ==
  /\ Store!ABSENT = ABSENT /\ Store!QUEUED = QUEUED /\ Store!CLAIMED = CLAIMED
  /\ Store!RUNNING = RUNNING /\ Store!DONE = DONE /\ Store!FAILED = FAILED
  /\ Store!ABANDONED = ABANDONED
  /\ Store!ACTIVE_STATES = ACTIVE_STATES /\ Store!BUSY_STATES = BUSY_STATES
BY DEF Store!ABSENT, Store!QUEUED, Store!CLAIMED, Store!RUNNING, Store!DONE, Store!FAILED,
       Store!ABANDONED, Store!ACTIVE_STATES, Store!BUSY_STATES

LEMMA SameCaps ==
  ASSUME NEW T, NEW j
  PROVE  /\ Store!JobAtCapacity(T, j) <=> JobAtCapacity(T, j)
         /\ Store!ChannelQueueFull(T, j) <=> ChannelQueueFull(T, j)
         /\ Store!ChannelBusy(T, j) <=> ChannelBusy(T, j)
<1>1. ASSUME NEW S PROVE Store!Cardinality(S) = Cardinality(S)
  BY DEF Cardinality, Store!Cardinality
<1>2. ASSUME NEW S, NEW cap PROVE Store!AtCap(S, cap) <=> AtCap(S, cap)
  BY <1>1 DEF AtCap, Store!AtCap
<1>3. ASSUME NEW S PROVE Store!InState(T, S) = InState(T, S)
  BY DEF InState, Store!InState
<1>4. ASSUME NEW c PROVE Store!InChannel(c) = InChannel(c)
  BY DEF InChannel, Store!InChannel
<1>5. Store!ActiveOf(T, j) = ActiveOf(T, j)
  BY <1>3, SameStates DEF ActiveOf, Store!ActiveOf, SameJob, Store!SameJob
<1>6. ASSUME NEW c
      PROVE  Store!QueuedIn(T, c) = QueuedIn(T, c) /\ Store!BusyIn(T, c) = BusyIn(T, c)
  BY <1>3, <1>4, SameStates DEF QueuedIn, BusyIn, Store!QueuedIn, Store!BusyIn
<1>. QED
  BY <1>2, <1>5, <1>6 DEF JobAtCapacity, Store!JobAtCapacity, ChannelQueueFull,
     Store!ChannelQueueFull, ChannelBusy, Store!ChannelBusy

LEMMA SameClaim ==
  ASSUME NEW T, NEW labels
  PROVE  /\ Store!Reaped(T) = Reaped(T)
         /\ Store!Claimable(T, labels) = Claimable(T, labels)
         /\ \A S : Store!Oldest(T, S) = Oldest(T, S)
<1>1. \A U : Store!Expired(U) = Expired(U)
  BY SameStates DEF Expired, InState, Store!Expired, Store!InState
<1>2. \A U : Store!Requeued(U) = Requeued(U) /\ Store!Abandoned(U) = Abandoned(U)
  BY <1>1, SameStates DEF Requeued, Abandoned, Store!Requeued, Store!Abandoned
<1>3. Store!Reaped(T) = Reaped(T)
  BY <1>2 DEF Reaped, Store!Reaped
<1>4. Store!Claimable(T, labels) = Claimable(T, labels)
  BY SameStates, SameCaps DEF Claimable, InState, Store!Claimable, Store!InState
<1>5. \A S : Store!Oldest(T, S) = Oldest(T, S)
  BY DEF Oldest, Store!Oldest
<1>. QED
  BY <1>3, <1>4, <1>5

LEMMA SameStatements ==
  ASSUME NEW T, NEW j, NEW at, NEW r, NEW passed
  PROVE  /\ Store!EnqueueAccepted(T, j) <=> EnqueueAccepted(T, j)
         /\ Store!Enqueued(T, j, at) = Enqueued(T, j, at)
         /\ Store!Claimed(T, j, r) = Claimed(T, j, r)
         /\ Store!CanMarkRunning(T, j, r) <=> CanMarkRunning(T, j, r)
         /\ Store!MarkedRunning(T, j) = MarkedRunning(T, j)
         /\ Store!CanFinish(T, j, r) <=> CanFinish(T, j, r)
         /\ Store!Finished(T, j, passed) = Finished(T, j, passed)
         /\ Store!Renewed(T, r) = Renewed(T, r)
         /\ Store!Aged(T) = Aged(T)
<1>1. Store!Duplicate(T, j) <=> Duplicate(T, j)
  BY SameStates DEF Duplicate, Store!Duplicate
<1>2. Store!EnqueueAccepted(T, j) <=> EnqueueAccepted(T, j)
  BY <1>1, SameCaps DEF EnqueueAccepted, Store!EnqueueAccepted
<1>3. Store!Enqueued(T, j, at) = Enqueued(T, j, at)
  BY SameStates DEF Enqueued, Inserted, Store!Enqueued, Store!Inserted
<1>4. Store!Claimed(T, j, r) = Claimed(T, j, r)
  BY SameStates DEF Claimed, Store!Claimed
<1>5. /\ Store!CanMarkRunning(T, j, r) <=> CanMarkRunning(T, j, r)
      /\ Store!MarkedRunning(T, j) = MarkedRunning(T, j)
  BY SameStates DEF CanMarkRunning, MarkedRunning, Store!CanMarkRunning, Store!MarkedRunning
<1>6. /\ Store!CanFinish(T, j, r) <=> CanFinish(T, j, r)
      /\ Store!Finished(T, j, passed) = Finished(T, j, passed)
  BY SameStates DEF CanFinish, Finished, Store!CanFinish, Store!Finished
<1>7. Store!Renewed(T, r) = Renewed(T, r)
  <2>1. Store!HeldBy(T, r) = HeldBy(T, r)
    BY SameStates DEF HeldBy, Store!HeldBy
  <2>. QED
    BY <2>1 DEF Renewed, Store!Renewed
<1>8. Store!Aged(T) = Aged(T)
  BY DEF Aged, Store!Aged
<1>. QED
  BY <1>2, <1>3, <1>4, <1>5, <1>6, <1>7, <1>8

(* Each step is at most one call of the store, made by the test server or  *)
(* for it.                                                                 *)
LEMMA StoreStep ==
  ASSUME IInv, [Next]_vars
  PROVE  [Store!Next]_jobs
<1>1. ASSUME NEW j \in JobId, Enqueue(j) PROVE [Store!Next]_jobs
  BY <1>1, SameStatements DEF Enqueue, Store!Enqueue, Store!Next
<1>2. ASSUME NEW r \in Runner, ServeClaim(r) \/ ServeGoneClaim(r) PROVE [Store!Next]_jobs
  <2>1. \/ \E j \in JobId : HandsOut(r, Reaped(jobs), j)
        \/ FindsNothing(r, Reaped(jobs))
    BY <1>2 DEF ServeClaim, ServeGoneClaim
  <2>2. Store!Claim(r, Labels[r])
    BY <2>1, SameClaim, SameStatements DEF HandsOut, FindsNothing, Store!Claim
  <2>3. Labels[r] \in SUBSET Server
    BY FleetAssumption
  <2>. QED
    BY <2>2, <2>3 DEF Store!Next
<1>3. ASSUME NEW r \in Runner, Begin(r) PROVE [Store!Next]_jobs
  <2>1. agent[r].job \in JobId
    BY <1>3, InvTypes, AgentShapes DEF Types, Begin
  <2>2. UNCHANGED jobs \/ Store!MarkRunning(agent[r].job, r)
    BY <1>3, SameStatements DEF Begin, Store!MarkRunning
  <2>. QED
    BY <2>1, <2>2 DEF Store!Next
<1>4. ASSUME NEW r \in Runner, Report(r) PROVE [Store!Next]_jobs
  <2>1. agent[r].job \in JobId /\ agent[r].passed \in BOOLEAN
    BY <1>4, InvTypes, AgentShapes DEF Types, Report
  <2>2. UNCHANGED jobs \/ Store!Finish(agent[r].job, r, agent[r].passed)
    BY <1>4, SameStatements DEF Report, Store!Finish
  <2>. QED
    BY <2>1, <2>2 DEF Store!Next
<1>5. ASSUME NEW m \in late, LateResult(m) PROVE [Store!Next]_jobs
  <2>1. m.runner \in Runner /\ m.job \in JobId /\ m.passed \in BOOLEAN
    BY InvTypes DEF Types
  <2>2. UNCHANGED jobs \/ Store!Finish(m.job, m.runner, m.passed)
    BY <1>5, SameStatements DEF LateResult, Store!Finish
  <2>. QED
    BY <2>1, <2>2 DEF Store!Next
<1>6. ASSUME NEW r \in Runner, Beat(r) PROVE [Store!Next]_jobs
  <2>1. UNCHANGED jobs \/ Store!Renew(r)
    BY <1>6, SameStatements DEF Beat, Store!Renew
  <2>. QED
    BY <2>1 DEF Store!Next
<1>7. CASE Tick
  BY <1>7, SameStatements DEF Tick, Store!Tick, Store!Next
<1>8. ASSUME NEW s \in Runner,
             \/ Enrol(s) \/ Poll(s) \/ BusyUntilDeadline(s) \/ HangUp(s)
             \/ Refuse(s) \/ Stop(s) \/ \E passed \in BOOLEAN : End(s, passed)
      PROVE  [Store!Next]_jobs
  BY <1>8 DEF Enrol, Poll, BusyUntilDeadline, HangUp, Refuse, Stop, End
<1>9. CASE UNCHANGED vars
  BY <1>9 DEF vars
<1>. QED
  BY <1>1, <1>2, <1>3, <1>4, <1>5, <1>6, <1>7, <1>8, <1>9 DEF Next

(* The fleet is one of the store's callers: whatever holds of every store  *)
(* JobStore describes, its caps and its lifecycle among them, holds of the *)
(* table while test servers crash and messages are lost.                   *)
THEOREM UsesStoreAlways == Spec => UsesStore
<1>1. Init => Store!Init
  BY SameStates DEF Init, EmptyTable, NoRow, Store!Init, Store!EmptyTable, Store!NoRow
<1>2. IInv /\ [Next]_vars => [Store!Next]_jobs
  BY StoreStep
<1>. QED
  BY <1>1, <1>2, AlwaysInv, PTL DEF Spec, UsesStore, Store!Spec
-----------------------------------------------------------------------------
(* What JobStore_proofs proves of the store holds of this table.           *)
StoreProofs == INSTANCE JobStore_proofs

(* The store there is the store here.                                      *)
LEMMA SameStore == Store!Spec <=> StoreProofs!Spec
BY DEF Store!Spec, StoreProofs!Spec, Store!Init, StoreProofs!Init, Store!Next,
       StoreProofs!Next, Store!EmptyTable, StoreProofs!EmptyTable, Store!NoRow,
       StoreProofs!NoRow, Store!Enqueue, StoreProofs!Enqueue, Store!RecordDispatch,
       StoreProofs!RecordDispatch, Store!Claim, StoreProofs!Claim, Store!MarkRunning,
       StoreProofs!MarkRunning, Store!Finish, StoreProofs!Finish,
       Store!MarkNotDispatched, StoreProofs!MarkNotDispatched, Store!Renew,
       StoreProofs!Renew, Store!Reap, StoreProofs!Reap, Store!Tick, StoreProofs!Tick,
       Store!EnqueueAccepted, StoreProofs!EnqueueAccepted, Store!DispatchAccepted,
       StoreProofs!DispatchAccepted, Store!Duplicate, StoreProofs!Duplicate,
       Store!JobAtCapacity, StoreProofs!JobAtCapacity, Store!ChannelQueueFull,
       StoreProofs!ChannelQueueFull, Store!ChannelBusy, StoreProofs!ChannelBusy,
       Store!AtCap, StoreProofs!AtCap, Store!ActiveOf, StoreProofs!ActiveOf,
       Store!SameJob, StoreProofs!SameJob, Store!QueuedIn, StoreProofs!QueuedIn,
       Store!BusyIn, StoreProofs!BusyIn, Store!InChannel, StoreProofs!InChannel,
       Store!InState, StoreProofs!InState, Store!Cardinality, StoreProofs!Cardinality,
       Store!Enqueued, StoreProofs!Enqueued, Store!Dispatched, StoreProofs!Dispatched,
       Store!Inserted, StoreProofs!Inserted, Store!Reaped, StoreProofs!Reaped,
       Store!Expired, StoreProofs!Expired, Store!Requeued, StoreProofs!Requeued,
       Store!Abandoned, StoreProofs!Abandoned, Store!Claimable, StoreProofs!Claimable,
       Store!Oldest, StoreProofs!Oldest, Store!Claimed, StoreProofs!Claimed,
       Store!CanMarkRunning, StoreProofs!CanMarkRunning, Store!MarkedRunning,
       StoreProofs!MarkedRunning, Store!CanFinish, StoreProofs!CanFinish,
       Store!Finished, StoreProofs!Finished, Store!CanMarkNotDispatched,
       StoreProofs!CanMarkNotDispatched, Store!MarkedNotDispatched,
       StoreProofs!MarkedNotDispatched, Store!Renewed, StoreProofs!Renewed,
       Store!HeldBy, StoreProofs!HeldBy, Store!Aged, StoreProofs!Aged, Store!ABSENT,
       StoreProofs!ABSENT, Store!QUEUED, StoreProofs!QUEUED, Store!CLAIMED,
       StoreProofs!CLAIMED, Store!RUNNING, StoreProofs!RUNNING, Store!DONE,
       StoreProofs!DONE, Store!FAILED, StoreProofs!FAILED, Store!ABANDONED,
       StoreProofs!ABANDONED, Store!NOT_DISPATCHED, StoreProofs!NOT_DISPATCHED,
       Store!ACTIVE_STATES, StoreProofs!ACTIVE_STATES, Store!BUSY_STATES,
       StoreProofs!BUSY_STATES

LEMMA StoreAssumptions == StoreProofs!IsFiniteSet(JobId)
BY JobAssumption DEF IsFiniteSet, StoreProofs!IsFiniteSet

(* Whatever crashes, is lost or comes late, a run only ever moves along its *)
(* lifecycle: accepted once, held by one test server at a time, handed out *)
(* MaxAttempts times at most, and over for ever.                           *)
THEOREM LifecycleAlwaysKept == Spec => StoreProofs!KeepsLifecycle
<1>1. StoreProofs!Spec => StoreProofs!KeepsLifecycle
  BY StoreAssumptions, JobAssumption, CapsAssumption, LeaseAssumption, StampAssumption,
     NullAssumption, StoreProofs!ImplementsLifecycle
<1>. QED
  BY <1>1, SameStore, UsesStoreAlways, PTL DEF UsesStore

(* A test server never gets a run while an older one it could have got,    *)
(* such as one taken back from a dead test server, stays queued (claim).   *)
THEOREM OldestAlwaysFirst == Spec => StoreProofs!OldestFirst
<1>1. StoreProofs!Spec => StoreProofs!OldestFirst
  BY StoreAssumptions, JobAssumption, CapsAssumption, LeaseAssumption, StampAssumption,
     NullAssumption, StoreProofs!OldestAlwaysFirst
<1>. QED
  BY <1>1, SameStore, UsesStoreAlways, PTL DEF UsesStore
=============================================================================
