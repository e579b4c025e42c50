-------------------------- MODULE JobStore_proofs ---------------------------
(***************************************************************************)
(* The invariants of JobStore hold for every set of runs and test servers  *)
(* and every value of the caps: their conjunction Sound is inductive, as   *)
(* every statement keeps it (JobTable_proofs).  There is one step per      *)
(* action, which only puts the lemmas together.  Then JobStore is shown to *)
(* implement JobLifecycle.                                                 *)
(***************************************************************************)
EXTENDS JobStore, JobTable_proofs

USE DEF ABSENT, QUEUED, CLAIMED, RUNNING, DONE, FAILED, ABANDONED, NOT_DISPATCHED,
        Row, JobState, Mode, ACTIVE_STATES, BUSY_STATES, TERMINAL_STATES
-----------------------------------------------------------------------------
(* Sound is an inductive invariant of the store.                           *)
LEMMA InitSound == Init => Sound(jobs)
<1>. SUFFICES ASSUME Init
              PROVE  Sound(jobs)
  OBVIOUS
<1>1. \A j \in JobId : jobs[j] = NoRow
  BY DEF Init, EmptyTable
<1>2. NoRow \in GoodRow
  BY LeaseAssumption DEF GoodRow, NoRow
<1>3. SoundRows(jobs)
  BY <1>2 DEF SoundRows, Init, EmptyTable
<1>4. InState(jobs, ACTIVE_STATES) = {} /\ InState(jobs, BUSY_STATES) = {}
  BY <1>1 DEF InState, NoRow
<1>5. /\ \A j \in JobId : ActiveOf(jobs, j) = {}
      /\ \A c \in Channel : BusyIn(jobs, c) = {} /\ BacklogIn(jobs, c) = {}
  BY <1>1, <1>4 DEF ActiveOf, BusyIn, BacklogIn, InChannel, NoRow
<1>6. JobCapIn(jobs) /\ RunningCapIn(jobs) /\ BacklogBoundIn(jobs)
  BY <1>5, FS_EmptySet, CapsAssumption DEF JobCapIn, RunningCapIn, BacklogBoundIn
<1>. QED
  BY <1>3, <1>6, SoundHas

LEMMA NextSound == Sound(jobs) /\ [Next]_jobs => Sound(jobs)'
<1>. SUFFICES ASSUME Sound(jobs), Next
              PROVE  Sound(jobs')
  BY DEF Sound, Table, CustodyIn, DispatchedStaysOutIn, AttemptsBoundedIn, JobCapIn,
         RunningCapIn, BacklogBoundIn, Held, ActiveOf, BusyIn, BacklogIn, InState
<1>0. SoundRows(jobs)
  BY SoundHas
<1>1. ASSUME NEW j \in JobId, Enqueue(j)
      PROVE  Sound(jobs')
  <2>1. \A at \in Stamp : at \in Nat
    BY StampAssumption
  <2>. QED
    BY <1>1, <2>1, EnqueuedSound DEF Enqueue
<1>2. ASSUME NEW j \in JobId, RecordDispatch(j)
      PROVE  Sound(jobs')
  <2>1. \A at \in Stamp : at \in Nat
    BY StampAssumption
  <2>. QED
    BY <1>2, <2>1, DispatchedSound DEF RecordDispatch
<1>3. ASSUME NEW j \in JobId, MarkNotDispatched(j)
      PROVE  Sound(jobs')
  <2>1. SoundRows(jobs')
    BY <1>0, <1>3, MarkedNotDispatchedRows DEF MarkNotDispatched
  <2>2. /\ \A k \in JobId \ {j} : jobs'[k] = jobs[k]
        /\ jobs'[j].state = NOT_DISPATCHED /\ jobs'[j].mode = jobs[j].mode
    BY <1>0, <1>3 DEF SoundRows, GoodRow, MarkNotDispatched, MarkedNotDispatched
  <2>. QED
    BY <2>1, <2>2, QuieterSound
<1>4. ASSUME NEW r \in Runner, NEW labels \in SUBSET Server, Claim(r, labels)
      PROVE  Sound(jobs')
  <2>. DEFINE T == Reaped(jobs)
  <2>1. Sound(T)
    BY ReapedSound
  <2>2. ASSUME NEW j \in Oldest(T, Claimable(T, labels))
        PROVE  Sound(Claimed(T, j, r))
    BY <2>1, <2>2, ClaimedSound DEF Oldest, Claimable, InState
  <2>. QED
    BY <1>4, <2>1, <2>2 DEF Claim
<1>5. ASSUME NEW j \in JobId, NEW r \in Runner, MarkRunning(j, r)
      PROVE  Sound(jobs')
  <2>1. SoundRows(jobs')
    BY <1>0, <1>5, MarkedRunningRows DEF MarkRunning
  <2>2. /\ \A k \in JobId \ {j} : jobs'[k] = jobs[k]
        /\ jobs[j].state = CLAIMED
        /\ jobs'[j].state = RUNNING /\ jobs'[j].mode = jobs[j].mode
    BY <1>0, <1>5 DEF SoundRows, GoodRow, MarkRunning, MarkedRunning, CanMarkRunning
  <2>. QED
    BY <2>1, <2>2, QuieterSound
<1>6. ASSUME NEW j \in JobId, NEW r \in Runner, NEW passed \in BOOLEAN, Finish(j, r, passed)
      PROVE  Sound(jobs')
  <2>1. SoundRows(jobs')
    BY <1>0, <1>6, FinishedRows DEF Finish
  <2>2. /\ \A k \in JobId \ {j} : jobs'[k] = jobs[k]
        /\ jobs'[j].state \in {DONE, FAILED} /\ jobs'[j].mode = jobs[j].mode
    BY <1>0, <1>6 DEF SoundRows, GoodRow, Finish, Finished
  <2>. QED
    BY <2>1, <2>2, QuieterSound
<1>7. ASSUME NEW r \in Runner, Renew(r)
      PROVE  Sound(jobs')
  <2>1. SoundRows(jobs')
    BY <1>0, <1>7, RenewedRows DEF Renew
  <2>2. \A k \in JobId : jobs'[k].state = jobs[k].state /\ jobs'[k].mode = jobs[k].mode
    BY <1>0, <1>7 DEF SoundRows, GoodRow, Renew, Renewed
  <2>. QED
    BY <2>1, <2>2, QuieterSound
<1>8. CASE Reap
  BY <1>8, ReapedSound DEF Reap
<1>9. ASSUME Tick
      PROVE  Sound(jobs')
  <2>1. SoundRows(jobs')
    BY <1>0, <1>9, AgedRows DEF Tick
  <2>2. \A k \in JobId : jobs'[k].state = jobs[k].state /\ jobs'[k].mode = jobs[k].mode
    BY <1>0, <1>9 DEF SoundRows, GoodRow, Tick, Aged
  <2>. QED
    BY <2>1, <2>2, QuieterSound
<1>. QED
  BY <1>1, <1>2, <1>3, <1>4, <1>5, <1>6, <1>7, <1>8, <1>9 DEF Next

(* Sound holds in every reachable table.                                   *)
THEOREM AlwaysSound == Spec => []Sound(jobs)
BY InitSound, NextSound, PTL DEF Spec

(* Every row keeps its columns' types.                                     *)
THEOREM TypeCorrect == Spec => []TypeOK
<1>1. Sound(jobs) => TypeOK
  BY DEF Sound, TypeOK
<1>. QED
  BY <1>1, AlwaysSound, PTL

(* A row is leased exactly while a test server holds it, and the runner    *)
(* column agrees, through every interleaving of the store's statements.    *)
THEOREM CustodyAlways == Spec => []Custody
<1>1. Sound(jobs) => Custody
  BY DEF Sound, Custody
<1>. QED
  BY <1>1, AlwaysSound, PTL

(* A dispatched run is never queued, claimed or reaped.                    *)
THEOREM DispatchedStaysOutAlways == Spec => []DispatchedStaysOut
<1>1. Sound(jobs) => DispatchedStaysOut
  BY DEF Sound, DispatchedStaysOut
<1>. QED
  BY <1>1, AlwaysSound, PTL

(* No run is handed out more than MaxAttempts times, and none is left in   *)
(* the queue with no attempt left.                                         *)
THEOREM AttemptsAlwaysBounded == Spec => []AttemptsBounded
<1>1. Sound(jobs) => AttemptsBounded
  BY DEF Sound, AttemptsBounded
<1>. QED
  BY <1>1, AlwaysSound, PTL

(* A suite never has more active runs than it may (at_capacity, counted in *)
(* the transaction that inserts).                                          *)
THEOREM JobCapAlways == Spec => []JobCap
<1>1. Sound(jobs) => JobCap
  BY DEF Sound, JobCap
<1>. QED
  BY <1>1, AlwaysSound, PTL

(* No more runs of a channel than it may are under way at once (claim and  *)
(* record_dispatch count them in their own transaction).                   *)
THEOREM RunningCapAlways == Spec => []RunningCap
<1>1. Sound(jobs) => RunningCap
  BY DEF Sound, RunningCap
<1>. QED
  BY <1>1, AlwaysSound, PTL

(* With both caps set, the runs of a channel that wait or are held never   *)
(* outnumber the two together, although the reaper requeues without asking *)
(* a cap (_reap).                                                          *)
THEOREM BacklogBoundAlways == Spec => []BacklogBound
<1>1. Sound(jobs) => BacklogBound
  BY DEF Sound, BacklogBound
<1>. QED
  BY <1>1, AlwaysSound, PTL
-----------------------------------------------------------------------------
(* A run that has ended never changes again, whatever call arrives late.   *)
THEOREM EndsOnceAlways == Spec => EndsOnce
<1>1. ASSUME Sound(jobs), Next, NEW k \in JobId, jobs[k].state \in TERMINAL_STATES
      PROVE  jobs'[k] = jobs[k]
  <2>0. SoundRows(jobs)
    BY <1>1, SoundHas
  <2>1. ASSUME NEW j \in JobId, Enqueue(j) \/ RecordDispatch(j) \/ MarkNotDispatched(j)
        PROVE  jobs'[k] = jobs[k]
    BY <1>1, <2>0, <2>1
       DEF SoundRows, Enqueue, RecordDispatch, MarkNotDispatched, EnqueueAccepted,
           DispatchAccepted, Duplicate, CanMarkNotDispatched, Enqueued, Dispatched,
           Inserted, MarkedNotDispatched
  <2>2. ASSUME NEW r \in Runner, NEW labels \in SUBSET Server, Claim(r, labels)
        PROVE  jobs'[k] = jobs[k]
    <3>1. Reaped(jobs)[k] = jobs[k]
      BY <1>1, <2>0, ReapedLeaves
    <3>2. ASSUME NEW j \in Oldest(Reaped(jobs), Claimable(Reaped(jobs), labels))
          PROVE  Claimed(Reaped(jobs), j, r)[k] = jobs[k]
      <4>1. Reaped(jobs)[j].state = QUEUED
        BY <3>2 DEF Oldest, Claimable, InState
      <4>2. j # k
        BY <1>1, <3>1, <4>1
      <4>. QED
        BY <3>1, <4>2 DEF Claimed, Reaped, Abandoned
    <3>. QED
      BY <2>2, <3>1, <3>2 DEF Claim
  <2>3. ASSUME NEW j \in JobId, NEW r \in Runner,
               MarkRunning(j, r) \/ \E passed \in BOOLEAN : Finish(j, r, passed)
        PROVE  jobs'[k] = jobs[k]
    BY <1>1, <2>0, <2>3
       DEF SoundRows, MarkRunning, Finish, CanMarkRunning, CanFinish, MarkedRunning, Finished
  <2>4. ASSUME NEW r \in Runner, Renew(r)
        PROVE  jobs'[k] = jobs[k]
    BY <1>1, <2>4 DEF Renew, Renewed, HeldBy
  <2>5. CASE Reap
    BY <1>1, <2>0, <2>5, ReapedLeaves DEF Reap
  <2>6. CASE Tick
    <3>1. jobs[k].lease = NULL
      BY <1>1, <2>0 DEF SoundRows, GoodRow
    <3>. QED
      BY <2>6, <3>1 DEF Tick, Aged
  <2>. QED
    BY <1>1, <2>1, <2>2, <2>3, <2>4, <2>5, <2>6 DEF Next
<1>2. Sound(jobs) /\ [Next]_jobs
        => [\A j \in JobId : jobs[j].state \in TERMINAL_STATES => jobs'[j] = jobs[j]]_jobs
  BY <1>1
<1>. QED
  BY <1>2, AlwaysSound, PTL DEF Spec, EndsOnce

(* No call of anybody takes a run from a test server whose lease runs.     *)
THEOREM LiveLeaseIsAlwaysSafe == Spec => LiveLeaseIsSafe
<1>1. ASSUME Sound(jobs), Next, NEW k \in JobId, Held(jobs, k), jobs[k].lease # 0
      PROVE  jobs'[k].runner = jobs[k].runner
  <2>0. SoundRows(jobs)
    BY <1>1, SoundHas
  <2>1. /\ jobs[k] \in Row
        /\ jobs[k].state \in BUSY_STATES /\ jobs[k].runner # NULL
    BY <1>1, <2>0 DEF SoundRows, GoodRow, Held
  <2>2. ASSUME NEW j \in JobId, Enqueue(j) \/ RecordDispatch(j) \/ MarkNotDispatched(j)
        PROVE  jobs'[k] = jobs[k]
    BY <2>0, <2>1, <2>2
       DEF SoundRows, Enqueue, RecordDispatch, MarkNotDispatched, EnqueueAccepted,
           DispatchAccepted, Duplicate, CanMarkNotDispatched, Enqueued, Dispatched,
           Inserted, MarkedNotDispatched
  <2>3. ASSUME NEW r \in Runner, NEW labels \in SUBSET Server, Claim(r, labels)
        PROVE  jobs'[k] = jobs[k]
    <3>1. Reaped(jobs)[k] = jobs[k]
      BY <1>1, <2>0, ReapedLeaves
    <3>2. ASSUME NEW j \in Oldest(Reaped(jobs), Claimable(Reaped(jobs), labels))
          PROVE  Claimed(Reaped(jobs), j, r)[k] = jobs[k]
      <4>1. Reaped(jobs)[j].state = QUEUED
        BY <3>2 DEF Oldest, Claimable, InState
      <4>2. j # k
        BY <2>1, <3>1, <4>1
      <4>. QED
        BY <3>1, <4>2 DEF Claimed, Reaped, Abandoned
    <3>. QED
      BY <2>3, <3>1, <3>2 DEF Claim
  <2>4. ASSUME NEW j \in JobId, NEW r \in Runner,
               MarkRunning(j, r) \/ \E passed \in BOOLEAN : Finish(j, r, passed)
        PROVE  jobs'[k].runner = jobs[k].runner
    <3>1. CASE MarkRunning(j, r)
      BY <2>0, <2>1, <3>1 DEF SoundRows, MarkRunning, MarkedRunning
    <3>2. ASSUME NEW passed \in BOOLEAN, Finish(j, r, passed)
          PROVE  jobs'[k].runner = jobs[k].runner
      BY <2>0, <2>1, <3>2 DEF SoundRows, Finish, Finished
    <3>. QED
      BY <2>4, <3>1, <3>2
  <2>5. ASSUME NEW r \in Runner, Renew(r)
        PROVE  jobs'[k].runner = jobs[k].runner
    BY <2>1, <2>5 DEF Renew, Renewed
  <2>6. CASE Reap
    BY <1>1, <2>0, <2>6, ReapedLeaves DEF Reap
  <2>7. CASE Tick
    BY <2>1, <2>7 DEF Tick, Aged
  <2>. QED
    BY <1>1, <2>2, <2>3, <2>4, <2>5, <2>6, <2>7 DEF Next
<1>2. Sound(jobs) /\ [Next]_jobs
        => [\A j \in JobId : Held(jobs, j) /\ jobs[j].lease # 0
                             => jobs'[j].runner = jobs[j].runner]_jobs
  BY <1>1
<1>. QED
  BY <1>2, AlwaysSound, PTL DEF Spec, LiveLeaseIsSafe

(* A claim hands out the oldest of the runs it could take, those it has    *)
(* just taken back included.                                               *)
THEOREM OldestAlwaysFirst == Spec => OldestFirst
<1>1. ASSUME Sound(jobs), Next, NEW j \in JobId, NEW k \in JobId,
             Job[j].server = Job[k].server, Job[j].channel = Job[k].channel,
             jobs'[j].attempts > jobs[j].attempts, jobs'[k].state = QUEUED
      PROVE  jobs[j].created <= jobs[k].created
  <2>1. jobs \in Table /\ jobs[j] \in Row /\ jobs[k] \in Row
    BY <1>1 DEF Sound, Table
  <2>2. jobs[j].attempts \in Nat /\ ~(jobs[j].attempts > jobs[j].attempts)
    BY <2>1 DEF Row
  <2>3. ASSUME NEW i \in JobId, Enqueue(i) \/ RecordDispatch(i) \/ MarkNotDispatched(i)
        PROVE  FALSE
    <3>1. ASSUME NEW at \in Stamp
          PROVE  /\ Enqueued(jobs, i, at)[j].attempts \in {0, jobs[j].attempts}
                 /\ Dispatched(jobs, i, at)[j].attempts \in {0, jobs[j].attempts}
      BY <2>1 DEF Table, Enqueued, Dispatched, Inserted
    <3>2. MarkedNotDispatched(jobs, i)[j].attempts = jobs[j].attempts
      BY <2>1 DEF Table, Row, MarkedNotDispatched
    <3>3. jobs'[j].attempts \in {0, jobs[j].attempts}
      BY <2>3, <3>1, <3>2 DEF Enqueue, RecordDispatch, MarkNotDispatched
    <3>. QED
      BY <1>1, <2>2, <3>3
  <2>4. ASSUME NEW r \in Runner, NEW labels \in SUBSET Server, Claim(r, labels)
        PROVE  jobs[j].created <= jobs[k].created
    <3> DEFINE T == Reaped(jobs)
               candidates == Claimable(T, labels)
    <3>1. \A i \in JobId : T[i].created = jobs[i].created /\ T[i].attempts = jobs[i].attempts
      BY <2>1 DEF Table, Row, Reaped, Requeued, Abandoned
    <3>2. PICK i \in Oldest(T, candidates) : jobs' = Claimed(T, i, r)
      BY <1>1, <2>2, <2>4, <3>1 DEF Claim
    <3>3. \A l \in JobId : l # i => jobs'[l] = T[l]
      BY <3>2 DEF Claimed, Reaped, Abandoned
    <3>4. i = j
      BY <1>1, <2>2, <3>1, <3>3
    <3>5. k # j => k \in candidates
      BY <1>1, <3>2, <3>3, <3>4 DEF Oldest, Claimable, InState, ChannelBusy
    <3>6. k # j => T[j].created <= T[k].created
      BY <3>2, <3>4, <3>5 DEF Oldest
    <3>. QED
      BY <2>1, <3>1, <3>6 DEF Row
  <2>5. ASSUME NEW i \in JobId, NEW r \in Runner,
               MarkRunning(i, r) \/ \E passed \in BOOLEAN : Finish(i, r, passed)
        PROVE  FALSE
    <3>1. MarkedRunning(jobs, i)[j].attempts = jobs[j].attempts
      BY <2>1 DEF Table, Row, MarkedRunning
    <3>2. \A passed \in BOOLEAN : Finished(jobs, i, passed)[j].attempts = jobs[j].attempts
      BY <2>1 DEF Table, Row, Finished
    <3>. QED
      BY <1>1, <2>2, <2>5, <3>1, <3>2 DEF MarkRunning, Finish
  <2>6. ASSUME NEW r \in Runner, Renew(r)
        PROVE  FALSE
    <3>1. Renewed(jobs, r)[j].attempts = jobs[j].attempts
      BY <2>1 DEF Row, Renewed
    <3>. QED
      BY <1>1, <2>2, <2>6, <3>1 DEF Renew
  <2>7. ~Reap
    <3>1. Reaped(jobs)[j].attempts = jobs[j].attempts
      BY <2>1 DEF Row, Reaped, Requeued, Abandoned
    <3>. QED
      BY <1>1, <2>2, <3>1 DEF Reap
  <2>8. ~Tick
    BY <1>1, <2>1, <2>2 DEF Table, Row, Tick, Aged
  <2>. QED
    BY <1>1, <2>3, <2>4, <2>5, <2>6, <2>7, <2>8 DEF Next
<1>2. Sound(jobs) /\ [Next]_jobs
        => [\A j, k \in JobId :
              /\ Job[j].server = Job[k].server /\ Job[j].channel = Job[k].channel
              /\ jobs'[j].attempts > jobs[j].attempts
              /\ jobs'[k].state = QUEUED
              => jobs[j].created <= jobs[k].created]_jobs
  BY <1>1
<1>. QED
  BY <1>2, AlwaysSound, PTL DEF Spec, OldestFirst
-----------------------------------------------------------------------------
(* JobStore implements JobLifecycle, for every set of runs and test        *)
(* servers and every value of the caps: the store's calls, seen through    *)
(* the lifecycle view of their table (JobTable), only ever move a run      *)
(* along its lifecycle.  One lemma per call names the abstract step it     *)
(* makes; MarkRunning, Renew and Tick make none.                           *)

(* The view of the next table is the next view.                            *)
LEMMA Primed ==
  /\ PhaseIn(jobs)' = PhaseIn(jobs') /\ HolderIn(jobs)' = HolderIn(jobs')
  /\ TriesIn(jobs)' = TriesIn(jobs')
BY DEF PhaseIn, HolderIn, HolderOf, TriesIn, PhaseOf
-----------------------------------------------------------------------------
(* Which step of the lifecycle each call makes.                            *)
LEMMA InsertAccepts ==
  ASSUME SoundRows(jobs), SoundRows(jobs'), NEW j \in JobId, Enqueue(j) \/ RecordDispatch(j)
  PROVE  Lifecycle!Accept(j)
<1>1. /\ jobs[j].state = ABSENT
      /\ \A k \in JobId \ {j} : jobs'[k] = jobs[k]
      /\ jobs'[j].state \in {QUEUED, RUNNING} /\ jobs'[j].runner = NULL
      /\ jobs'[j].attempts = 0
  BY DEF SoundRows, Enqueue, RecordDispatch, EnqueueAccepted, DispatchAccepted, Duplicate,
         Enqueued, Dispatched, Inserted
<1>. QED
  BY <1>1, AcceptedPhase, Primed DEF Lifecycle!Accept

LEMMA ReportIsStep ==
  ASSUME SoundRows(jobs), SoundRows(jobs'), NEW j \in JobId, NEW r \in Runner,
         NEW passed \in BOOLEAN, Finish(j, r, passed)
  PROVE  Lifecycle!Report(j)
<1>1. /\ jobs[j].state \in BUSY_STATES /\ jobs[j].runner # NULL
      /\ \A k \in JobId \ {j} : jobs'[k] = jobs[k]
      /\ jobs'[j].state \in {DONE, FAILED} /\ jobs'[j].attempts = jobs[j].attempts
  BY NullAssumption DEF SoundRows, GoodRow, Finish, CanFinish, Finished
<1>. QED
  BY <1>1, ReportedPhase, Primed DEF Lifecycle!Report

LEMMA NotDispatchedIsStep ==
  ASSUME SoundRows(jobs), SoundRows(jobs'), NEW j \in JobId, MarkNotDispatched(j)
  PROVE  Lifecycle!NeverDispatched(j)
<1>1. /\ jobs[j].state \in {QUEUED, RUNNING} /\ jobs[j].runner = NULL
      /\ \A k \in JobId \ {j} : jobs'[k] = jobs[k]
      /\ jobs'[j].state = NOT_DISPATCHED /\ jobs'[j].attempts = jobs[j].attempts
  BY DEF SoundRows, GoodRow, MarkNotDispatched, CanMarkNotDispatched, MarkedNotDispatched
<1>. QED
  BY <1>1, NotDispatchedPhase, Primed DEF Lifecycle!NeverDispatched

(* The reaper takes back every expired run at once.                        *)
LEMMA ReapedIsTakenBack ==
  ASSUME SoundRows(jobs), NEW E, E = Expired(jobs)
  PROVE  /\ \A e \in E : e \in JobId /\ PhaseIn(jobs)[e] = "held"
         /\ PhaseIn(Reaped(jobs)) = Lifecycle!TakenBack(E)
         /\ HolderIn(Reaped(jobs)) = [j \in JobId |-> IF j \in E THEN NULL ELSE HolderIn(jobs)[j]]
         /\ TriesIn(Reaped(jobs)) = TriesIn(jobs)
<1>1. SoundRows(Reaped(jobs))
  BY ReapedRows DEF Reaped
<1>2. \A j \in JobId : Reaped(jobs)[j] = IF j \in E THEN Reaped(jobs)[j] ELSE jobs[j]
  BY ReapedRow
<1>. QED
  BY <1>1, <1>2, TakenBackPhases DEF Lifecycle!TakenBack

LEMMA ReapIsStep ==
  ASSUME SoundRows(jobs), jobs' = Reaped(jobs), NEW E, E = Expired(jobs)
  PROVE  Lifecycle!TakeBack(E)
BY ReapedIsTakenBack, Primed DEF Lifecycle!TakeBack

LEMMA ClaimIsStep ==
  ASSUME SoundRows(jobs), NEW r \in Runner, NEW j \in JobId,
         Reaped(jobs)[j].state = QUEUED, jobs' = Claimed(Reaped(jobs), j, r),
         NEW E, E = Expired(jobs)
  PROVE  Lifecycle!HandOut(E, j, r)
<1>. DEFINE T == Reaped(jobs)
<1>1. SoundRows(T)
  BY ReapedRows DEF Reaped
<1>2. \A k \in JobId \ {j} : jobs'[k] = T[k]
  BY <1>1 DEF Claimed, SoundRows, GoodRow
<1>3. /\ PhaseIn(T)[j] = "waiting"
      /\ PhaseIn(jobs') = [PhaseIn(T) EXCEPT ![j] = "held"]
      /\ HolderIn(jobs') = [HolderIn(T) EXCEPT ![j] = r]
      /\ TriesIn(jobs') = [TriesIn(T) EXCEPT ![j] = TriesIn(T)[j] + 1]
  BY <1>1, <1>2, HandedOutPhase
<1>4. HolderIn(jobs') = [k \in JobId |-> IF k = j THEN r
                                        ELSE IF k \in E THEN NULL ELSE HolderIn(jobs)[k]]
  <2>1. HolderIn(T) = [k \in JobId |-> IF k \in E THEN NULL ELSE HolderIn(jobs)[k]]
    BY ReapedIsTakenBack
  <2>. HIDE DEF T
  <2>. QED
    BY <1>3, <2>1
<1>5. TriesIn(jobs') = [TriesIn(jobs) EXCEPT ![j] = TriesIn(jobs)[j] + 1]
  BY <1>3, ReapedIsTakenBack
<1>. QED
  BY <1>3, <1>4, <1>5, ReapedIsTakenBack, Primed DEF Lifecycle!HandOut

(* Starting, renewing and the passing of time leave the lifecycle alone.   *)
LEMMA OthersStutter ==
  ASSUME SoundRows(jobs), SoundRows(jobs'),
         \/ \E j \in JobId, r \in Runner : MarkRunning(j, r)
         \/ \E r \in Runner : Renew(r)
         \/ Tick
  PROVE  UNCHANGED Lifecycle!lifecycle
<1>1. ASSUME NEW k \in JobId
      PROVE  /\ jobs'[k].runner = jobs[k].runner /\ jobs'[k].attempts = jobs[k].attempts
             /\ \/ jobs'[k].state = jobs[k].state
                \/ jobs[k].state = CLAIMED /\ jobs'[k].state = RUNNING /\ jobs[k].runner # NULL
  <2>1. jobs \in [JobId -> Row]
    BY DEF SoundRows, GoodRow
  <2>2. ASSUME NEW j \in JobId, NEW r \in Runner, MarkRunning(j, r)
        PROVE  <1>1!2
    BY <2>1, <2>2, NullAssumption DEF MarkRunning, CanMarkRunning, MarkedRunning
  <2>3. ASSUME NEW r \in Runner, Renew(r)
        PROVE  <1>1!2
    BY <2>1, <2>3 DEF Renew, Renewed
  <2>4. CASE Tick
    BY <2>1, <2>4 DEF Tick, Aged
  <2>. QED
    BY <2>2, <2>3, <2>4
<1>. QED
  BY <1>1, SamePhases, Primed DEF Lifecycle!lifecycle

LEMMA NextImplements ==
  /\ Sound(jobs) /\ Sound(jobs)' /\ [Next]_jobs
  => [Lifecycle!Next]_(Lifecycle!lifecycle)
<1>. SUFFICES ASSUME Sound(jobs), Sound(jobs'), Next
              PROVE  [Lifecycle!Next]_(Lifecycle!lifecycle)
  BY Primed DEF Lifecycle!lifecycle
<1>0. SoundRows(jobs) /\ SoundRows(jobs')
  BY SoundHas
<1>1. ASSUME NEW j \in JobId, Enqueue(j) \/ RecordDispatch(j) \/ MarkNotDispatched(j)
      PROVE  Lifecycle!Next
  <2>1. CASE Enqueue(j) \/ RecordDispatch(j)
    BY <1>0, <2>1, InsertAccepts DEF Lifecycle!Next
  <2>2. CASE MarkNotDispatched(j)
    BY <1>0, <2>2, NotDispatchedIsStep DEF Lifecycle!Next
  <2>. QED
    BY <1>1, <2>1, <2>2
<1>2. ASSUME jobs' = Reaped(jobs)
      PROVE  Lifecycle!Next
  <2>1. PICK E \in SUBSET JobId : E = Expired(jobs)
    BY DEF Expired, InState
  <2>2. Lifecycle!TakeBack(E)
    BY <1>0, <1>2, <2>1, ReapIsStep
  <2>. QED
    BY <2>2 DEF Lifecycle!Next
<1>3. ASSUME NEW r \in Runner, NEW labels \in SUBSET Server, Claim(r, labels)
      PROVE  Lifecycle!Next
  <2>1. ASSUME NEW j \in Oldest(Reaped(jobs), Claimable(Reaped(jobs), labels)),
               jobs' = Claimed(Reaped(jobs), j, r)
        PROVE  Lifecycle!Next
    <3>1. j \in JobId /\ Reaped(jobs)[j].state = QUEUED
      BY <2>1 DEF Oldest, Claimable, InState
    <3>2. PICK E \in SUBSET JobId : E = Expired(jobs)
      BY DEF Expired, InState
    <3>3. Lifecycle!HandOut(E, j, r)
      BY <1>0, <2>1, <3>1, <3>2, ClaimIsStep
    <3>. QED
      BY <3>1, <3>3 DEF Lifecycle!Next
  <2>. QED
    BY <1>2, <1>3, <2>1 DEF Claim
<1>4. ASSUME NEW j \in JobId, NEW r \in Runner, NEW passed \in BOOLEAN, Finish(j, r, passed)
      PROVE  Lifecycle!Next
  BY <1>0, <1>4, ReportIsStep DEF Lifecycle!Next
<1>. QED
  BY <1>0, <1>1, <1>2, <1>3, <1>4, OthersStutter DEF Next, Reap

(* JobStore implements JobLifecycle: an accepted run is always waiting,    *)
(* held by one test server, dispatched or over, is handed out at most      *)
(* MaxAttempts times and stays over, whatever calls arrive in what order.  *)
THEOREM ImplementsLifecycle == Spec => KeepsLifecycle
<1>1. Init => Lifecycle!Init
  <2>. SUFFICES ASSUME Init
                PROVE  Lifecycle!Init
    OBVIOUS
  <2>1. \A j \in JobId : jobs[j] = NoRow
    BY DEF Init, EmptyTable
  <2>2. PhaseOf(NoRow) = "unknown"
    BY DEF PhaseOf, NoRow
  <2>3. NoRow.state = ABSENT /\ NoRow.attempts = 0
    BY DEF NoRow
  <2>. QED
    BY <2>1, <2>2, <2>3 DEF Lifecycle!Init, PhaseIn, HolderIn, HolderOf, TriesIn
<1>. QED
  BY <1>1, NextImplements, AlwaysSound, PTL
     DEF Spec, KeepsLifecycle, Lifecycle!Spec
=============================================================================
