--------------------------- MODULE JobTable_proofs --------------------------
(***************************************************************************)
(* What every statement of JobTable preserves, table by table: types and   *)
(* custody of the rows, the caps, and the bound on a channel's backlog.    *)
(* Both backends run these statements; JobStore_proofs puts them together  *)
(* call by call, PostgresStore_proofs statement by statement.              *)
(***************************************************************************)
EXTENDS JobTable, FiniteSetTheorems, TLAPS

Sound(T) ==
  /\ T \in Table
  /\ CustodyIn(T)
  /\ DispatchedStaysOutIn(T)
  /\ AttemptsBoundedIn(T)
  /\ JobCapIn(T)
  /\ RunningCapIn(T)
  /\ BacklogBoundIn(T)

(* The part of Sound that reads one row at a time: a table of good rows.   *)
GoodRow ==
  {row \in Row :
     LET held == row.state \in BUSY_STATES /\ row.mode = "test-server"
     IN  /\ row.lease # NULL <=> held
         /\ row.runner # NULL <=> held \/ row.state \in {DONE, FAILED, ABANDONED}
         /\ row.mode = "dispatch" =>
              row.state \in {RUNNING, NOT_DISPATCHED} /\ row.attempts = 0
         /\ row.state = ABSENT => row.attempts = 0
         /\ row.attempts <= MaxAttempts
         /\ row.state = QUEUED => row.attempts < MaxAttempts
         /\ row.state = ABANDONED => row.attempts = MaxAttempts
         /\ held => row.attempts > 0}

SoundRows(T) == T \in [JobId -> GoodRow]

(* The names of the states and the sets made of them.                      *)
USE DEF ABSENT, QUEUED, CLAIMED, RUNNING, DONE, FAILED, ABANDONED, NOT_DISPATCHED
-----------------------------------------------------------------------------
(* Counting.                                                               *)

(* A subset of a set of runs counts no more than the set.                  *)
LEMMA CountSubset ==
  ASSUME NEW S \in SUBSET JobId, NEW R \in SUBSET S
  PROVE  /\ IsFiniteSet(S) /\ IsFiniteSet(R)
         /\ Cardinality(S) \in Nat /\ Cardinality(R) \in Nat
         /\ Cardinality(R) <= Cardinality(S)
BY JobAssumption, FS_Subset, FS_CardinalityType

(* One run more counts at most one more.                                   *)
LEMMA CountOneMore ==
  ASSUME NEW S \in SUBSET JobId, NEW j \in JobId, NEW R \in SUBSET (S \cup {j})
  PROVE  Cardinality(R) \in Nat /\ Cardinality(R) <= Cardinality(S) + 1
<1>1. IsFiniteSet(S)
  BY CountSubset
<1>2. Cardinality(S \cup {j}) <= Cardinality(S) + 1
  <2>1. Cardinality(S) \in Nat
    BY <1>1, FS_CardinalityType
  <2>2. Cardinality(S \cup {j}) = IF j \in S THEN Cardinality(S) ELSE Cardinality(S) + 1
    BY <1>1, FS_AddElement
  <2>. QED
    BY <2>1, <2>2
<1>3. S \cup {j} \in SUBSET JobId
  OBVIOUS
<1>. QED
  BY <1>1, <1>2, <1>3, CountSubset, FS_CardinalityType
-----------------------------------------------------------------------------
(* A statement that makes no run newly active keeps the per-job cap, one   *)
(* that makes none newly busy keeps the running cap, and one that adds     *)
(* none to the backlog keeps its bound.                                    *)
LEMMA JobCapKept ==
  ASSUME NEW T, NEW U, JobCapIn(T),
         InState(U, ACTIVE_STATES) \subseteq InState(T, ACTIVE_STATES)
  PROVE  JobCapIn(U)
<1>. SUFFICES ASSUME MaxActivePerJob > 0, NEW j \in JobId
              PROVE  Cardinality(ActiveOf(U, j)) <= MaxActivePerJob
  BY DEF JobCapIn
<1>1. /\ ActiveOf(T, j) \in SUBSET JobId
      /\ ActiveOf(U, j) \in SUBSET ActiveOf(T, j)
  BY DEF ActiveOf, SameJob
<1>2. Cardinality(ActiveOf(T, j)) <= MaxActivePerJob
  BY DEF JobCapIn
<1>. QED
  BY <1>1, <1>2, CountSubset, CapsAssumption

LEMMA RunningCapKept ==
  ASSUME NEW T, NEW U, RunningCapIn(T),
         InState(U, BUSY_STATES) \subseteq InState(T, BUSY_STATES)
  PROVE  RunningCapIn(U)
<1>. SUFFICES ASSUME MaxRunningPerChannel > 0, NEW c \in Channel
              PROVE  Cardinality(BusyIn(U, c)) <= MaxRunningPerChannel
  BY DEF RunningCapIn
<1>1. /\ BusyIn(T, c) \in SUBSET JobId
      /\ BusyIn(U, c) \in SUBSET BusyIn(T, c)
  BY DEF BusyIn, InChannel
<1>2. Cardinality(BusyIn(T, c)) <= MaxRunningPerChannel
  BY DEF RunningCapIn
<1>. QED
  BY <1>1, <1>2, CountSubset, CapsAssumption

LEMMA BacklogBoundKept ==
  ASSUME NEW T, NEW U, BacklogBoundIn(T),
         \A c \in Channel : BacklogIn(U, c) \subseteq BacklogIn(T, c)
  PROVE  BacklogBoundIn(U)
<1>. SUFFICES ASSUME MaxQueuedPerChannel > 0, MaxRunningPerChannel > 0, NEW c \in Channel
              PROVE  Cardinality(BacklogIn(U, c)) <= MaxQueuedPerChannel + MaxRunningPerChannel
  BY DEF BacklogBoundIn
<1>1. /\ BacklogIn(T, c) \in SUBSET JobId
      /\ BacklogIn(U, c) \in SUBSET BacklogIn(T, c)
  BY DEF BacklogIn, InChannel
<1>2. Cardinality(BacklogIn(T, c)) <= MaxQueuedPerChannel + MaxRunningPerChannel
  BY DEF BacklogBoundIn
<1>. QED
  BY <1>1, <1>2, CountSubset, CapsAssumption
-----------------------------------------------------------------------------
LEMMA SoundRowsMeans ==
  ASSUME NEW T
  PROVE  SoundRows(T) <=> /\ T \in Table
                          /\ CustodyIn(T)
                          /\ DispatchedStaysOutIn(T)
                          /\ AttemptsBoundedIn(T)
<1>1. SoundRows(T) => T \in Table
  BY DEF SoundRows, GoodRow, Table
<1>2. SoundRows(T) => CustodyIn(T) /\ DispatchedStaysOutIn(T) /\ AttemptsBoundedIn(T)
  BY DEF SoundRows, GoodRow, CustodyIn, DispatchedStaysOutIn, AttemptsBoundedIn, Held
<1>3. ASSUME T \in Table, CustodyIn(T), DispatchedStaysOutIn(T), AttemptsBoundedIn(T)
      PROVE  SoundRows(T)
  BY <1>3 DEF SoundRows, GoodRow, Table, CustodyIn, DispatchedStaysOutIn,
              AttemptsBoundedIn, Held
<1>. QED
  BY <1>1, <1>2, <1>3
-----------------------------------------------------------------------------
(* The statements that write one row write a good one.                     *)
USE DEF Row, JobState, Mode, ACTIVE_STATES, BUSY_STATES, TERMINAL_STATES

LEMMA InsertedRows ==
  ASSUME NEW T, SoundRows(T), NEW j \in JobId, NEW at \in Nat
  PROVE  SoundRows(Enqueued(T, j, at)) /\ SoundRows(Dispatched(T, j, at))
BY LeaseAssumption, NullAssumption
   DEF SoundRows, GoodRow, Enqueued, Dispatched, Inserted

LEMMA ClaimedRows ==
  ASSUME NEW T, SoundRows(T), NEW j \in JobId, T[j].state = QUEUED, NEW r \in Runner
  PROVE  SoundRows(Claimed(T, j, r))
<1>. DEFINE row == [T[j] EXCEPT !.state = CLAIMED, !.runner = r, !.lease = LeaseTicks,
                                !.attempts = T[j].attempts + 1]
<1>1. T[j] \in GoodRow
  BY DEF SoundRows
<1>2. /\ T[j].mode = "test-server"
      /\ T[j].attempts + 1 \in Nat /\ T[j].attempts + 1 <= MaxAttempts
      /\ T[j].attempts + 1 > 0
  BY <1>1, LeaseAssumption DEF GoodRow
<1>3. LeaseTicks \in 0..LeaseTicks /\ LeaseTicks # NULL /\ r # NULL
  BY LeaseAssumption, NullAssumption
<1>4. row \in Row
  BY <1>1, <1>2, <1>3 DEF GoodRow
<1>5. /\ row.state = CLAIMED /\ row.mode = "test-server"
      /\ row.runner = r /\ row.lease = LeaseTicks /\ row.attempts = T[j].attempts + 1
  BY <1>1, <1>2 DEF GoodRow
<1>6. row \in GoodRow
  BY <1>2, <1>3, <1>4, <1>5 DEF GoodRow
<1>. QED
  BY <1>6 DEF SoundRows, Claimed

LEMMA MarkedRunningRows ==
  ASSUME NEW T, SoundRows(T), NEW j \in JobId, NEW r \in Runner, CanMarkRunning(T, j, r)
  PROVE  SoundRows(MarkedRunning(T, j))
<1>. DEFINE row == [T[j] EXCEPT !.state = RUNNING]
<1>1. T[j] \in GoodRow
  BY DEF SoundRows
<1>2. row \in GoodRow
  BY <1>1, NullAssumption DEF GoodRow, CanMarkRunning
<1>. QED
  BY <1>2 DEF SoundRows, MarkedRunning

LEMMA FinishedRows ==
  ASSUME NEW T, SoundRows(T), NEW j \in JobId, NEW r \in Runner, CanFinish(T, j, r),
         NEW passed \in BOOLEAN
  PROVE  SoundRows(Finished(T, j, passed))
<1>. DEFINE row == [T[j] EXCEPT !.state = IF passed THEN DONE ELSE FAILED, !.lease = NULL]
<1>1. T[j] \in GoodRow
  BY DEF SoundRows
<1>2. row \in GoodRow
  BY <1>1, NullAssumption DEF GoodRow, CanFinish
<1>. QED
  BY <1>2 DEF SoundRows, Finished

LEMMA MarkedNotDispatchedRows ==
  ASSUME NEW T, SoundRows(T), NEW j \in JobId, CanMarkNotDispatched(T, j)
  PROVE  SoundRows(MarkedNotDispatched(T, j))
<1>. DEFINE row == [T[j] EXCEPT !.state = NOT_DISPATCHED, !.lease = NULL]
<1>1. T[j] \in GoodRow
  BY DEF SoundRows
<1>2. row \in GoodRow
  BY <1>1, NullAssumption DEF GoodRow, CanMarkNotDispatched
<1>. QED
  BY <1>2 DEF SoundRows, MarkedNotDispatched

(* So do the statements that write every row a condition picks.            *)
LEMMA RenewedRows ==
  ASSUME NEW T, SoundRows(T), NEW r \in Runner
  PROVE  SoundRows(Renewed(T, r))
<1>1. ASSUME NEW j \in JobId, j \in HeldBy(T, r)
      PROVE  [T[j] EXCEPT !.lease = LeaseTicks] \in GoodRow
  <2>1. T[j] \in GoodRow
    BY DEF SoundRows
  <2>. QED
    BY <1>1, <2>1, LeaseAssumption, NullAssumption DEF GoodRow, HeldBy
<1>. QED
  BY <1>1 DEF SoundRows, Renewed

LEMMA AgedRows ==
  ASSUME NEW T, SoundRows(T)
  PROVE  SoundRows(Aged(T))
<1>1. ASSUME NEW j \in JobId, T[j].lease # NULL, T[j].lease # 0
      PROVE  [T[j] EXCEPT !.lease = T[j].lease - 1] \in GoodRow
  <2>1. T[j] \in GoodRow
    BY DEF SoundRows
  <2>2. T[j].lease \in 1..LeaseTicks
    BY <1>1, <2>1, LeaseAssumption DEF GoodRow
  <2>. QED
    BY <2>1, <2>2, LeaseAssumption, NullAssumption DEF GoodRow
<1>. QED
  BY <1>1 DEF SoundRows, Aged

LEMMA ReapedRows ==
  ASSUME NEW T, SoundRows(T)
  PROVE  SoundRows(Requeued(T)) /\ SoundRows(Abandoned(T))
<1>1. ASSUME NEW j \in JobId
      PROVE  T[j] \in GoodRow
  BY DEF SoundRows
<1>2. ASSUME NEW j \in Expired(T)
      PROVE  T[j].state \in BUSY_STATES /\ T[j].mode = "test-server" /\ T[j].runner # NULL
  <2>1. j \in JobId /\ T[j].state \in BUSY_STATES /\ T[j].lease # NULL
    BY NullAssumption DEF Expired, InState
  <2>. QED
    BY <1>1, <2>1 DEF GoodRow
<1>3. ASSUME NEW j \in JobId, j \in Expired(T), T[j].attempts < MaxAttempts
      PROVE  [T[j] EXCEPT !.state = QUEUED, !.runner = NULL, !.lease = NULL] \in GoodRow
  BY <1>1, <1>2, <1>3 DEF GoodRow
<1>4. ASSUME NEW j \in JobId, j \in Expired(T), T[j].attempts >= MaxAttempts
      PROVE  [T[j] EXCEPT !.state = ABANDONED, !.lease = NULL] \in GoodRow
  <2>1. T[j].attempts = MaxAttempts
    BY <1>1, <1>4, LeaseAssumption DEF GoodRow
  <2>. QED
    BY <1>1, <1>2, <1>4, <2>1 DEF GoodRow
<1>. QED
  BY <1>1, <1>3, <1>4 DEF SoundRows, Requeued, Abandoned
-----------------------------------------------------------------------------
(* A statement that makes at most the run j active, having found its suite *)
(* below the per-job cap, keeps that cap; likewise for the running cap.    *)
LEMMA JobCapTaken ==
  ASSUME NEW T, NEW U, NEW j \in JobId, JobCapIn(T), ~JobAtCapacity(T, j),
         InState(U, ACTIVE_STATES) \subseteq InState(T, ACTIVE_STATES) \cup {j}
  PROVE  JobCapIn(U)
<1>. SUFFICES ASSUME MaxActivePerJob > 0, NEW k \in JobId
              PROVE  Cardinality(ActiveOf(U, k)) <= MaxActivePerJob
  BY DEF JobCapIn
<1>1. ActiveOf(T, k) \in SUBSET JobId
  BY DEF ActiveOf, SameJob
<1>2. Cardinality(ActiveOf(T, k)) <= MaxActivePerJob /\ Cardinality(ActiveOf(T, k)) \in Nat
  BY <1>1, CountSubset DEF JobCapIn
<1>3. CASE j \in SameJob(k)
  <2>1. ActiveOf(T, k) = ActiveOf(T, j)
    BY <1>3 DEF ActiveOf, SameJob
  <2>2. Cardinality(ActiveOf(T, k)) < MaxActivePerJob
    BY <1>2, <2>1, CapsAssumption DEF JobAtCapacity, AtCap
  <2>3. ActiveOf(U, k) \in SUBSET (ActiveOf(T, k) \cup {j})
    BY DEF ActiveOf
  <2>. QED
    BY <1>1, <1>2, <2>2, <2>3, CountOneMore, CapsAssumption
<1>4. CASE j \notin SameJob(k)
  <2>1. ActiveOf(U, k) \in SUBSET ActiveOf(T, k)
    BY <1>4 DEF ActiveOf
  <2>. QED
    BY <1>1, <1>2, <2>1, CountSubset, CapsAssumption
<1>. QED
  BY <1>3, <1>4

LEMMA RunningCapTaken ==
  ASSUME NEW T, NEW U, NEW j \in JobId, RunningCapIn(T), ~ChannelBusy(T, j),
         InState(U, BUSY_STATES) \subseteq InState(T, BUSY_STATES) \cup {j}
  PROVE  RunningCapIn(U)
<1>. SUFFICES ASSUME MaxRunningPerChannel > 0, NEW c \in Channel
              PROVE  Cardinality(BusyIn(U, c)) <= MaxRunningPerChannel
  BY DEF RunningCapIn
<1>1. BusyIn(T, c) \in SUBSET JobId
  BY DEF BusyIn, InChannel
<1>2. Cardinality(BusyIn(T, c)) <= MaxRunningPerChannel /\ Cardinality(BusyIn(T, c)) \in Nat
  BY <1>1, CountSubset DEF RunningCapIn
<1>3. CASE Job[j].channel = c
  <2>1. Cardinality(BusyIn(T, c)) < MaxRunningPerChannel
    BY <1>2, <1>3, CapsAssumption DEF ChannelBusy, AtCap
  <2>2. BusyIn(U, c) \in SUBSET (BusyIn(T, c) \cup {j})
    BY DEF BusyIn
  <2>. QED
    BY <1>1, <1>2, <2>1, <2>2, CountOneMore, CapsAssumption
<1>4. CASE Job[j].channel # c
  <2>1. BusyIn(U, c) \in SUBSET BusyIn(T, c)
    BY <1>4 DEF BusyIn, InChannel
  <2>. QED
    BY <1>1, <1>2, <2>1, CountSubset, CapsAssumption
<1>. QED
  BY <1>3, <1>4

(* The backlog is bounded by the queue, which enqueue found below its cap, *)
(* and the busy rows, which the running cap bounds.                        *)
LEMMA BacklogTaken ==
  ASSUME NEW T, NEW U, NEW j \in JobId, BacklogBoundIn(T), RunningCapIn(T),
         ~ChannelQueueFull(T, j),
         \A c \in Channel : BacklogIn(U, c) \subseteq BacklogIn(T, c) \cup ({j} \cap InChannel(c))
  PROVE  BacklogBoundIn(U)
<1>. SUFFICES ASSUME MaxQueuedPerChannel > 0, MaxRunningPerChannel > 0, NEW c \in Channel
              PROVE  Cardinality(BacklogIn(U, c)) <= MaxQueuedPerChannel + MaxRunningPerChannel
  BY DEF BacklogBoundIn
<1>1. BacklogIn(T, c) \in SUBSET JobId
  BY DEF BacklogIn, InChannel
<1>2. /\ Cardinality(BacklogIn(T, c)) <= MaxQueuedPerChannel + MaxRunningPerChannel
      /\ Cardinality(BacklogIn(T, c)) \in Nat
  BY <1>1, CountSubset DEF BacklogBoundIn
<1>3. CASE j \in InChannel(c)
  <2>1. /\ QueuedIn(T, c) \in SUBSET JobId
        /\ BusyIn(T, c) \in SUBSET JobId
        /\ BacklogIn(T, c) \in SUBSET (QueuedIn(T, c) \cup BusyIn(T, c))
    BY DEF QueuedIn, BusyIn, BacklogIn, InChannel, InState
  <2>2. /\ IsFiniteSet(QueuedIn(T, c)) /\ IsFiniteSet(BusyIn(T, c))
        /\ Cardinality(QueuedIn(T, c)) \in Nat /\ Cardinality(BusyIn(T, c)) \in Nat
    BY <2>1, CountSubset
  <2>3. /\ Cardinality(QueuedIn(T, c)) < MaxQueuedPerChannel
        /\ Cardinality(BusyIn(T, c)) <= MaxRunningPerChannel
    BY <1>3, <2>2, CapsAssumption DEF ChannelQueueFull, AtCap, InChannel, RunningCapIn
  <2>4. /\ QueuedIn(T, c) \cap BusyIn(T, c) \in SUBSET JobId
        /\ QueuedIn(T, c) \cup BusyIn(T, c) \in SUBSET JobId
    BY <2>1
  <2>5. Cardinality(QueuedIn(T, c) \cap BusyIn(T, c)) \in Nat
    BY <2>4, CountSubset
  <2>6. Cardinality(QueuedIn(T, c) \cup BusyIn(T, c))
          <= Cardinality(QueuedIn(T, c)) + Cardinality(BusyIn(T, c))
    <3>1. Cardinality(QueuedIn(T, c) \cup BusyIn(T, c))
            = Cardinality(QueuedIn(T, c)) + Cardinality(BusyIn(T, c))
                - Cardinality(QueuedIn(T, c) \cap BusyIn(T, c))
      BY <2>2, FS_Union
    <3>. QED
      BY <2>2, <2>5, <3>1
  <2>7. Cardinality(BacklogIn(T, c)) <= Cardinality(QueuedIn(T, c) \cup BusyIn(T, c))
        /\ Cardinality(QueuedIn(T, c) \cup BusyIn(T, c)) \in Nat
    BY <2>1, <2>4, CountSubset
  <2>8. Cardinality(BacklogIn(T, c)) < MaxQueuedPerChannel + MaxRunningPerChannel
    BY <1>2, <2>2, <2>3, <2>6, <2>7, CapsAssumption
  <2>9. BacklogIn(U, c) \subseteq BacklogIn(T, c) \cup ({j} \cap InChannel(c))
    OBVIOUS
  <2>10. BacklogIn(U, c) \in SUBSET (BacklogIn(T, c) \cup {j})
    BY <2>9
  <2>. QED
    BY <1>1, <1>2, <2>8, <2>10, CountOneMore, CapsAssumption
<1>4. CASE j \notin InChannel(c)
  <2>1. BacklogIn(U, c) \in SUBSET BacklogIn(T, c)
    BY <1>4
  <2>. QED
    BY <1>1, <1>2, <2>1, CountSubset, CapsAssumption
<1>. QED
  BY <1>3, <1>4
-----------------------------------------------------------------------------
(* Each statement keeps the whole of Sound.                                *)
LEMMA SoundHas ==
  ASSUME NEW T
  PROVE  Sound(T) <=> SoundRows(T) /\ JobCapIn(T) /\ RunningCapIn(T) /\ BacklogBoundIn(T)
BY SoundRowsMeans DEF Sound

LEMMA EnqueuedSound ==
  ASSUME NEW T, Sound(T), NEW j \in JobId, EnqueueAccepted(T, j), NEW at \in Nat
  PROVE  Sound(Enqueued(T, j, at))
<1>. DEFINE U == Enqueued(T, j, at)
<1>1. SoundRows(T) /\ JobCapIn(T) /\ RunningCapIn(T) /\ BacklogBoundIn(T)
  BY SoundHas
<1>2. SoundRows(U)
  BY <1>1, InsertedRows
<1>3. /\ \A k \in JobId \ {j} : U[k] = T[k]
      /\ U[j].state = QUEUED
  BY <1>1 DEF SoundRows, Enqueued, Inserted
<1>4. InState(U, ACTIVE_STATES) \subseteq InState(T, ACTIVE_STATES) \cup {j}
  BY <1>3 DEF InState
<1>5. InState(U, BUSY_STATES) \subseteq InState(T, BUSY_STATES)
  BY <1>3 DEF InState
<1>6. \A c \in Channel :
        BacklogIn(U, c) \subseteq BacklogIn(T, c) \cup ({j} \cap InChannel(c))
  BY <1>3 DEF BacklogIn, InChannel
<1>7. JobCapIn(U)
  BY <1>1, <1>4, JobCapTaken DEF EnqueueAccepted
<1>8. RunningCapIn(U)
  BY <1>1, <1>5, RunningCapKept
<1>9. BacklogBoundIn(U)
  BY <1>1, <1>6, BacklogTaken DEF EnqueueAccepted
<1>. QED
  BY <1>2, <1>7, <1>8, <1>9, SoundHas

LEMMA DispatchedSound ==
  ASSUME NEW T, Sound(T), NEW j \in JobId, DispatchAccepted(T, j), NEW at \in Nat
  PROVE  Sound(Dispatched(T, j, at))
<1>. DEFINE U == Dispatched(T, j, at)
<1>1. SoundRows(T) /\ JobCapIn(T) /\ RunningCapIn(T) /\ BacklogBoundIn(T)
  BY SoundHas
<1>2. SoundRows(U)
  BY <1>1, InsertedRows
<1>3. /\ \A k \in JobId \ {j} : U[k] = T[k]
      /\ U[j].mode = "dispatch"
  BY <1>1 DEF SoundRows, Dispatched, Inserted
<1>4. InState(U, ACTIVE_STATES) \subseteq InState(T, ACTIVE_STATES) \cup {j}
  BY <1>3 DEF InState
<1>5. InState(U, BUSY_STATES) \subseteq InState(T, BUSY_STATES) \cup {j}
  BY <1>3 DEF InState
<1>6. \A c \in Channel : BacklogIn(U, c) \subseteq BacklogIn(T, c)
  BY <1>3 DEF BacklogIn, InChannel
<1>7. JobCapIn(U) /\ RunningCapIn(U)
  BY <1>1, <1>4, <1>5, JobCapTaken, RunningCapTaken DEF DispatchAccepted
<1>8. BacklogBoundIn(U)
  BY <1>1, <1>6, BacklogBoundKept
<1>. QED
  BY <1>2, <1>7, <1>8, SoundHas

LEMMA ClaimedSound ==
  ASSUME NEW T, Sound(T), NEW j \in JobId, T[j].state = QUEUED, ~ChannelBusy(T, j),
         NEW r \in Runner
  PROVE  Sound(Claimed(T, j, r))
<1>. DEFINE U == Claimed(T, j, r)
<1>1. SoundRows(T) /\ JobCapIn(T) /\ RunningCapIn(T) /\ BacklogBoundIn(T)
  BY SoundHas
<1>2. SoundRows(U)
  BY <1>1, ClaimedRows
<1>3. /\ \A k \in JobId \ {j} : U[k] = T[k]
      /\ T[j].mode = "test-server"
  BY <1>1 DEF SoundRows, GoodRow, Claimed
<1>4. InState(U, ACTIVE_STATES) \subseteq InState(T, ACTIVE_STATES)
  BY <1>3 DEF InState
<1>5. InState(U, BUSY_STATES) \subseteq InState(T, BUSY_STATES) \cup {j}
  BY <1>3 DEF InState
<1>6. \A c \in Channel : BacklogIn(U, c) \subseteq BacklogIn(T, c)
  BY <1>3 DEF BacklogIn, InChannel
<1>7. JobCapIn(U) /\ RunningCapIn(U) /\ BacklogBoundIn(U)
  BY <1>1, <1>4, <1>5, <1>6, JobCapKept, RunningCapTaken, BacklogBoundKept
<1>. QED
  BY <1>2, <1>7, SoundHas

(* The other statements make no run active or busy that was not.           *)
LEMMA QuieterSound ==
  ASSUME NEW T, Sound(T), NEW U, SoundRows(U),
         \A j \in JobId :
           /\ U[j].state \in ACTIVE_STATES => T[j].state \in ACTIVE_STATES
           /\ U[j].state \in BUSY_STATES => T[j].state \in BUSY_STATES
           /\ U[j].mode = T[j].mode
  PROVE  Sound(U)
<1>1. JobCapIn(T) /\ RunningCapIn(T) /\ BacklogBoundIn(T)
  BY SoundHas
<1>2. /\ InState(U, ACTIVE_STATES) \subseteq InState(T, ACTIVE_STATES)
      /\ InState(U, BUSY_STATES) \subseteq InState(T, BUSY_STATES)
  BY DEF InState
<1>3. \A c \in Channel : BacklogIn(U, c) \subseteq BacklogIn(T, c)
  BY DEF BacklogIn, InChannel
<1>. QED
  BY <1>1, <1>2, <1>3, JobCapKept, RunningCapKept, BacklogBoundKept, SoundHas

LEMMA ReapedSound ==
  ASSUME NEW T, Sound(T)
  PROVE  Sound(Requeued(T)) /\ Sound(Abandoned(T)) /\ Sound(Reaped(T))
<1>1. ASSUME NEW S, Sound(S)
      PROVE  Sound(Requeued(S)) /\ Sound(Abandoned(S))
  <2>1. SoundRows(S) /\ SoundRows(Requeued(S)) /\ SoundRows(Abandoned(S))
    BY <1>1, ReapedRows, SoundHas
  <2>2. \A j \in JobId : j \in Expired(S) => S[j].state \in BUSY_STATES
    BY DEF Expired, InState
  <2>3. ASSUME NEW j \in JobId
        PROVE  /\ \/ Requeued(S)[j].state = S[j].state
                  \/ j \in Expired(S) /\ Requeued(S)[j].state = QUEUED
               /\ \/ Abandoned(S)[j].state = S[j].state
                  \/ j \in Expired(S) /\ Abandoned(S)[j].state = ABANDONED
               /\ Requeued(S)[j].mode = S[j].mode
               /\ Abandoned(S)[j].mode = S[j].mode
    <3>1. S[j] \in Row
      BY <2>1 DEF SoundRows, GoodRow
    <3>. QED
      BY <3>1 DEF Requeued, Abandoned
  <2>4. Sound(Requeued(S))
    BY <1>1, <2>1, <2>2, <2>3, QuieterSound
  <2>5. Sound(Abandoned(S))
    BY <1>1, <2>1, <2>2, <2>3, QuieterSound
  <2>. QED
    BY <2>4, <2>5
<1>. QED
  BY <1>1 DEF Reaped
-----------------------------------------------------------------------------
(* Where the reaper leaves each row: the two statements never meet on one. *)
LEMMA ReapedRow ==
  ASSUME NEW T, SoundRows(T), NEW k \in JobId
  PROVE  /\ k \notin Expired(T) =>
              Requeued(T)[k] = T[k] /\ Abandoned(T)[k] = T[k] /\ Reaped(T)[k] = T[k]
         /\ k \in Expired(T) /\ T[k].attempts < MaxAttempts =>
              /\ Reaped(T)[k] = Requeued(T)[k]
              /\ Abandoned(T)[k] = T[k]
              /\ Reaped(T)[k].state = QUEUED
              /\ Reaped(T)[k].attempts = T[k].attempts
         /\ k \in Expired(T) /\ ~(T[k].attempts < MaxAttempts) =>
              /\ Reaped(T)[k] = Abandoned(T)[k]
              /\ Requeued(T)[k] = T[k]
              /\ Reaped(T)[k].state = ABANDONED
              /\ Reaped(T)[k].attempts = T[k].attempts
         /\ Reaped(T)[k].mode = T[k].mode
         /\ k \notin Expired(Reaped(T))
<1>0. T[k] \in Row
  BY DEF SoundRows, GoodRow
<1>1. CASE k \notin Expired(T)
  <2>1. Requeued(T)[k] = T[k] /\ Abandoned(T)[k] = T[k]
    BY <1>1 DEF Requeued, Abandoned
  <2>2. k \notin Expired(Requeued(T))
    BY <1>1, <2>1 DEF Expired, InState
  <2>3. Reaped(T)[k] = T[k]
    BY <2>1, <2>2 DEF Reaped, Abandoned
  <2>. QED
    BY <1>1, <2>1, <2>3 DEF Expired, InState
<1>2. CASE k \in Expired(T) /\ T[k].attempts < MaxAttempts
  <2>1. Requeued(T)[k] = [T[k] EXCEPT !.state = QUEUED, !.runner = NULL, !.lease = NULL]
    BY <1>2 DEF Requeued
  <2>2. k \notin Expired(Requeued(T))
    BY <1>0, <2>1 DEF Expired, InState
  <2>3. Abandoned(T)[k] = T[k]
    BY <1>0, <1>2, LeaseAssumption DEF Abandoned
  <2>4. Reaped(T)[k] = Requeued(T)[k]
    BY <2>2 DEF Reaped, Abandoned
  <2>. QED
    BY <1>0, <1>2, <2>1, <2>3, <2>4 DEF Expired, InState
<1>3. CASE k \in Expired(T) /\ ~(T[k].attempts < MaxAttempts)
  <2>1. Requeued(T)[k] = T[k]
    BY <1>3 DEF Requeued
  <2>2. k \in Expired(Requeued(T)) /\ T[k].attempts >= MaxAttempts
    BY <1>0, <1>3, <2>1, LeaseAssumption DEF Expired, InState
  <2>3. /\ Reaped(T)[k] = [T[k] EXCEPT !.state = ABANDONED, !.lease = NULL]
        /\ Abandoned(T)[k] = [T[k] EXCEPT !.state = ABANDONED, !.lease = NULL]
    BY <1>3, <2>1, <2>2 DEF Reaped, Abandoned
  <2>. QED
    BY <1>0, <1>3, <2>1, <2>3 DEF Expired, InState
<1>. QED
  BY <1>1, <1>2, <1>3

(* What becomes of a row depends on that row alone.                        *)
LEMMA ReapedSameRow ==
  ASSUME NEW T, NEW U, NEW k \in JobId, U[k] = T[k]
  PROVE  /\ k \in Expired(U) <=> k \in Expired(T)
         /\ Reaped(U)[k] = Reaped(T)[k]
         /\ \A r \in Runner : Claimed(Reaped(U), k, r)[k] = Claimed(Reaped(T), k, r)[k]
<1>1. /\ k \in Expired(U) <=> k \in Expired(T)
      /\ Requeued(U)[k] = Requeued(T)[k]
  BY DEF Expired, InState, Requeued
<1>2. Reaped(U)[k] = Reaped(T)[k]
  BY <1>1 DEF Reaped, Abandoned, Expired, InState
<1>3. k \in DOMAIN Reaped(U) /\ k \in DOMAIN Reaped(T)
  BY DEF Reaped, Abandoned
<1>. QED
  BY <1>1, <1>2, <1>3 DEF Claimed

(* Which rows a step can change.  What has ended and what is held under a  *)
(* running lease is out of the reach of the reaper, so a claim, which      *)
(* reaps first, hands out a row that was queued or whose lease was over.   *)
LEMMA ReapedLeaves ==
  ASSUME NEW T, SoundRows(T), NEW k \in JobId,
         \/ T[k].state \in TERMINAL_STATES 
         \/ Held(T, k) /\ T[k].lease # 0
  PROVE  Reaped(T)[k] = T[k]
<1>1. k \notin Expired(T)
  BY DEF Expired, InState, Held
<1>2. Requeued(T)[k] = T[k]
  BY <1>1 DEF Requeued
<1>3. k \notin Expired(Requeued(T))
  BY <1>2 DEF Expired, InState, Held
<1>. QED
  BY <1>2, <1>3 DEF Reaped, Abandoned
-----------------------------------------------------------------------------
(* The lifecycle.  The phase of a good row can be read off its state and   *)
(* its runner.                                                             *)
LEMMA PhaseOfGoodRow ==
  ASSUME NEW row \in GoodRow
  PROVE  /\ row.state = ABSENT => PhaseOf(row) = "unknown"
         /\ row.state = QUEUED => PhaseOf(row) = "waiting"
         /\ row.state \in BUSY_STATES /\ row.runner # NULL => PhaseOf(row) = "held"
         /\ row.state \in BUSY_STATES /\ row.runner = NULL => PhaseOf(row) = "dispatched"
         /\ row.state \in TERMINAL_STATES => PhaseOf(row) = "over"
<1>1. row.state \in BUSY_STATES => (row.runner # NULL <=> row.mode = "test-server")
  BY DEF GoodRow
<1>2. row.mode \in {"test-server", "dispatch"}
  BY DEF GoodRow
<1>. QED
  BY <1>1, <1>2 DEF PhaseOf

(* A new row is an accepted run.                                           *)
LEMMA AcceptedPhase ==
  ASSUME NEW T, NEW U, SoundRows(T), SoundRows(U), NEW j \in JobId, T[j].state = ABSENT,
         \A k \in JobId \ {j} : U[k] = T[k], U[j].state \in {QUEUED, RUNNING},
         U[j].runner = NULL, U[j].attempts = 0
  PROVE  /\ PhaseIn(T)[j] = "unknown"
         /\ \E p \in {"waiting", "dispatched"} : PhaseIn(U) = [PhaseIn(T) EXCEPT ![j] = p]
         /\ HolderIn(U) = HolderIn(T) /\ TriesIn(U) = TriesIn(T)
<1>1. T[j].attempts = 0
  BY DEF SoundRows, GoodRow
<1>2. PhaseOf(T[j]) = "unknown" /\ PhaseOf(U[j]) \in {"waiting", "dispatched"}
  BY <1>1, PhaseOfGoodRow DEF SoundRows
<1>. QED
  BY <1>1, <1>2 DEF PhaseIn, HolderIn, HolderOf, TriesIn

(* A result ends a run that is held.                                       *)
LEMMA ReportedPhase ==
  ASSUME NEW T, NEW U, SoundRows(T), SoundRows(U), NEW j \in JobId,
         T[j].state \in BUSY_STATES, T[j].runner # NULL,
         \A k \in JobId \ {j} : U[k] = T[k],
         U[j].state \in {DONE, FAILED}, U[j].attempts = T[j].attempts
  PROVE  /\ PhaseIn(T)[j] = "held"
         /\ PhaseIn(U) = [PhaseIn(T) EXCEPT ![j] = "over"]
         /\ HolderIn(U) = [HolderIn(T) EXCEPT ![j] = NULL]
         /\ TriesIn(U) = TriesIn(T)
<1>1. PhaseOf(T[j]) = "held" /\ PhaseOf(U[j]) = "over"
  BY PhaseOfGoodRow DEF SoundRows
<1>. QED
  BY <1>1 DEF PhaseIn, HolderIn, HolderOf, TriesIn

(* A run nobody holds is over when it was never dispatched.                *)
LEMMA NotDispatchedPhase ==
  ASSUME NEW T, NEW U, SoundRows(T), SoundRows(U), NEW j \in JobId,
         T[j].state \in {QUEUED, RUNNING}, T[j].runner = NULL,
         \A k \in JobId \ {j} : U[k] = T[k],
         U[j].state = NOT_DISPATCHED, U[j].attempts = T[j].attempts
  PROVE  /\ PhaseIn(T)[j] \in {"waiting", "dispatched"}
         /\ PhaseIn(U) = [PhaseIn(T) EXCEPT ![j] = "over"]
         /\ HolderIn(U) = HolderIn(T) /\ TriesIn(U) = TriesIn(T)
<1>1. PhaseOf(T[j]) \in {"waiting", "dispatched"} /\ PhaseOf(U[j]) = "over"
  BY PhaseOfGoodRow DEF SoundRows
<1>. QED
  BY <1>1 DEF PhaseIn, HolderIn, HolderOf, TriesIn

(* Starting a run, renewing a lease and the passing of time show nothing.  *)
LEMMA SamePhases ==
  ASSUME NEW T, NEW U, SoundRows(T), SoundRows(U),
         \A k \in JobId :
           /\ U[k].runner = T[k].runner /\ U[k].attempts = T[k].attempts
           /\ \/ U[k].state = T[k].state
              \/ T[k].state = CLAIMED /\ U[k].state = RUNNING /\ T[k].runner # NULL
  PROVE  PhaseIn(U) = PhaseIn(T) /\ HolderIn(U) = HolderIn(T) /\ TriesIn(U) = TriesIn(T)
<1>1. ASSUME NEW k \in JobId
      PROVE  PhaseOf(U[k]) = PhaseOf(T[k]) /\ HolderOf(U[k]) = HolderOf(T[k])
  <2>1. T[k] \in GoodRow /\ U[k] \in GoodRow
    BY DEF SoundRows
  <2>2. T[k].state \in JobState
    BY <2>1 DEF GoodRow
  <2>. QED
    BY <2>1, <2>2, PhaseOfGoodRow DEF HolderOf
<1>. QED
  BY <1>1 DEF PhaseIn, HolderIn, TriesIn

(* Reaping the expired rows E takes those runs back.                       *)
LEMMA TakenBackPhases ==
  ASSUME NEW T, SoundRows(T), NEW E \in SUBSET Expired(T), NEW U, SoundRows(U),
         \A j \in JobId : U[j] = IF j \in E THEN Reaped(T)[j] ELSE T[j]
  PROVE  /\ \A e \in E : e \in JobId /\ PhaseIn(T)[e] = "held"
         /\ PhaseIn(U) = [j \in JobId |-> IF j \notin E THEN PhaseIn(T)[j]
                                         ELSE IF TriesIn(T)[j] < MaxAttempts THEN "waiting"
                                         ELSE "over"]
         /\ HolderIn(U) = [j \in JobId |-> IF j \in E THEN NULL ELSE HolderIn(T)[j]]
         /\ TriesIn(U) = TriesIn(T)
<1>1. E \subseteq JobId
  BY DEF Expired, InState
<1>2. \A j \in JobId : T[j] \in GoodRow /\ U[j] \in GoodRow
  BY DEF SoundRows
<1>3. ASSUME NEW e \in E
      PROVE  PhaseOf(T[e]) = "held"
  <2>1. e \in JobId /\ T[e].state \in BUSY_STATES /\ T[e].lease # NULL
    BY NullAssumption DEF Expired, InState
  <2>2. T[e].runner # NULL
    BY <1>2, <2>1 DEF GoodRow
  <2>. QED
    BY <1>2, <2>1, <2>2, PhaseOfGoodRow
<1>4. ASSUME NEW j \in JobId
      PROVE  /\ PhaseOf(U[j]) = IF j \notin E THEN PhaseOf(T[j])
                                ELSE IF T[j].attempts < MaxAttempts THEN "waiting" ELSE "over"
             /\ HolderOf(U[j]) = IF j \in E THEN NULL ELSE HolderOf(T[j])
             /\ U[j].attempts = T[j].attempts
  <2>1. CASE j \notin E
    BY <2>1
  <2>2. CASE j \in E /\ T[j].attempts < MaxAttempts
    <3>1. U[j].state = QUEUED /\ U[j].attempts = T[j].attempts
      BY <2>2, ReapedRow
    <3>. QED
      BY <1>2, <2>2, <3>1, PhaseOfGoodRow DEF HolderOf
  <2>3. CASE j \in E /\ ~(T[j].attempts < MaxAttempts)
    <3>1. U[j].state = ABANDONED /\ U[j].attempts = T[j].attempts
      BY <2>3, ReapedRow
    <3>. QED
      BY <1>2, <2>3, <3>1, PhaseOfGoodRow DEF HolderOf
  <2>. QED
    BY <2>1, <2>2, <2>3
<1>. QED
  BY <1>1, <1>3, <1>4 DEF PhaseIn, HolderIn, TriesIn

(* A claim hands a waiting run to r.                                       *)
LEMMA HandedOutPhase ==
  ASSUME NEW V, SoundRows(V), NEW j \in JobId, V[j].state = QUEUED, NEW r \in Runner,
         NEW U, U[j] = Claimed(V, j, r)[j], \A k \in JobId \ {j} : U[k] = V[k]
  PROVE  /\ PhaseIn(V)[j] = "waiting"
         /\ PhaseIn(U) = [PhaseIn(V) EXCEPT ![j] = "held"]
         /\ HolderIn(U) = [HolderIn(V) EXCEPT ![j] = r]
         /\ TriesIn(U) = [TriesIn(V) EXCEPT ![j] = TriesIn(V)[j] + 1]
<1>1. SoundRows(Claimed(V, j, r))
  BY ClaimedRows
<1>2. /\ U[j] \in GoodRow
      /\ U[j].state = CLAIMED /\ U[j].runner = r /\ U[j].attempts = V[j].attempts + 1
  BY <1>1 DEF Claimed, SoundRows, GoodRow
<1>3. PhaseOf(V[j]) = "waiting" /\ PhaseOf(U[j]) = "held"
  BY <1>2, NullAssumption, PhaseOfGoodRow DEF SoundRows
<1>. QED
  BY <1>2, <1>3 DEF PhaseIn, HolderIn, HolderOf, TriesIn
=============================================================================
