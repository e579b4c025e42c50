------------------------------ MODULE JobTable ------------------------------
(***************************************************************************)
(* The `jobs` table of the queue store and the meaning of every statement  *)
(* the store runs on it, as operators on a table value T.  The two         *)
(* backends (sqlite_backend.py, postgres_backend.py) run the same          *)
(* statements under different concurrency control; JobStore and            *)
(* PostgresStore say when each statement takes effect, this module says    *)
(* what it does.                                                           *)
(*                                                                         *)
(* A row keeps the columns the other statements read.  Time is kept as     *)
(* what is left of a lease: `lease` is the number of ticks until           *)
(* `lease_expires < now`, so 0 is an expired lease and NULL no lease.      *)
(***************************************************************************)
EXTENDS Naturals, FiniteSets

CONSTANTS
  JobId,                 \* ids a run can have (uuid5 of a Slack trigger_id)
  Runner,                \* test-server ids
  Product, Server, Channel,
  Job,                   \* what is asked for under each id, see JobAssumption
  MaxActivePerJob,       \* RUNTESTS_MAX_ACTIVE_PER_JOB,      0 is no cap
  MaxQueuedPerChannel,   \* RUNTESTS_MAX_QUEUED_PER_CHANNEL,  0 is no cap
  MaxRunningPerChannel,  \* RUNTESTS_MAX_RUNNING_PER_CHANNEL, 0 is no cap
  MaxAttempts,           \* JOB_MAX_ATTEMPTS
  LeaseTicks,            \* JOB_LEASE_SECONDS, in ticks
  Stamp,                 \* values of created_at, see StampAssumption
  NULL                   \* SQL's NULL

ASSUME JobAssumption ==
  /\ IsFiniteSet(JobId)
  /\ Job \in [JobId -> [product: Product, server: Server, channel: Channel]]

ASSUME CapsAssumption ==
  /\ MaxActivePerJob \in Nat
  /\ MaxQueuedPerChannel \in Nat
  /\ MaxRunningPerChannel \in Nat

ASSUME LeaseAssumption ==
  /\ MaxAttempts \in Nat \ {0}
  /\ LeaseTicks \in Nat \ {0}

(* created_at is the caller's clock, read before the transaction begins    *)
(* (now_or): rows need not be inserted in the order of their stamps, and   *)
(* two may carry the same.                                                 *)
ASSUME StampAssumption == Stamp \subseteq Nat

ASSUME NullAssumption == NULL \notin Runner /\ NULL \notin Nat
-----------------------------------------------------------------------------
(* States of a row.  ABSENT is the state of an id that has no row.         *)
ABSENT         == "absent"
QUEUED         == "queued"
CLAIMED        == "claimed"
RUNNING        == "running"
DONE           == "done"
FAILED         == "failed"
ABANDONED      == "abandoned"
NOT_DISPATCHED == "not_dispatched"

ACTIVE_STATES   == {QUEUED, CLAIMED, RUNNING}
BUSY_STATES     == {CLAIMED, RUNNING}
TERMINAL_STATES == {DONE, FAILED, ABANDONED, NOT_DISPATCHED}
JobState        == {ABSENT} \cup ACTIVE_STATES \cup TERMINAL_STATES

(* dispatch_mode: a queued run waits for a test server; a dispatched one   *)
(* was started by the process that records it.                             *)
Mode == {"test-server", "dispatch"}

Row == [state    : JobState,
        mode     : Mode,
        runner   : Runner \cup {NULL},
        lease    : (0..LeaseTicks) \cup {NULL},
        attempts : Nat,
        created  : Nat]

NoRow == [state |-> ABSENT, mode |-> "test-server", runner |-> NULL,
          lease |-> NULL, attempts |-> 0, created |-> 0]

EmptyTable == [j \in JobId |-> NoRow]
-----------------------------------------------------------------------------
(* The sets of rows the statements count.                                  *)
InState(T, S) == {j \in JobId : T[j].state \in S}

SameJob(j) == {k \in JobId : /\ Job[k].product = Job[j].product
                             /\ Job[k].server = Job[j].server}

InChannel(c) == {k \in JobId : Job[k].channel = c}

ActiveOf(T, j)  == SameJob(j) \cap InState(T, ACTIVE_STATES)
QueuedIn(T, c)  == InChannel(c) \cap InState(T, {QUEUED})
BusyIn(T, c)    == InChannel(c) \cap InState(T, BUSY_STATES)

(* A cap of zero is no cap.                                                *)
AtCap(S, cap) == cap > 0 /\ Cardinality(S) >= cap
-----------------------------------------------------------------------------
(* INSERT: the primary key answers a duplicate, then the per-job cap, then *)
(* the channel cap that fits what is inserted: a queued row waits in the   *)
(* backlog, a dispatched row is running from the start.                    *)
Duplicate(T, j) == T[j].state # ABSENT

(* Mutant: only the runs that execute count against the per-job cap.       *)
JobAtCapacityBusyOnly(T, j) ==
  AtCap(SameJob(j) \cap InState(T, BUSY_STATES), MaxActivePerJob)

JobAtCapacity(T, j) == AtCap(ActiveOf(T, j), MaxActivePerJob)

ChannelQueueFull(T, j) == AtCap(QueuedIn(T, Job[j].channel), MaxQueuedPerChannel)

(* Mutant: a claimed run that has not said it started does not count.      *)
ChannelBusyStartedOnly(T, j) ==
  AtCap(InChannel(Job[j].channel) \cap InState(T, {RUNNING}), MaxRunningPerChannel)

ChannelBusy(T, j) == AtCap(BusyIn(T, Job[j].channel), MaxRunningPerChannel)

EnqueueAccepted(T, j) ==
  ~Duplicate(T, j) /\ ~JobAtCapacity(T, j) /\ ~ChannelQueueFull(T, j)

DispatchAccepted(T, j) ==
  ~Duplicate(T, j) /\ ~JobAtCapacity(T, j) /\ ~ChannelBusy(T, j)

(* A row starts with nobody, no lease and no attempt.                      *)
Inserted(T, j, state, mode, stamp) ==
  [T EXCEPT ![j] = [state |-> state, mode |-> mode, runner |-> NULL,
                    lease |-> NULL, attempts |-> 0, created |-> stamp]]

Enqueued(T, j, stamp)   == Inserted(T, j, QUEUED, "test-server", stamp)
Dispatched(T, j, stamp) == Inserted(T, j, RUNNING, "dispatch", stamp)
-----------------------------------------------------------------------------
(* Mutants: a lease need not have run out; only a run that has not started *)
(* is taken back.                                                          *)
ExpiredEarly(T) == {j \in InState(T, BUSY_STATES) : T[j].lease # NULL}
ExpiredClaimedOnly(T) == {j \in InState(T, {CLAIMED}) : T[j].lease = 0}

(* _reap: every expired lease is taken back, in two statements: back to    *)
(* the queue while attempts are left, abandoned otherwise.  A dispatched   *)
(* row has no lease and is never expired.                                  *)
Expired(T) ==
  {j \in InState(T, BUSY_STATES) : T[j].lease = 0}

(* Mutant: one attempt too many.                                           *)
RequeuedOnceMore(T) ==
  [j \in JobId |->
    IF j \in Expired(T) /\ T[j].attempts <= MaxAttempts
    THEN [T[j] EXCEPT !.state = QUEUED, !.runner = NULL, !.lease = NULL]
    ELSE T[j]]

Requeued(T) ==
  [j \in JobId |->
    IF j \in Expired(T) /\ T[j].attempts < MaxAttempts
    THEN [T[j] EXCEPT !.state = QUEUED, !.runner = NULL, !.lease = NULL]
    ELSE T[j]]

Abandoned(T) ==
  [j \in JobId |->
    IF j \in Expired(T) /\ T[j].attempts >= MaxAttempts
    THEN [T[j] EXCEPT !.state = ABANDONED, !.lease = NULL]
    ELSE T[j]]

Reaped(T) == Abandoned(Requeued(T))

(* Mutant: the running cap is not asked.                                   *)
ClaimableUncapped(T, labels) ==
  {j \in InState(T, {QUEUED}) : labels = {} \/ Job[j].server \in labels}

(* claim: the oldest queued row the labels and the channel's running cap   *)
(* let this test server take; no labels means any server.                  *)
Claimable(T, labels) ==
  {j \in InState(T, {QUEUED}) :
     /\ labels = {} \/ Job[j].server \in labels
     /\ ~ChannelBusy(T, j)}

(* Mutant: ORDER BY created_at DESC.                                       *)
Newest(T, S) == {j \in S : \A k \in S : T[j].created >= T[k].created}

Oldest(T, S) == {j \in S : \A k \in S : T[j].created <= T[k].created}

(* Mutant: a hand-out is not counted.                                      *)
ClaimedUncounted(T, j, r) ==
  [T EXCEPT ![j] = [T[j] EXCEPT !.state = CLAIMED, !.runner = r, !.lease = LeaseTicks]]

Claimed(T, j, r) ==
  [T EXCEPT ![j] = [T[j] EXCEPT !.state = CLAIMED, !.runner = r,
                                !.lease = LeaseTicks,
                                !.attempts = T[j].attempts + 1]]
-----------------------------------------------------------------------------
(* The single-row statements: the WHERE clause, then the SET clause.       *)

(* Mutant: a "started" that comes late starts an ended run again.          *)
CanMarkRunningLate(T, j, r) == T[j].runner = r

CanMarkRunning(T, j, r) == T[j].state = CLAIMED /\ T[j].runner = r

MarkedRunning(T, j) == [T EXCEPT ![j] = [T[j] EXCEPT !.state = RUNNING]]

(* Mutant: anybody can end a run.                                          *)
CanFinishByAnybody(T, j, r) == T[j].state \in BUSY_STATES

CanFinish(T, j, r) == T[j].state \in BUSY_STATES /\ T[j].runner = r

(* Mutant: a finished row keeps its lease.                                 *)
FinishedLeased(T, j, passed) ==
  [T EXCEPT ![j] = [T[j] EXCEPT !.state = IF passed THEN DONE ELSE FAILED]]

Finished(T, j, passed) ==
  [T EXCEPT ![j] = [T[j] EXCEPT !.state = IF passed THEN DONE ELSE FAILED,
                                !.lease = NULL]]

CanMarkNotDispatched(T, j) ==
  T[j].state \in {QUEUED, RUNNING} /\ T[j].runner = NULL

MarkedNotDispatched(T, j) ==
  [T EXCEPT ![j] = [T[j] EXCEPT !.state = NOT_DISPATCHED, !.lease = NULL]]

(* renew: a heartbeat extends the lease of EVERY row its runner is busy    *)
(* with, whether or not the runner knows of it.                            *)
HeldBy(T, r) == {j \in JobId : T[j].state \in BUSY_STATES /\ T[j].runner = r}

(* Mutants: the lease is added to what is left; a claimed run that has not *)
(* said it started is not renewed.                                         *)
RenewedOnTop(T, r) ==
  [j \in JobId |-> IF j \in HeldBy(T, r) THEN [T[j] EXCEPT !.lease = T[j].lease + LeaseTicks]
                   ELSE T[j]]
RenewedStartedOnly(T, r) ==
  [j \in JobId |-> IF j \in HeldBy(T, r) /\ T[j].state = RUNNING
                   THEN [T[j] EXCEPT !.lease = LeaseTicks] ELSE T[j]]

Renewed(T, r) ==
  [j \in JobId |-> IF j \in HeldBy(T, r) THEN [T[j] EXCEPT !.lease = LeaseTicks]
                   ELSE T[j]]

(* One tick of the clock: every running lease is one tick shorter.         *)
Aged(T) ==
  [j \in JobId |-> IF T[j].lease # NULL /\ T[j].lease # 0
                   THEN [T[j] EXCEPT !.lease = T[j].lease - 1]
                   ELSE T[j]]
-----------------------------------------------------------------------------
(* What a sound table satisfies.  JobStore and PostgresStore state these   *)
(* of their tables and say there what they mean for the program.           *)
Table == [JobId -> Row]

Held(T, j) == T[j].state \in BUSY_STATES /\ T[j].mode = "test-server"

CustodyIn(T) ==
  \A j \in JobId :
    /\ T[j].lease # NULL <=> Held(T, j)
    /\ T[j].runner # NULL <=> Held(T, j) \/ T[j].state \in {DONE, FAILED, ABANDONED}

DispatchedStaysOutIn(T) ==
  \A j \in JobId : T[j].mode = "dispatch" =>
    T[j].state \in {RUNNING, NOT_DISPATCHED} /\ T[j].attempts = 0

AttemptsBoundedIn(T) ==
  \A j \in JobId :
    /\ T[j].state = ABSENT => T[j].attempts = 0
    /\ T[j].attempts <= MaxAttempts
    /\ T[j].state = QUEUED => T[j].attempts < MaxAttempts
    /\ T[j].state = ABANDONED => T[j].attempts = MaxAttempts
    /\ Held(T, j) => T[j].attempts > 0

JobCapIn(T) ==
  MaxActivePerJob > 0 =>
    \A j \in JobId : Cardinality(ActiveOf(T, j)) <= MaxActivePerJob

RunningCapIn(T) ==
  MaxRunningPerChannel > 0 =>
    \A c \in Channel : Cardinality(BusyIn(T, c)) <= MaxRunningPerChannel

(* The runs of one channel that wait for a test server or are held by one. *)
BacklogIn(T, c) ==
  {j \in InChannel(c) : T[j].mode = "test-server" /\ T[j].state \in ACTIVE_STATES}

BacklogBoundIn(T) ==
  MaxQueuedPerChannel > 0 /\ MaxRunningPerChannel > 0 =>
    \A c \in Channel :
      Cardinality(BacklogIn(T, c)) <= MaxQueuedPerChannel + MaxRunningPerChannel
-----------------------------------------------------------------------------
(* A table seen as the lifecycle (JobLifecycle) that both backends keep.   *)
PhaseOf(row) ==
  CASE row.state = ABSENT -> "unknown"
    [] row.state = QUEUED -> "waiting"
    [] row.state \in BUSY_STATES /\ row.mode = "test-server" -> "held"
    [] row.state \in BUSY_STATES /\ row.mode = "dispatch" -> "dispatched"
    [] row.state \in TERMINAL_STATES -> "over"

HolderOf(row) == IF row.state \in BUSY_STATES THEN row.runner ELSE NULL

PhaseIn(T)  == [j \in JobId |-> PhaseOf(T[j])]
HolderIn(T) == [j \in JobId |-> HolderOf(T[j])]
TriesIn(T)  == [j \in JobId |-> T[j].attempts]
=============================================================================
