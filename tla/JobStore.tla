------------------------------ MODULE JobStore ------------------------------
(***************************************************************************)
(* The queue store with each call one atomic step: the SQLite backend,     *)
(* whose read-then-write calls run under BEGIN IMMEDIATE and whose other   *)
(* calls are a single statement, and the contract every backend has to     *)
(* keep (store/base.py).                                                   *)
(*                                                                         *)
(* A refused insert, a claim that finds nothing and reaps nothing, and an  *)
(* UPDATE that matches no row leave the table as it is; they are stuttering*)
(* steps and have no action.                                               *)
(***************************************************************************)
EXTENDS JobTable

VARIABLE jobs

Init == jobs = EmptyTable

(* enqueue: idempotent on the id, refused at a cap.                        *)
Enqueue(j) ==
  /\ EnqueueAccepted(jobs, j)
  /\ \E at \in Stamp : jobs' = Enqueued(jobs, j, at)

(* record_dispatch: the run starts as it is recorded; there is no queue.   *)
RecordDispatch(j) ==
  /\ DispatchAccepted(jobs, j)
  /\ \E at \in Stamp : jobs' = Dispatched(jobs, j, at)

(* claim: reap and hand out one row, in one transaction.                   *)
Claim(r, labels) ==
  LET T == Reaped(jobs)
      candidates == Claimable(T, labels)
  IN  \/ \E j \in Oldest(T, candidates) : jobs' = Claimed(T, j, r)
      \/ candidates = {} /\ jobs' = T

MarkRunning(j, r) ==
  /\ CanMarkRunning(jobs, j, r)
  /\ jobs' = MarkedRunning(jobs, j)

Finish(j, r, passed) ==
  /\ CanFinish(jobs, j, r)
  /\ jobs' = Finished(jobs, j, passed)

MarkNotDispatched(j) ==
  /\ CanMarkNotDispatched(jobs, j)
  /\ jobs' = MarkedNotDispatched(jobs, j)

Renew(r) == jobs' = Renewed(jobs, r)

Reap == jobs' = Reaped(jobs)

Tick == jobs' = Aged(jobs)

Next ==
  \/ \E j \in JobId : Enqueue(j) \/ RecordDispatch(j) \/ MarkNotDispatched(j)
  \/ \E r \in Runner, labels \in SUBSET Server : Claim(r, labels)
  \/ \E j \in JobId, r \in Runner :
       MarkRunning(j, r) \/ \E passed \in BOOLEAN : Finish(j, r, passed)
  \/ \E r \in Runner : Renew(r)
  \/ Reap
  \/ Tick

Spec == Init /\ [][Next]_jobs
-----------------------------------------------------------------------------
(* Every row has the columns' types.                                       *)
TypeOK == jobs \in Table

(* `runner_id` and `lease_expires` agree with the state of every row: a    *)
(* row is leased exactly while a test server holds it, so the reaper can   *)
(* reach every held row and no other, and only a row that was held keeps   *)
(* the name of who held it.  The UPDATE statements of claim, finish,       *)
(* mark_not_dispatched, renew and _reap set these columns independently.   *)
Custody == CustodyIn(jobs)

(* A run this process dispatched is never queued, claimed or reaped: it    *)
(* runs, or it was never dispatched (the `lease_expires IS NOT NULL` of    *)
(* _reap and the `runner_id IS NULL` of mark_not_dispatched).              *)
DispatchedStaysOut == DispatchedStaysOutIn(jobs)

(* One poisonous job cannot take the fleet down: it is handed out at most  *)
(* MaxAttempts times, a job in the queue always has an attempt left, and   *)
(* only a job that used them all is abandoned (the comment of _reap); a    *)
(* job nobody asked for has used none.                                     *)
AttemptsBounded == AttemptsBoundedIn(jobs)

(* No more than MaxActivePerJob runs of one (product, server) are active,  *)
(* whatever is requeued, claimed or dispatched in between (Caps).          *)
JobCap == JobCapIn(jobs)

(* No more than MaxRunningPerChannel runs of one channel are executing,    *)
(* counting both those claimed and those dispatched (Caps).                *)
RunningCap == RunningCapIn(jobs)

(* The reaper puts runs back in the queue without asking the backlog cap,  *)
(* so the queue alone can exceed it; what holds is that a channel never    *)
(* has more runs waiting or held than both caps together allow (_reap,     *)
(* _insert and claim).                                                     *)
BacklogBound == BacklogBoundIn(jobs)

(* No step takes a job from a test server whose lease is still running:    *)
(* the runner of such a row changes by no call of anybody.                 *)
LiveLeaseIsSafe ==
  [][\A j \in JobId :
       Held(jobs, j) /\ jobs[j].lease # 0 => jobs'[j].runner = jobs[j].runner]_jobs

(* A run ends once: a late result, a late "could not dispatch", a claim or *)
(* the reaper never changes the row of a run that has ended.               *)
EndsOnce ==
  [][\A j \in JobId :
       jobs[j].state \in TERMINAL_STATES => jobs'[j] = jobs[j]]_jobs

(* A claim never hands out a run while one it could have handed out, of an *)
(* earlier created_at, stays queued: a run given back keeps its place.     *)
OldestFirst ==
  [][\A j, k \in JobId :
       /\ Job[j].server = Job[k].server /\ Job[j].channel = Job[k].channel
       /\ jobs'[j].attempts > jobs[j].attempts
       /\ jobs'[k].state = QUEUED
       => jobs[j].created <= jobs[k].created]_jobs
-----------------------------------------------------------------------------
Lifecycle == INSTANCE JobLifecycle WITH
  phase <- PhaseIn(jobs), holder <- HolderIn(jobs), tries <- TriesIn(jobs)

(* The store keeps the lifecycle's promise: no run is lost, held twice,    *)
(* handed out too often or brought back once it is over.                   *)
KeepsLifecycle == Lifecycle!Spec
=============================================================================
