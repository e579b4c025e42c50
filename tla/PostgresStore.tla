---------------------------- MODULE PostgresStore ---------------------------
(***************************************************************************)
(* The Postgres backend: the same statements as JobStore, but a call is a  *)
(* transaction of several of them at READ COMMITTED.  Each statement sees  *)
(* what is committed when it runs plus its own transaction's writes; a row *)
(* written by an open transaction is locked until it commits or rolls      *)
(* back.  Two advisory locks, held to the end of the transaction,          *)
(* serialise the inserts (when any cap is set) and the claims (when the    *)
(* running cap is set).                                                    *)
(*                                                                         *)
(* `now` is read once, before the transaction, so the clock moves only     *)
(* between transactions.  A statement that has to wait for locked rows is  *)
(* not enabled; giving up that wait (lock_timeout, a deadlock, a lost      *)
(* connection) is Rollback, which the caller sees as StoreBusy.            *)
(***************************************************************************)
EXTENDS JobTable

CONSTANTS Session   \* threads of the edges that use the database

VARIABLES
  db,     \* the committed table
  call,   \* what each session's transaction is doing
  mine    \* the rows each open transaction has written, and so locked

vars == <<db, call, mine>>

Idle == [pc |-> "idle"]

Open(s) == call[s].pc # "idle"

LockedByOthers(s) == UNION {DOMAIN mine[o] : o \in Session \ {s}}

(* What a statement of s sees.                                             *)
View(s) == [j \in JobId |-> IF j \in DOMAIN mine[s] THEN mine[s][j] ELSE db[j]]

(* s has written the rows S, which now read as in T.                       *)
Write(s, S, T) ==
  mine' = [mine EXCEPT ![s] = [j \in DOMAIN mine[s] \cup S |-> T[j]]]

GoTo(s, pc) == call' = [call EXCEPT ![s].pc = pc]

NoRows == [j \in {} |-> NoRow]

End(s) ==
  /\ call' = [call EXCEPT ![s] = Idle]
  /\ mine' = [mine EXCEPT ![s] = NoRows]

Init ==
  /\ db = EmptyTable
  /\ call = [s \in Session |-> Idle]
  /\ mine = [s \in Session |-> NoRows]
-----------------------------------------------------------------------------
InsertSteps == {"duplicate?", "job cap?", "channel cap?", "insert", "insert commit"}
ClaimSteps  == {"requeue", "abandon", "pick", "claim commit"}
ReapSteps   == {"requeue only", "abandon only", "reap commit"}

AnyCap ==
  MaxActivePerJob > 0 \/ MaxQueuedPerChannel > 0 \/ MaxRunningPerChannel > 0

(* Mutant: inserts are not serialised.                                     *)
NoLockEnqueue == TRUE

(* pg_advisory_xact_lock: wait until no open transaction holds the lock.   *)
LockEnqueue == AnyCap => \A o \in Session : call[o].pc \notin InsertSteps

LockClaim == MaxRunningPerChannel > 0 => \A o \in Session : call[o].pc \notin ClaimSteps

(* _insert, for enqueue and for record_dispatch.                           *)
BeginInsert(s, j, state) ==
  /\ ~Open(s)
  /\ LockEnqueue
  /\ call' = [call EXCEPT ![s] = [pc |-> "duplicate?", job |-> j, state |-> state]]
  /\ UNCHANGED <<db, mine>>

CheckDuplicate(s) ==
  /\ call[s].pc = "duplicate?"
  /\ IF Duplicate(View(s), call[s].job) THEN End(s)
     ELSE GoTo(s, "job cap?") /\ UNCHANGED mine
  /\ UNCHANGED db

CheckJobCap(s) ==
  /\ call[s].pc = "job cap?"
  /\ IF JobAtCapacity(View(s), call[s].job) THEN End(s)
     ELSE GoTo(s, "channel cap?") /\ UNCHANGED mine
  /\ UNCHANGED db

ChannelRefuses(T, j, state) ==
  IF state = QUEUED THEN ChannelQueueFull(T, j) ELSE ChannelBusy(T, j)

CheckChannelCap(s) ==
  /\ call[s].pc = "channel cap?"
  /\ IF ChannelRefuses(View(s), call[s].job, call[s].state) THEN End(s)
     ELSE GoTo(s, "insert") /\ UNCHANGED mine
  /\ UNCHANGED db

(* ON CONFLICT DO NOTHING: a row somebody committed in the meantime, or is *)
(* about to, decides the duplicate.                                        *)
Insert(s) ==
  LET j == call[s].job
  IN  /\ call[s].pc = "insert"
      /\ j \notin LockedByOthers(s)
      /\ IF Duplicate(View(s), j) THEN End(s)
         ELSE /\ GoTo(s, "insert commit")
              /\ \E at \in Stamp :
                   Write(s, {j}, IF call[s].state = QUEUED THEN Enqueued(View(s), j, at)
                                 ELSE Dispatched(View(s), j, at))
      /\ UNCHANGED db
-----------------------------------------------------------------------------
(* claim: the two statements of _reap, then the one that picks a row,      *)
(* skipping rows other transactions have locked.                           *)
BeginClaim(s, r, labels) ==
  /\ ~Open(s)
  /\ LockClaim
  /\ call' = [call EXCEPT ![s] = [pc |-> "requeue", runner |-> r, labels |-> labels]]
  /\ UNCHANGED <<db, mine>>

(* reap: the two statements of _reap on their own, under no advisory lock. *)
BeginReap(s) ==
  /\ ~Open(s)
  /\ call' = [call EXCEPT ![s] = [pc |-> "requeue only"]]
  /\ UNCHANGED <<db, mine>>

ReapStatement(s, from, to, T) ==
  LET hit == {j \in JobId : T[j] # View(s)[j]}
  IN  /\ call[s].pc = from
      /\ hit \cap LockedByOthers(s) = {}
      /\ Write(s, hit, T)
      /\ GoTo(s, to)
      /\ UNCHANGED db

RequeueExpired(s) ==
  \/ ReapStatement(s, "requeue", "abandon", Requeued(View(s)))
  \/ ReapStatement(s, "requeue only", "abandon only", Requeued(View(s)))

AbandonExpired(s) ==
  \/ ReapStatement(s, "abandon", "pick", Abandoned(View(s)))
  \/ ReapStatement(s, "abandon only", "reap commit", Abandoned(View(s)))

Pick(s) ==
  LET candidates == Claimable(View(s), call[s].labels) \ LockedByOthers(s)
  IN  /\ call[s].pc = "pick"
      /\ \/ \E j \in Oldest(View(s), candidates) :
              Write(s, {j}, Claimed(View(s), j, call[s].runner))
         \/ candidates = {} /\ UNCHANGED mine
      /\ GoTo(s, "claim commit")
      /\ UNCHANGED db

Commit(s) ==
  /\ call[s].pc \in {"insert commit", "claim commit", "reap commit"}
  /\ db' = View(s)
  /\ End(s)

Rollback(s) ==
  /\ Open(s)
  /\ End(s)
  /\ UNCHANGED db
-----------------------------------------------------------------------------
(* Mutant: an UPDATE does not wait for the rows it matches.                *)
NeverWaits(S) == TRUE

(* The calls that are one UPDATE: it waits for the rows it matches, and    *)
(* what it sees when it gets them is what was committed.                   *)
Unlocked(S) == \A s \in Session : S \cap DOMAIN mine[s] = {}

AutoCommit(S, T) ==
  /\ Unlocked(S)
  /\ db' = T
  /\ UNCHANGED <<call, mine>>

MarkRunning(j, r) == CanMarkRunning(db, j, r) /\ AutoCommit({j}, MarkedRunning(db, j))

Finish(j, r, passed) == CanFinish(db, j, r) /\ AutoCommit({j}, Finished(db, j, passed))

MarkNotDispatched(j) ==
  /\ CanMarkNotDispatched(db, j)
  /\ AutoCommit({j}, MarkedNotDispatched(db, j))

Renew(r) == HeldBy(db, r) # {} /\ AutoCommit(HeldBy(db, r), Renewed(db, r))

Tick ==
  /\ \A s \in Session : ~Open(s)
  /\ db' = Aged(db)
  /\ UNCHANGED <<call, mine>>

Next ==
  \/ \E s \in Session :
       \/ \E j \in JobId, state \in {QUEUED, RUNNING} : BeginInsert(s, j, state)
       \/ CheckDuplicate(s) \/ CheckJobCap(s) \/ CheckChannelCap(s) \/ Insert(s)
       \/ \E r \in Runner, labels \in SUBSET Server : BeginClaim(s, r, labels)
       \/ BeginReap(s) \/ RequeueExpired(s) \/ AbandonExpired(s) \/ Pick(s)
       \/ Commit(s) \/ Rollback(s)
  \/ \E j \in JobId, r \in Runner :
       MarkRunning(j, r) \/ \E passed \in BOOLEAN : Finish(j, r, passed)
  \/ \E j \in JobId : MarkNotDispatched(j)
  \/ \E r \in Runner : Renew(r)
  \/ Tick

Spec == Init /\ [][Next]_vars
-----------------------------------------------------------------------------
Call ==
  [pc : {"idle"}]
    \cup [pc : InsertSteps, job : JobId, state : {QUEUED, RUNNING}]
    \cup [pc : ClaimSteps, runner : Runner, labels : SUBSET Server]
    \cup [pc : ReapSteps]

(* The committed rows and the rows being written have the columns' types.  *)
TypeOK ==
  /\ db \in Table
  /\ call \in [Session -> Call]
  /\ \A s \in Session : DOMAIN mine[s] \subseteq JobId /\ View(s) \in Table

(* No run is handed out more often than MaxAttempts, and only one that was *)
(* is abandoned, whichever transactions take it back and hand it out at    *)
(* the same time: each acts on the attempts it finds when it has the row.  *)
AttemptsBounded == AttemptsBoundedIn(db)

(* The insert lock makes the per-job count and the insert that acts on it  *)
(* one step for every other insert; nothing else makes a run active.       *)
JobCap == JobCapIn(db)

(* Claims and inserts never count while another claim or insert, of their  *)
(* own kind, is open, so the queue and what is held stay within both caps. *)
BacklogBound == BacklogBoundIn(db)

(* The running cap: no more than MaxRunningPerChannel runs of a channel    *)
(* execute.  base.py:143 and README.md say every cap is enforced in the    *)
(* store's own transactions.                                               *)
RunningCap == RunningCapIn(db)

(* What the two locks do give: a claim and a dispatch may act on the same  *)
(* count, but no two claims and no two dispatches, so the cap is exceeded  *)
(* by one run at the most.                                                 *)
RunningCapWithinOne ==
  MaxRunningPerChannel > 0 =>
    \A c \in Channel : Cardinality(BusyIn(db, c)) <= MaxRunningPerChannel + 1

(* No transaction takes back a run whose lease was renewed while it was    *)
(* open: the reaper's UPDATE waits for the row and asks again.             *)
LiveLeaseIsSafe ==
  [][\A j \in JobId :
       Held(db, j) /\ db[j].lease # 0 => db'[j].runner = db[j].runner]_vars

Lifecycle == INSTANCE JobLifecycle WITH
  phase <- PhaseIn(db), holder <- HolderIn(db), tries <- TriesIn(db)

(* The committed table keeps the lifecycle of a run too: a claim commits   *)
(* what it reaped and the run it picked as one step, and no step of an     *)
(* open transaction shows.                                                 *)
KeepsLifecycle == Lifecycle!Spec
=============================================================================
