------------------------ MODULE PostgresStore_proofs ------------------------
(***************************************************************************)
(* The invariants of PostgresStore hold for every number of sessions, runs *)
(* and test servers and every value of the caps.  What a transaction has   *)
(* written is tied to the rows it wrote over, which stay as they were      *)
(* because it holds their locks (Written, Rows); what it has counted stays *)
(* true because it holds an advisory lock (Serialised, and the Room of     *)
(* each cap).                                                              *)
(***************************************************************************)
EXTENDS PostgresStore, JobTable_proofs

USE DEF ABSENT, QUEUED, CLAIMED, RUNNING, DONE, FAILED, ABANDONED, NOT_DISPATCHED,
        JobState, Mode, ACTIVE_STATES, BUSY_STATES, TERMINAL_STATES
-----------------------------------------------------------------------------
(* SKIP LOCKED and the row locks leave each row to one open transaction.   *)
OneWriterPerRow ==
  \A s, o \in Session : s # o => DOMAIN mine[s] \cap DOMAIN mine[o] = {}

(* The row an insert has written, over an id that has none.                *)
InsertedBy(s, j) ==
  /\ DOMAIN mine[s] = {j}
  /\ db[j].state = ABSENT
  /\ mine[s][j].state = call[s].state
  /\ mine[s][j].mode = IF call[s].state = QUEUED THEN "test-server" ELSE "dispatch"
  /\ mine[s][j].attempts = 0

(* The rows a claim has written: those it reaped, and the one it picked.   *)
ReapedBy(s, j) == j \in Expired(db) /\ mine[s][j] = Reaped(db)[j]

ClaimedBy(s, j) ==
  /\ Reaped(db)[j].state = QUEUED
  /\ mine[s][j] = Claimed(Reaped(db), j, call[s].runner)[j]

Written(s) ==
  /\ DOMAIN mine[s] \subseteq JobId
  /\ \A j \in DOMAIN mine[s] : mine[s][j] \in GoodRow
  /\ call[s].pc \notin {"insert commit", "abandon", "pick", "claim commit",
                        "abandon only", "reap commit"} =>
       DOMAIN mine[s] = {}
  /\ call[s].pc = "insert commit" => InsertedBy(s, call[s].job)
  /\ call[s].pc \in {"abandon", "pick", "abandon only", "reap commit"} =>
       \A j \in DOMAIN mine[s] : ReapedBy(s, j)
  /\ call[s].pc = "claim commit" =>
       \A j \in DOMAIN mine[s] : ReapedBy(s, j) \/ ClaimedBy(s, j)
  /\ \A j, k \in DOMAIN mine[s] :
       mine[s][j].state = CLAIMED /\ mine[s][k].state = CLAIMED => j = k

Rows ==
  /\ SoundRows(db)
  /\ call \in [Session -> Call]
  /\ DOMAIN mine = Session
  /\ \A s \in Session : Written(s)
  /\ OneWriterPerRow
-----------------------------------------------------------------------------
(* What a transaction has written stands while its rows are left alone.    *)
LEMMA WrittenKept ==
  ASSUME NEW s \in Session, Written(s), call[s] \in Call, call'[s] = call[s],
         mine'[s] = mine[s], \A j \in DOMAIN mine[s] : db'[j] = db[j]
  PROVE  Written(s)'
<1>1. \A j \in DOMAIN mine[s] : j \in JobId
  BY DEF Written
<1>2. call[s].pc = "insert commit" => InsertedBy(s, call[s].job)'
  <2>. SUFFICES ASSUME call[s].pc = "insert commit"
                PROVE  InsertedBy(s, call[s].job)'
    OBVIOUS
  <2>1. InsertedBy(s, call[s].job)
    BY DEF Written
  <2>2. db'[call[s].job] = db[call[s].job]
    BY <2>1 DEF InsertedBy
  <2>. QED
    BY <2>1, <2>2 DEF InsertedBy
<1>3. ASSUME NEW j \in DOMAIN mine[s]
      PROVE  ReapedBy(s, j) => ReapedBy(s, j)'
  BY <1>1, ReapedSameRow DEF ReapedBy
<1>4. ASSUME NEW j \in DOMAIN mine[s], call[s].pc = "claim commit"
      PROVE  ClaimedBy(s, j) => ClaimedBy(s, j)'
  <2>1. call[s].runner \in Runner
    BY <1>4 DEF Call, InsertSteps, ClaimSteps, ReapSteps
  <2>. QED
    BY <1>1, <2>1, ReapedSameRow DEF ClaimedBy
<1>. QED
  BY <1>2, <1>3, <1>4 DEF Written

(* A step of s, which takes no row another transaction has locked.         *)
LEMMA RowsStep ==
  ASSUME Rows, NEW s \in Session, NEW c \in Call, NEW m,
         call' = [call EXCEPT ![s] = c],
         DOMAIN mine' = Session, mine'[s] = m, \A o \in Session \ {s} : mine'[o] = mine[o],
         SoundRows(db'), Written(s)',
         \A j \in JobId : j \in LockedByOthers(s) => j \notin DOMAIN m /\ db'[j] = db[j]
  PROVE  Rows'
<1>1. call' \in [Session -> Call] /\ DOMAIN mine' = Session /\ mine'[s] = m
  BY DEF Rows
<1>2. ASSUME NEW o \in Session, o # s
      PROVE  /\ Written(o)'
             /\ mine'[o] = mine[o]
             /\ DOMAIN mine[o] \cap DOMAIN m = {}
  <2>1. call'[o] = call[o] /\ mine'[o] = mine[o] /\ call[o] \in Call
    BY <1>2 DEF Rows
  <2>2. \A j \in DOMAIN mine[o] : j \in JobId /\ j \in LockedByOthers(s)
    BY <1>2 DEF Rows, Written, LockedByOthers
  <2>. QED
    BY <1>2, <2>1, <2>2, WrittenKept DEF Rows
<1>3. OneWriterPerRow'
  BY <1>1, <1>2 DEF OneWriterPerRow, Rows
<1>. QED
  BY <1>1, <1>2, <1>3 DEF Rows

(* What s sees is a table of good rows.                                    *)
LEMMA ViewRows ==
  ASSUME Rows, NEW s \in Session
  PROVE  SoundRows(View(s))
BY DEF Rows, SoundRows, Written, View

LEMMA EmptyView ==
  ASSUME Rows, NEW s \in Session, DOMAIN mine[s] = {}
  PROVE  View(s) = db
BY DEF Rows, SoundRows, View

LEMMA IdleCall == Idle \in Call
BY DEF Idle, Call

LEMMA EndRows ==
  ASSUME Rows, NEW s \in Session, End(s), SoundRows(db'),
         \A j \in JobId : j \in LockedByOthers(s) => db'[j] = db[j]
  PROVE  Rows'
<1>1. DOMAIN NoRows = {}
  BY DEF NoRows
<1>2. call'[s] = Idle /\ mine'[s] = NoRows
  BY DEF End, Rows
<1>3. Written(s)'
  BY <1>1, <1>2 DEF Written, Idle
<1>4. DOMAIN mine' = Session /\ \A o \in Session \ {s} : mine'[o] = mine[o]
  BY DEF End, Rows
<1>. QED
  BY <1>1, <1>2, <1>3, <1>4, IdleCall, RowsStep DEF End

(* A step that writes nothing, in a transaction that has written nothing.  *)
LEMMA QuietRows ==
  ASSUME Rows, NEW s \in Session, NEW c \in Call, call' = [call EXCEPT ![s] = c],
         UNCHANGED <<db, mine>>, DOMAIN mine[s] = {},
         c.pc \notin {"insert commit", "claim commit"},
         SoundRows(db)
  PROVE  Rows'
<1>1. call'[s] = c /\ mine'[s] = mine[s]
  BY DEF Rows
<1>2. Written(s)'
  BY <1>1 DEF Written
<1>. QED
  BY <1>1, <1>2, RowsStep DEF Rows

(* A statement keeps the transaction's arguments.                          *)
LEMMA GoToCall ==
  ASSUME NEW c \in Call, NEW pc
  PROVE  /\ c.pc \in InsertSteps =>
              /\ pc \in InsertSteps => [c EXCEPT !.pc = pc] \in Call
              /\ c.job \in JobId /\ c.state \in {QUEUED, RUNNING}
              /\ [c EXCEPT !.pc = pc].pc = pc
              /\ [c EXCEPT !.pc = pc].job = c.job
              /\ [c EXCEPT !.pc = pc].state = c.state
         /\ c.pc \in ClaimSteps =>
              /\ pc \in ClaimSteps => [c EXCEPT !.pc = pc] \in Call
              /\ c.runner \in Runner /\ c.labels \in SUBSET Server
              /\ [c EXCEPT !.pc = pc].pc = pc
              /\ [c EXCEPT !.pc = pc].runner = c.runner
         /\ c.pc \in ReapSteps /\ pc \in ReapSteps => [c EXCEPT !.pc = pc] \in Call
<1>1. CASE c.pc \in InsertSteps
  <2>1. c \in [pc : InsertSteps, job : JobId, state : {QUEUED, RUNNING}]
    BY <1>1 DEF Call, InsertSteps, ClaimSteps, ReapSteps
  <2>2. c.pc \notin ClaimSteps /\ c.pc \notin ReapSteps
    BY <1>1 DEF InsertSteps, ClaimSteps, ReapSteps
  <2>. QED
    BY <2>1, <2>2 DEF Call
<1>2. CASE c.pc \in ClaimSteps
  <2>1. c \in [pc : ClaimSteps, runner : Runner, labels : SUBSET Server]
    BY <1>2 DEF Call, InsertSteps, ClaimSteps, ReapSteps
  <2>2. c.pc \notin InsertSteps /\ c.pc \notin ReapSteps
    BY <1>2 DEF InsertSteps, ClaimSteps, ReapSteps
  <2>. QED
    BY <2>1, <2>2 DEF Call
<1>3. CASE c.pc \in ReapSteps
  <2>1. c \in [pc : ReapSteps]
    BY <1>3 DEF Call, InsertSteps, ClaimSteps, ReapSteps
  <2>2. c.pc \notin InsertSteps /\ c.pc \notin ClaimSteps
    BY <1>3 DEF InsertSteps, ClaimSteps, ReapSteps
  <2>. QED
    BY <2>1, <2>2 DEF Call
<1>. QED
  BY <1>1, <1>2, <1>3

LEMMA GoesTo ==
  ASSUME call \in [Session -> Call], NEW s \in Session, NEW pc, GoTo(s, pc)
  PROVE  /\ call'[s].pc = pc
         /\ call[s].pc \in InsertSteps /\ pc \in InsertSteps =>
              /\ [call[s] EXCEPT !.pc = pc] \in Call
              /\ call[s].job \in JobId /\ call[s].state \in {QUEUED, RUNNING}
              /\ call'[s].job = call[s].job /\ call'[s].state = call[s].state
         /\ call[s].pc \in ClaimSteps /\ pc \in ClaimSteps =>
              /\ [call[s] EXCEPT !.pc = pc] \in Call
              /\ call[s].runner \in Runner /\ call'[s].runner = call[s].runner
         /\ call[s].pc \in ReapSteps /\ pc \in ReapSteps => [call[s] EXCEPT !.pc = pc] \in Call
         /\ \A o \in Session \ {s} : call'[o] = call[o]
<1>1. call'[s] = [call[s] EXCEPT !.pc = pc] /\ call[s] \in Call
  BY DEF GoTo
<1>2. call'[s].pc = pc
  BY <1>1 DEF Call
<1>3. ASSUME call[s].pc \in InsertSteps, pc \in InsertSteps
      PROVE  /\ [call[s] EXCEPT !.pc = pc] \in Call
             /\ call[s].job \in JobId /\ call[s].state \in {QUEUED, RUNNING}
             /\ [call[s] EXCEPT !.pc = pc].job = call[s].job
             /\ [call[s] EXCEPT !.pc = pc].state = call[s].state
  BY <1>1, <1>3, GoToCall
<1>4. ASSUME call[s].pc \in ClaimSteps, pc \in ClaimSteps
      PROVE  /\ [call[s] EXCEPT !.pc = pc] \in Call
             /\ call[s].runner \in Runner
             /\ [call[s] EXCEPT !.pc = pc].runner = call[s].runner
  BY <1>1, <1>4, GoToCall
<1>5. \A o \in Session \ {s} : call'[o] = call[o]
  BY DEF GoTo
<1>6. call[s].pc \in ReapSteps /\ pc \in ReapSteps => [call[s] EXCEPT !.pc = pc] \in Call
  BY <1>1, GoToCall
<1>. QED
  BY <1>1, <1>2, <1>3, <1>4, <1>5, <1>6

LEMMA BeginInsertRows ==
  ASSUME Rows, NEW s \in Session, NEW j \in JobId, NEW state \in {QUEUED, RUNNING},
         BeginInsert(s, j, state)
  PROVE  Rows'
<1>. DEFINE c == [pc |-> "duplicate?", job |-> j, state |-> state]
<1>1. c \in Call /\ c.pc = "duplicate?"
  BY DEF Call, InsertSteps
<1>2. DOMAIN mine[s] = {}
  BY DEF Rows, Written, BeginInsert, Open
<1>. QED
  BY <1>1, <1>2, QuietRows DEF BeginInsert, Rows

LEMMA CheckRows ==
  ASSUME Rows, NEW s \in Session, CheckDuplicate(s) \/ CheckJobCap(s) \/ CheckChannelCap(s)
  PROVE  Rows'
<1>1. /\ call[s] \in Call /\ call[s].pc \in {"duplicate?", "job cap?", "channel cap?"}
      /\ UNCHANGED db
      /\ \/ End(s)
         \/ /\ \E pc \in {"job cap?", "channel cap?", "insert"} : GoTo(s, pc)
            /\ UNCHANGED mine
  BY DEF Rows, CheckDuplicate, CheckJobCap, CheckChannelCap
<1>2. CASE End(s)
  BY <1>1, <1>2, EndRows DEF Rows
<1>3. ASSUME NEW pc \in {"job cap?", "channel cap?", "insert"}, GoTo(s, pc), UNCHANGED mine
      PROVE  Rows'
  <2>. DEFINE c == [call[s] EXCEPT !.pc = pc]
  <2>1. c \in Call /\ c.pc = pc
    BY <1>1, GoToCall DEF InsertSteps
  <2>2. call' = [call EXCEPT ![s] = c]
    BY <1>3 DEF GoTo
  <2>3. DOMAIN mine[s] = {}
    BY <1>1 DEF Rows, Written
  <2>. QED
    BY <1>1, <1>3, <2>1, <2>2, <2>3, QuietRows DEF Rows
<1>. QED
  BY <1>1, <1>2, <1>3

(* A step that writes the rows S, none of them locked, as in T.            *)
LEMMA WriteRows ==
  ASSUME Rows, NEW s \in Session, NEW pc, [call[s] EXCEPT !.pc = pc] \in Call,
         NEW S \in SUBSET JobId, NEW T, GoTo(s, pc), Write(s, S, T), UNCHANGED db,
         S \cap LockedByOthers(s) = {}, Written(s)'
  PROVE  Rows'
<1>. DEFINE c == [call[s] EXCEPT !.pc = pc]
            m == [j \in DOMAIN mine[s] \cup S |-> T[j]]
<1>1. call' = [call EXCEPT ![s] = c]
  BY DEF GoTo, Rows
<1>2. DOMAIN mine' = Session /\ mine'[s] = m /\ \A o \in Session \ {s} : mine'[o] = mine[o]
  BY DEF Write, Rows
<1>3. DOMAIN mine[s] \cap LockedByOthers(s) = {}
  BY DEF Rows, OneWriterPerRow, LockedByOthers
<1>. QED
  BY <1>1, <1>2, <1>3, RowsStep DEF Rows

LEMMA InsertRows ==
  ASSUME Rows, NEW s \in Session, Insert(s)
  PROVE  Rows'
<1>. DEFINE j == call[s].job
<1>1. /\ call[s] \in Call /\ call[s].pc = "insert" /\ DOMAIN mine[s] = {}
      /\ j \in JobId /\ call[s].state \in {QUEUED, RUNNING}
  BY GoToCall DEF Rows, Written, Insert, InsertSteps
<1>2. View(s) = db
  BY <1>1, EmptyView
<1>3. CASE End(s)
  BY <1>3, EndRows DEF Insert, Rows
<1>4. ASSUME NEW at \in Stamp, NEW T, db[j].state = ABSENT, GoTo(s, "insert commit"),
             T = IF call[s].state = QUEUED THEN Enqueued(db, j, at) ELSE Dispatched(db, j, at),
             Write(s, {j}, T)
      PROVE  Rows'
  <2>1. at \in Nat /\ SoundRows(db)
    BY StampAssumption DEF Rows
  <2>2. T[j] \in GoodRow
    <3>1. SoundRows(Enqueued(db, j, at)) /\ SoundRows(Dispatched(db, j, at))
      BY <1>1, <2>1, InsertedRows
    <3>. QED
      BY <1>1, <1>4, <3>1 DEF SoundRows
  <2>3. /\ T[j].state = call[s].state /\ T[j].attempts = 0
        /\ T[j].mode = IF call[s].state = QUEUED THEN "test-server" ELSE "dispatch"
    BY <1>1, <1>4, <2>1 DEF Enqueued, Dispatched, Inserted, SoundRows
  <2>4. /\ call'[s].pc = "insert commit" /\ call'[s].job = j /\ call'[s].state = call[s].state
        /\ [call[s] EXCEPT !.pc = "insert commit"] \in Call
    <3>1. GoTo(s, "insert commit") /\ call \in [Session -> Call]
      BY <1>4 DEF Rows
    <3>2. call[s].pc \in InsertSteps /\ "insert commit" \in InsertSteps
      BY <1>1 DEF InsertSteps
    <3>. QED
      BY <3>1, <3>2, GoesTo
  <2>5. DOMAIN mine'[s] = {j} /\ mine'[s][j] = T[j]
    BY <1>1, <1>4 DEF Write, Rows
  <2>6. Written(s)'
    BY <1>1, <1>4, <2>2, <2>3, <2>4, <2>5 DEF Insert, Written, InsertedBy
  <2>. QED
    <3>1. UNCHANGED db /\ {j} \cap LockedByOthers(s) = {}
      BY DEF Insert
    <3>. QED
      BY <1>1, <1>4, <2>4, <2>6, <3>1, WriteRows
<1>. QED
  BY <1>1, <1>2, <1>3, <1>4 DEF Insert, Duplicate

LEMMA BeginClaimRows ==
  ASSUME Rows, NEW s \in Session, NEW r \in Runner, NEW labels \in SUBSET Server,
         BeginClaim(s, r, labels)
  PROVE  Rows'
<1>. DEFINE c == [pc |-> "requeue", runner |-> r, labels |-> labels]
<1>1. c \in Call /\ c.pc = "requeue"
  BY DEF Call, ClaimSteps
<1>2. DOMAIN mine[s] = {}
  BY DEF Rows, Written, BeginClaim, Open
<1>. QED
  BY <1>1, <1>2, QuietRows DEF BeginClaim, Rows

LEMMA BeginReapRows ==
  ASSUME Rows, NEW s \in Session, BeginReap(s)
  PROVE  Rows'
<1>. DEFINE c == [pc |-> "requeue only"]
<1>1. c \in Call /\ c.pc = "requeue only"
  BY DEF Call, ReapSteps
<1>2. DOMAIN mine[s] = {}
  BY DEF Rows, Written, BeginReap, Open
<1>. QED
  BY <1>1, <1>2, QuietRows DEF BeginReap, Rows

(* What the two statements of _reap hit, and where the reaper leaves it.   *)
LEMMA ReapHits ==
  ASSUME NEW T, SoundRows(T), NEW k \in JobId
  PROVE  /\ Requeued(T)[k] # T[k] =>
              k \in Expired(T) /\ Requeued(T)[k] = Reaped(T)[k] /\ Requeued(T)[k].state = QUEUED
         /\ Abandoned(T)[k] # T[k] => k \in Expired(T) /\ Abandoned(T)[k] = Reaped(T)[k]
         /\ k \in Expired(T) =>
              /\ T[k].state \in BUSY_STATES
              /\ Reaped(T)[k].state \in {QUEUED, ABANDONED}
              /\ Reaped(T)[k].mode = T[k].mode
         /\ k \notin Expired(Reaped(T)) /\ (k \notin Expired(T) => Abandoned(T)[k] = T[k])
<1>1. CASE k \notin Expired(T)
  BY <1>1, ReapedRow
<1>2. CASE k \in Expired(T) /\ T[k].attempts < MaxAttempts
  <2>1. /\ Reaped(T)[k] = Requeued(T)[k] /\ Abandoned(T)[k] = T[k]
        /\ Reaped(T)[k].state = QUEUED /\ Reaped(T)[k].mode = T[k].mode
        /\ k \notin Expired(Reaped(T))
    BY <1>2, ReapedRow
  <2>2. T[k].state \in BUSY_STATES
    BY <1>2 DEF Expired, InState
  <2>. QED
    BY <1>2, <2>1, <2>2
<1>3. CASE k \in Expired(T) /\ ~(T[k].attempts < MaxAttempts)
  <2>1. /\ Reaped(T)[k] = Abandoned(T)[k] /\ Requeued(T)[k] = T[k]
        /\ Reaped(T)[k].state = ABANDONED /\ Reaped(T)[k].mode = T[k].mode
        /\ k \notin Expired(Reaped(T))
    BY <1>3, ReapedRow
  <2>2. T[k].state \in BUSY_STATES
    BY <1>3 DEF Expired, InState
  <2>. QED
    BY <1>3, <2>1, <2>2
<1>. QED
  BY <1>1, <1>2, <1>3

(* The statements of _reap, in a claim or on their own.                    *)
LEMMA RequeueStatementRows ==
  ASSUME Rows, NEW s \in Session, NEW from, NEW to,
         ReapStatement(s, from, to, Requeued(View(s))),
         \/ from = "requeue" /\ to = "abandon"
         \/ from = "requeue only" /\ to = "abandon only"
  PROVE  Rows'
<1>. DEFINE T == Requeued(View(s))
            hit == {j \in JobId : T[j] # View(s)[j]}
<1>1. /\ call[s].pc = from /\ hit \cap LockedByOthers(s) = {}
      /\ Write(s, hit, T) /\ GoTo(s, to) /\ UNCHANGED db
  BY DEF ReapStatement
<1>2. DOMAIN mine[s] = {} /\ View(s) = db /\ SoundRows(db)
  BY <1>1, EmptyView DEF Rows, Written
<1>3. /\ call'[s].pc = to
      /\ [call[s] EXCEPT !.pc = to] \in Call
  BY <1>1, GoesTo DEF Rows, ClaimSteps, ReapSteps
<1>4. DOMAIN mine'[s] = hit /\ \A j \in hit : mine'[s][j] = T[j]
  BY <1>1, <1>2 DEF Write, Rows
<1>5. ASSUME NEW j \in hit
      PROVE  j \in Expired(db) /\ T[j] = Reaped(db)[j] /\ T[j].state = QUEUED
  BY <1>2, ReapHits
<1>6. \A j \in hit : T[j] \in GoodRow
  BY <1>2, ReapedRows DEF SoundRows
<1>7. Written(s)'
  BY <1>1, <1>3, <1>4, <1>5, <1>6 DEF Written, ReapedBy
<1>. QED
  BY <1>1, <1>3, <1>7, WriteRows

LEMMA RequeueRows ==
  ASSUME Rows, NEW s \in Session, RequeueExpired(s)
  PROVE  Rows'
BY RequeueStatementRows DEF RequeueExpired

LEMMA AbandonStatementRows ==
  ASSUME Rows, NEW s \in Session, NEW from, NEW to,
         ReapStatement(s, from, to, Abandoned(View(s))),
         \/ from = "abandon" /\ to = "pick"
         \/ from = "abandon only" /\ to = "reap commit"
  PROVE  Rows'
<1>. DEFINE T == Abandoned(View(s))
            hit == {j \in JobId : T[j] # View(s)[j]}
<1>1. /\ call[s].pc = from /\ hit \cap LockedByOthers(s) = {}
      /\ Write(s, hit, T) /\ GoTo(s, to) /\ UNCHANGED db
  BY DEF ReapStatement
<1>2. SoundRows(db) /\ SoundRows(View(s))
  BY ViewRows DEF Rows
<1>3. /\ call'[s].pc = to
      /\ [call[s] EXCEPT !.pc = to] \in Call
  BY <1>1, GoesTo DEF Rows, ClaimSteps, ReapSteps
<1>4. /\ DOMAIN mine'[s] = DOMAIN mine[s] \cup hit
      /\ \A j \in DOMAIN mine[s] \cup hit : mine'[s][j] = T[j]
  BY <1>1 DEF Write, Rows
<1>5. ASSUME NEW j \in DOMAIN mine[s]
      PROVE  j \in JobId /\ T[j] = mine[s][j] /\ ReapedBy(s, j)
  <2>1. j \in JobId /\ ReapedBy(s, j) /\ View(s)[j] = mine[s][j]
    BY <1>1 DEF Rows, Written, View
  <2>2. mine[s][j] = Reaped(db)[j] /\ j \notin Expired(Reaped(db))
    BY <1>2, <2>1, ReapHits DEF ReapedBy
  <2>3. j \notin Expired(View(s))
    BY <2>1, <2>2 DEF Expired, InState
  <2>. QED
    BY <1>2, <2>1, <2>3, ReapHits
<1>6. ASSUME NEW j \in hit
      PROVE  j \in Expired(db) /\ T[j] = Reaped(db)[j]
  <2>1. j \notin DOMAIN mine[s]
    BY <1>5 DEF View
  <2>2. View(s)[j] = db[j]
    BY <2>1 DEF View
  <2>3. j \in Expired(View(s)) /\ Reaped(View(s))[j] = T[j]
    BY <1>2, ReapHits
  <2>. QED
    BY <2>2, <2>3, ReapedSameRow
<1>7. \A j \in DOMAIN mine'[s] : ReapedBy(s, j)'
  BY <1>1, <1>4, <1>5, <1>6 DEF ReapedBy
<1>8. \A j \in DOMAIN mine'[s] : j \in JobId /\ mine'[s][j] \in GoodRow
  BY <1>2, <1>4, <1>5, ReapedRows DEF SoundRows
<1>9. \A j \in DOMAIN mine'[s] : mine'[s][j].state # CLAIMED
  <2>. SUFFICES ASSUME NEW j \in DOMAIN mine'[s]
                PROVE  mine'[s][j].state # CLAIMED
    OBVIOUS
  <2>1. j \in Expired(db) /\ mine'[s][j] = Reaped(db)[j] /\ j \in JobId
    BY <1>1, <1>7, <1>8 DEF ReapedBy
  <2>. QED
    BY <1>2, <2>1, ReapedRow
<1>10. Written(s)'
  BY <1>3, <1>7, <1>8, <1>9 DEF Written
<1>. QED
  BY <1>1, <1>3, <1>10, WriteRows

LEMMA AbandonRows ==
  ASSUME Rows, NEW s \in Session, AbandonExpired(s)
  PROVE  Rows'
BY AbandonStatementRows DEF AbandonExpired

LEMMA PickRows ==
  ASSUME Rows, NEW s \in Session, Pick(s)
  PROVE  Rows'
<1>1. /\ call[s].pc = "pick" /\ GoTo(s, "claim commit") /\ UNCHANGED db
      /\ SoundRows(db) /\ SoundRows(View(s))
  BY ViewRows DEF Pick, Rows
<1>2. /\ call'[s].pc = "claim commit" /\ call[s].runner \in Runner
      /\ call'[s].runner = call[s].runner
      /\ [call[s] EXCEPT !.pc = "claim commit"] \in Call
  BY <1>1, GoesTo DEF Rows, ClaimSteps
<1>3. ASSUME NEW k \in DOMAIN mine[s]
      PROVE  /\ k \in JobId /\ ReapedBy(s, k) /\ View(s)[k] = mine[s][k]
             /\ mine[s][k] \in GoodRow /\ mine[s][k].state # CLAIMED
  <2>1. k \in JobId /\ ReapedBy(s, k) /\ mine[s][k] \in GoodRow
    BY <1>1 DEF Rows, Written
  <2>2. mine[s][k].state # CLAIMED
    BY <1>1, <2>1, ReapedRow DEF ReapedBy
  <2>. QED
    BY <2>1, <2>2 DEF View
<1>4. CASE UNCHANGED mine
  <2>1. \A k \in DOMAIN mine[s] : ReapedBy(s, k)'
    BY <1>1, <1>3, <1>4 DEF ReapedBy
  <2>2. Written(s)'
    BY <1>2, <1>3, <1>4, <2>1 DEF Written
  <2>3. /\ DOMAIN mine' = Session /\ mine'[s] = mine[s]
        /\ \A o \in Session \ {s} : mine'[o] = mine[o]
    BY <1>4 DEF Rows
  <2>4. call' = [call EXCEPT ![s] = [call[s] EXCEPT !.pc = "claim commit"]]
    BY <1>1 DEF Rows, GoTo
  <2>5. DOMAIN mine[s] \cap LockedByOthers(s) = {}
    BY DEF Rows, OneWriterPerRow, LockedByOthers
  <2>. QED
    BY <1>1, <1>2, <2>2, <2>3, <2>4, <2>5, RowsStep
<1>5. ASSUME NEW j \in Oldest(View(s), Claimable(View(s), call[s].labels) \ LockedByOthers(s)),
             Write(s, {j}, Claimed(View(s), j, call[s].runner))
      PROVE  Rows'
  <2>. DEFINE T == Claimed(View(s), j, call[s].runner)
  <2>1. j \in JobId /\ View(s)[j].state = QUEUED /\ {j} \cap LockedByOthers(s) = {}
    BY DEF Oldest, Claimable, InState
  <2>2. SoundRows(T)
    BY <1>1, <1>2, <2>1, ClaimedRows
  <2>3. /\ T[j].state = CLAIMED /\ \A k \in JobId \ {j} : T[k] = View(s)[k]
        /\ T[j] = [View(s)[j] EXCEPT !.state = CLAIMED, !.runner = call[s].runner,
                                     !.lease = LeaseTicks,
                                     !.attempts = View(s)[j].attempts + 1]
    BY <1>1, <2>1 DEF Claimed, SoundRows, GoodRow, Row
  <2>4. View(s)[j] = Reaped(db)[j]
    <3>1. CASE j \in DOMAIN mine[s]
      BY <1>3, <3>1 DEF ReapedBy
    <3>2. CASE j \notin DOMAIN mine[s]
      <4>1. View(s)[j] = db[j] /\ j \notin Expired(db)
        BY <2>1, <3>2 DEF View, Expired, InState
      <4>. QED
        BY <1>1, <2>1, <4>1, ReapedRow
    <3>. QED
      BY <3>1, <3>2
  <2>5. Claimed(Reaped(db), j, call[s].runner)[j] = T[j]
    BY <2>1, <2>3, <2>4 DEF Claimed, Reaped, Abandoned
  <2>6. /\ DOMAIN mine'[s] = DOMAIN mine[s] \cup {j}
        /\ mine'[s][j] = T[j]
        /\ \A k \in DOMAIN mine[s] \ {j} : mine'[s][k] = mine[s][k]
    BY <1>3, <1>5, <2>3 DEF Write, Rows
  <2>7. ClaimedBy(s, j)'
    BY <1>1, <1>2, <2>1, <2>4, <2>5, <2>6 DEF ClaimedBy
  <2>8. \A k \in DOMAIN mine[s] \ {j} : ReapedBy(s, k)'
    BY <1>1, <1>3, <2>6 DEF ReapedBy
  <2>9. Written(s)'
    BY <1>2, <1>3, <2>1, <2>2, <2>6, <2>7, <2>8 DEF Written, SoundRows
  <2>. QED
    BY <1>1, <1>2, <1>5, <2>1, <2>9, WriteRows
<1>. QED
  BY <1>4, <1>5 DEF Pick

LEMMA CommitRows ==
  ASSUME Rows, NEW s \in Session, Commit(s)
  PROVE  Rows'
<1>1. \A j \in JobId : j \in LockedByOthers(s) => j \notin DOMAIN mine[s]
  BY DEF Rows, OneWriterPerRow, LockedByOthers
<1>2. \A j \in JobId : j \notin DOMAIN mine[s] => View(s)[j] = db[j]
  BY DEF View
<1>. QED
  BY <1>1, <1>2, ViewRows, EndRows DEF Commit

LEMMA RollbackRows ==
  ASSUME Rows, NEW s \in Session, Rollback(s)
  PROVE  Rows'
BY EndRows DEF Rollback, Rows

(* An UPDATE that is its own transaction waits for the rows it writes.     *)
LEMMA AutoCommitRows ==
  ASSUME Rows, NEW S \in SUBSET JobId, NEW T, SoundRows(T), AutoCommit(S, T),
         \A j \in JobId \ S : T[j] = db[j]
  PROVE  Rows'
<1>1. UNCHANGED <<call, mine>> /\ db' = T
  BY DEF AutoCommit
<1>2. ASSUME NEW s \in Session
      PROVE  Written(s)'
  <2>1. \A j \in DOMAIN mine[s] : j \in JobId \ S
    BY DEF Rows, Written, AutoCommit, Unlocked
  <2>. QED
    BY <1>1, <2>1, WrittenKept DEF Rows
<1>. QED
  BY <1>1, <1>2 DEF Rows, OneWriterPerRow

LEMMA TickRows == Rows /\ Tick => Rows'
<1>. SUFFICES ASSUME Rows, Tick
              PROVE  Rows'
  OBVIOUS
<1>1. \A s \in Session : DOMAIN mine[s] = {}
  BY DEF Tick, Open, Rows, Written
<1>2. \A s \in Session : Written(s)'
  BY <1>1, WrittenKept DEF Rows, Tick
<1>3. SoundRows(db')
  BY AgedRows DEF Rows, Tick
<1>. QED
  BY <1>2, <1>3 DEF Rows, Tick, OneWriterPerRow
-----------------------------------------------------------------------------
(* In U no run is active or busy that was not in T.                        *)
Quieter(T, U) ==
  \A j \in JobId : /\ U[j].state \in ACTIVE_STATES => T[j].state \in ACTIVE_STATES
                   /\ U[j].state \in BUSY_STATES => T[j].state \in BUSY_STATES
                   /\ U[j].mode = T[j].mode

(* A step of no transaction: an UPDATE of rows nobody has locked, or time. *)
Update ==
  /\ UNCHANGED <<call, mine>>
  /\ Quieter(db, db')
  /\ \A j \in JobId : db'[j].runner = db[j].runner
  /\ \A s \in Session : \A j \in DOMAIN mine[s] : db'[j] = db[j]

LEMMA UpdateSteps ==
  ASSUME Rows,
         \/ \E j \in JobId, r \in Runner :
              MarkRunning(j, r) \/ \E passed \in BOOLEAN : Finish(j, r, passed)
         \/ \E j \in JobId : MarkNotDispatched(j)
         \/ \E r \in Runner : Renew(r)
         \/ Tick
  PROVE  Rows' /\ Update
<1>0. SoundRows(db) /\ db \in [JobId -> Row]
  BY DEF Rows, SoundRows, GoodRow
<1>1. ASSUME NEW S \in SUBSET JobId, NEW T, SoundRows(T), AutoCommit(S, T), Quieter(db, T),
             \A j \in JobId \ S : T[j] = db[j], \A j \in JobId : T[j].runner = db[j].runner
      PROVE  Rows' /\ Update
  <2>1. Rows'
    BY <1>1, AutoCommitRows
  <2>. QED
    BY <1>1, <2>1 DEF Update, AutoCommit, Unlocked, Rows, Written
<1>2. ASSUME NEW j \in JobId, NEW r \in Runner, MarkRunning(j, r)
      PROVE  Rows' /\ Update
  <2>1. SoundRows(MarkedRunning(db, j))
    BY <1>0, <1>2, MarkedRunningRows DEF MarkRunning
  <2>2. /\ Quieter(db, MarkedRunning(db, j))
        /\ \A k \in JobId \ {j} : MarkedRunning(db, j)[k] = db[k]
        /\ \A k \in JobId : MarkedRunning(db, j)[k].runner = db[k].runner
    BY <1>0, <1>2 DEF MarkRunning, CanMarkRunning, MarkedRunning, Quieter, Row
  <2>. QED
    BY <1>1, <1>2, <2>1, <2>2 DEF MarkRunning
<1>3. ASSUME NEW j \in JobId, NEW r \in Runner, NEW passed \in BOOLEAN, Finish(j, r, passed)
      PROVE  Rows' /\ Update
  <2>1. SoundRows(Finished(db, j, passed))
    BY <1>0, <1>3, FinishedRows DEF Finish
  <2>2. /\ Quieter(db, Finished(db, j, passed))
        /\ \A k \in JobId \ {j} : Finished(db, j, passed)[k] = db[k]
        /\ \A k \in JobId : Finished(db, j, passed)[k].runner = db[k].runner
    BY <1>0 DEF Finished, Quieter, Row
  <2>. QED
    BY <1>1, <1>3, <2>1, <2>2 DEF Finish
<1>4. ASSUME NEW j \in JobId, MarkNotDispatched(j)
      PROVE  Rows' /\ Update
  <2>1. SoundRows(MarkedNotDispatched(db, j))
    BY <1>0, <1>4, MarkedNotDispatchedRows DEF MarkNotDispatched
  <2>2. /\ Quieter(db, MarkedNotDispatched(db, j))
        /\ \A k \in JobId \ {j} : MarkedNotDispatched(db, j)[k] = db[k]
        /\ \A k \in JobId : MarkedNotDispatched(db, j)[k].runner = db[k].runner
    BY <1>0 DEF MarkedNotDispatched, Quieter, Row
  <2>. QED
    BY <1>1, <1>4, <2>1, <2>2 DEF MarkNotDispatched
<1>5. ASSUME NEW r \in Runner, Renew(r)
      PROVE  Rows' /\ Update
  <2>1. SoundRows(Renewed(db, r)) /\ HeldBy(db, r) \in SUBSET JobId
    BY <1>0, RenewedRows DEF HeldBy
  <2>2. /\ Quieter(db, Renewed(db, r))
        /\ \A k \in JobId \ HeldBy(db, r) : Renewed(db, r)[k] = db[k]
        /\ \A k \in JobId : Renewed(db, r)[k].runner = db[k].runner
    BY <1>0 DEF Renewed, Quieter, Row
  <2>. QED
    BY <1>1, <1>5, <2>1, <2>2 DEF Renew
<1>6. CASE Tick
  <2>1. Quieter(db, db') /\ \A k \in JobId : db'[k].runner = db[k].runner
    BY <1>0, <1>6 DEF Tick, Aged, Quieter, Row
  <2>2. UNCHANGED <<call, mine>> /\ \A s \in Session : DOMAIN mine[s] = {}
    BY <1>6 DEF Tick, Open, Rows, Written
  <2>. QED
    BY <1>6, <2>1, <2>2, TickRows DEF Update
<1>. QED
  BY <1>2, <1>3, <1>4, <1>5, <1>6

(* A step of s inside its transaction: it commits nothing.                 *)
Inside(s) ==
  \/ \E j \in JobId, state \in {QUEUED, RUNNING} : BeginInsert(s, j, state)
  \/ CheckDuplicate(s) \/ CheckJobCap(s) \/ CheckChannelCap(s) \/ Insert(s)
  \/ \E r \in Runner, labels \in SUBSET Server : BeginClaim(s, r, labels)
  \/ BeginReap(s) \/ RequeueExpired(s) \/ AbandonExpired(s) \/ Pick(s) \/ Rollback(s)

LEMMA InsideRows ==
  ASSUME Rows, NEW s \in Session, Inside(s)
  PROVE  /\ Rows'
         /\ UNCHANGED db
         /\ \A o \in Session \ {s} : call'[o] = call[o] /\ mine'[o] = mine[o]
<1>1. Rows'
  BY BeginInsertRows, CheckRows, InsertRows, BeginClaimRows, BeginReapRows, RequeueRows,
     AbandonRows, PickRows, RollbackRows DEF Inside
<1>2. UNCHANGED db
  BY DEF Inside, BeginInsert, CheckDuplicate, CheckJobCap, CheckChannelCap, Insert,
         BeginClaim, BeginReap, RequeueExpired, AbandonExpired, ReapStatement, Pick, Rollback
<1>3. \A o \in Session \ {s} : call'[o] = call[o]
  BY DEF Rows, Inside, BeginInsert, CheckDuplicate, CheckJobCap, CheckChannelCap, Insert,
         BeginClaim, BeginReap, RequeueExpired, AbandonExpired, ReapStatement, Pick, Rollback, End, GoTo
<1>4. \A o \in Session \ {s} : mine'[o] = mine[o]
  BY DEF Rows, Inside, BeginInsert, CheckDuplicate, CheckJobCap, CheckChannelCap, Insert,
         BeginClaim, BeginReap, RequeueExpired, AbandonExpired, ReapStatement, Pick, Rollback, End, Write
<1>. QED
  BY <1>1, <1>2, <1>3, <1>4

(* Every step is one of these, and keeps the rows.                         *)
LEMMA NextKinds ==
  ASSUME Rows, Next
  PROVE  Rows' /\ (Update \/ \E s \in Session : Inside(s) \/ Commit(s))
BY UpdateSteps, InsideRows, CommitRows DEF Next, Inside

LEMMA InitRows == Init => Rows
<1>. SUFFICES ASSUME Init
              PROVE  Rows
  OBVIOUS
<1>1. NoRow \in GoodRow
  BY LeaseAssumption DEF GoodRow, NoRow, Row
<1>2. SoundRows(db)
  BY <1>1 DEF SoundRows, Init, EmptyTable
<1>3. /\ DOMAIN mine = Session /\ call \in [Session -> Call]
      /\ \A s \in Session : call[s].pc = "idle" /\ DOMAIN mine[s] = {}
  BY IdleCall DEF Init, Idle, NoRows
<1>. QED
  BY <1>2, <1>3 DEF Rows, Written, OneWriterPerRow

LEMMA RowsStutter ==
  ASSUME Rows, UNCHANGED vars
  PROVE  Rows'
<1>1. \A s \in Session : Written(s)'
  BY WrittenKept DEF Rows, vars
<1>. QED
  BY <1>1 DEF Rows, vars, OneWriterPerRow

LEMMA AlwaysRows == Spec => []Rows
<1>1. Rows /\ [Next]_vars => Rows'
  BY NextKinds, RowsStutter
<1>. QED
  BY <1>1, InitRows, PTL DEF Spec

(* The committed rows and the rows being written have the columns' types.  *)
THEOREM TypeCorrect == Spec => []TypeOK
<1>1. Rows => TypeOK
  BY ViewRows DEF Rows, TypeOK, Table, SoundRows, GoodRow, Written
<1>. QED
  BY <1>1, AlwaysRows, PTL

(* The committed rows keep what the rows of JobStore keep, however the     *)
(* statements interleave and with no advisory lock: a row has a lease just *)
(* while a test server holds it, a dispatched run stays out of the queue,  *)
(* and no run is handed out more than MaxAttempts times.                   *)
THEOREM CommittedRowsAlwaysSound ==
  Spec => [](CustodyIn(db) /\ DispatchedStaysOutIn(db) /\ AttemptsBoundedIn(db))
<1>1. ASSUME SoundRows(db), NEW j \in JobId
      PROVE  db[j] \in GoodRow
  BY <1>1 DEF SoundRows
<1>2. Rows => CustodyIn(db) /\ DispatchedStaysOutIn(db) /\ AttemptsBoundedIn(db)
  BY <1>1 DEF Rows, GoodRow, CustodyIn, DispatchedStaysOutIn, AttemptsBoundedIn, Held
<1>. QED
  BY <1>2, AlwaysRows, PTL

(* No run is handed out more often than MaxAttempts and only one that was  *)
(* is abandoned, however the statements of claims and of the reaper        *)
(* interleave: what a transaction read of a row stands until it commits.   *)
THEOREM AttemptsAlwaysBounded == Spec => []AttemptsBounded
BY CommittedRowsAlwaysSound, PTL DEF AttemptsBounded

(* No transaction takes back a run whose lease was renewed while it was    *)
(* open: it could only have reaped or picked the row before, and then held *)
(* the row's lock ever since.                                              *)
THEOREM LiveLeaseIsAlwaysSafe == Spec => LiveLeaseIsSafe
<1>1. ASSUME Rows, Next, NEW j \in JobId, Held(db, j), db[j].lease # 0
      PROVE  db'[j].runner = db[j].runner
  <2>1. ASSUME NEW s \in Session, Commit(s)
        PROVE  db'[j] = db[j]
    <3>1. ASSUME j \in DOMAIN mine[s]
          PROVE  FALSE
      <4>1. SoundRows(db) /\ Written(s)
        BY <1>1 DEF Rows
      <4>2. db[j].state \in BUSY_STATES /\ j \notin Expired(db) /\ Reaped(db)[j] = db[j]
        BY <1>1, <4>1, ReapedRow DEF Held, Expired
      <4>3. ~ReapedBy(s, j) /\ ~ClaimedBy(s, j) /\ ~InsertedBy(s, j)
        BY <4>2 DEF ReapedBy, ClaimedBy, InsertedBy
      <4>4. InsertedBy(s, call[s].job) => call[s].job = j
        BY <3>1 DEF InsertedBy
      <4>. QED
        BY <2>1, <3>1, <4>1, <4>3, <4>4 DEF Written, Commit
    <3>. QED
      BY <2>1, <3>1 DEF Commit, View
  <2>. QED
    BY <1>1, <2>1, NextKinds, InsideRows DEF Update
<1>2. Rows /\ [Next]_vars
        => [\A j \in JobId : Held(db, j) /\ db[j].lease # 0
                             => db'[j].runner = db[j].runner]_vars
  BY <1>1
<1>. QED
  BY <1>2, AlwaysRows, PTL DEF Spec, LiveLeaseIsSafe
-----------------------------------------------------------------------------
(* The advisory locks: one transaction inserts and one claims at a time.   *)
Serialised ==
  /\ AnyCap => \A s, o \in Session :
       call[s].pc \in InsertSteps /\ call[o].pc \in InsertSteps => s = o
  /\ MaxRunningPerChannel > 0 => \A s, o \in Session :
       call[s].pc \in ClaimSteps /\ call[o].pc \in ClaimSteps => s = o

(* How an insert moves on, and what it has just found.                     *)
LEMMA InsertProgress ==
  ASSUME Rows, NEW s \in Session, Inside(s), call'[s].pc \in InsertSteps
  PROVE  \/ call'[s].pc = "duplicate?" /\ LockEnqueue
         \/ /\ call[s].pc \in InsertSteps
            /\ call'[s].job = call[s].job /\ call'[s].state = call[s].state
            /\ call[s].job \in JobId /\ call[s].state \in {QUEUED, RUNNING}
            /\ \/ call'[s].pc = "job cap?"
               \/ call'[s].pc = "channel cap?" /\ ~JobAtCapacity(db, call[s].job)
               \/ /\ call[s].pc = "channel cap?" /\ call'[s].pc = "insert"
                  /\ ~ChannelRefuses(db, call[s].job, call[s].state)
               \/ call[s].pc = "insert" /\ call'[s].pc = "insert commit"
<1>0. call \in [Session -> Call]
  BY DEF Rows
<1>1. ~End(s)
  <2>1. End(s) => call'[s].pc = "idle"
    BY <1>0 DEF End, Idle
  <2>. QED
    BY <2>1 DEF InsertSteps
<1>2. CASE \E j \in JobId, state \in {QUEUED, RUNNING} : BeginInsert(s, j, state)
  BY <1>0, <1>2 DEF BeginInsert
<1>3. CASE \E r \in Runner, labels \in SUBSET Server : BeginClaim(s, r, labels)
  BY <1>0, <1>3 DEF BeginClaim, InsertSteps
<1>4. CASE BeginReap(s) \/ RequeueExpired(s) \/ AbandonExpired(s) \/ Pick(s)
  <2>1. \/ call'[s].pc = "requeue only"
        \/ \E pc \in {"abandon", "pick", "claim commit", "abandon only", "reap commit"} : GoTo(s, pc)
    <3>1. ASSUME BeginReap(s)
          PROVE  call'[s].pc = "requeue only"
      <4>. DEFINE c == [pc |-> "requeue only"]
      <4>1. c.pc = "requeue only"
        OBVIOUS
      <4>2. call'[s] = c
        BY <1>0, <3>1 DEF BeginReap
      <4>. HIDE DEF c
      <4>. QED
        BY <4>1, <4>2
    <3>2. RequeueExpired(s) => GoTo(s, "abandon") \/ GoTo(s, "abandon only")
      BY DEF RequeueExpired, ReapStatement
    <3>3. AbandonExpired(s) => GoTo(s, "pick") \/ GoTo(s, "reap commit")
      BY DEF AbandonExpired, ReapStatement
    <3>4. Pick(s) => GoTo(s, "claim commit")
      BY DEF Pick
    <3>. QED
      BY <1>4, <3>1, <3>2, <3>3, <3>4
  <2>2. call'[s].pc \in {"abandon", "pick", "claim commit"} \cup ReapSteps
    BY <1>0, <2>1, GoesTo DEF ReapSteps
  <2>. QED
    BY <2>2 DEF InsertSteps, ReapSteps
<1>5. CASE CheckDuplicate(s)
  <2>1. call[s].pc = "duplicate?" /\ GoTo(s, "job cap?")
    BY <1>1, <1>5 DEF CheckDuplicate
  <2>. QED
    BY <1>0, <2>1, GoesTo DEF InsertSteps
<1>6. CASE CheckJobCap(s)
  <2>1. call[s].pc = "job cap?" /\ GoTo(s, "channel cap?") /\ ~JobAtCapacity(View(s), call[s].job)
    BY <1>1, <1>6 DEF CheckJobCap
  <2>2. View(s) = db
    BY <2>1, EmptyView DEF Rows, Written
  <2>. QED
    BY <1>0, <2>1, <2>2, GoesTo DEF InsertSteps
<1>7. CASE CheckChannelCap(s)
  <2>1. /\ call[s].pc = "channel cap?" /\ GoTo(s, "insert")
        /\ ~ChannelRefuses(View(s), call[s].job, call[s].state)
    BY <1>1, <1>7 DEF CheckChannelCap
  <2>2. View(s) = db
    BY <2>1, EmptyView DEF Rows, Written
  <2>. QED
    BY <1>0, <2>1, <2>2, GoesTo DEF InsertSteps
<1>8. CASE Insert(s)
  <2>1. call[s].pc = "insert" /\ GoTo(s, "insert commit")
    BY <1>1, <1>8 DEF Insert
  <2>. QED
    BY <1>0, <2>1, GoesTo DEF InsertSteps
<1>. QED
  BY <1>1, <1>2, <1>3, <1>4, <1>5, <1>6, <1>7, <1>8 DEF Inside, Rollback

(* How a claim moves on, and what becomes of what it sees.                 *)
LEMMA ClaimProgress ==
  ASSUME Rows, NEW s \in Session, Inside(s), call'[s].pc \in ClaimSteps
  PROVE  \/ call'[s].pc = "requeue" /\ LockClaim /\ View(s)' = db
         \/ /\ call[s].pc \in ClaimSteps
            /\ \/ Quieter(View(s), View(s)')
               \/ \E j \in JobId :
                    /\ ~ChannelBusy(View(s), j)
                    /\ View(s)[j].state = QUEUED /\ View(s)'[j].state = CLAIMED
                    /\ View(s)'[j].mode = View(s)[j].mode
                    /\ \A k \in JobId \ {j} : View(s)'[k] = View(s)[k]
<1>0. call \in [Session -> Call] /\ UNCHANGED db
  BY InsideRows DEF Rows
<1>1. ~End(s)
  <2>1. End(s) => call'[s].pc = "idle"
    BY <1>0 DEF End, Idle
  <2>. QED
    BY <2>1 DEF ClaimSteps
<1>2. CASE \E r \in Runner, labels \in SUBSET Server : BeginClaim(s, r, labels)
  <2>1. call'[s].pc = "requeue" /\ LockClaim /\ mine' = mine
    BY <1>0, <1>2 DEF BeginClaim
  <2>2. View(s) = db
    BY <1>2, EmptyView DEF Rows, Written, BeginClaim, Open
  <2>3. View(s)' = View(s)
    BY <1>0, <2>1 DEF View
  <2>. QED
    BY <2>1, <2>2, <2>3
<1>3. CASE \E j \in JobId, state \in {QUEUED, RUNNING} : BeginInsert(s, j, state)
  <2>1. call'[s].pc = "duplicate?"
    BY <1>0, <1>3 DEF BeginInsert
  <2>. QED
    BY <2>1 DEF ClaimSteps
<1>4. CASE CheckDuplicate(s) \/ CheckJobCap(s) \/ CheckChannelCap(s) \/ Insert(s)
  <2>1. call'[s].pc \in {"job cap?", "channel cap?", "insert", "insert commit"}
    BY <1>0, <1>1, <1>4, GoesTo DEF CheckDuplicate, CheckJobCap, CheckChannelCap, Insert
  <2>. QED
    BY <2>1 DEF ClaimSteps
<1>5. SoundRows(View(s)) /\ DOMAIN mine = Session
  BY ViewRows DEF Rows
<1>6. ASSUME NEW S \in SUBSET JobId, NEW T, Write(s, S, T),
             \A j \in DOMAIN mine[s] \ S : T[j] = View(s)[j]
      PROVE  /\ \A j \in S : View(s)'[j] = T[j]
             /\ \A j \in JobId \ S : View(s)'[j] = View(s)[j]
  BY <1>0, <1>5, <1>6 DEF Write, View
<1>7. CASE RequeueExpired(s)
  <2>. DEFINE T == Requeued(View(s))
              hit == {j \in JobId : T[j] # View(s)[j]}
  <2>1. call[s].pc = "requeue" /\ Write(s, hit, T)
    <3>1. Write(s, hit, T) /\ (call[s].pc = "requeue" \/ GoTo(s, "abandon only"))
      BY <1>7 DEF RequeueExpired, ReapStatement
    <3>2. GoTo(s, "abandon only") => call'[s].pc = "abandon only"
      BY <1>0, GoesTo
    <3>3. call'[s].pc # "abandon only"
      BY DEF ClaimSteps
    <3>. QED
      BY <3>1, <3>2, <3>3
  <2>2. \A j \in JobId : View(s)'[j] = T[j]
    <3>1. \A j \in DOMAIN mine[s] \ hit : T[j] = View(s)[j]
      BY DEF Rows, Written
    <3>2. /\ \A j \in hit : View(s)'[j] = T[j]
          /\ \A j \in JobId \ hit : View(s)'[j] = View(s)[j]
      BY <1>6, <2>1, <3>1
    <3>. QED
      BY <3>2
  <2>3. Quieter(View(s), T)
    BY <1>5 DEF Quieter, SoundRows, GoodRow, Row, Requeued, Expired, InState
  <2>. QED
    BY <2>1, <2>2, <2>3 DEF Quieter, ClaimSteps
<1>8. CASE AbandonExpired(s)
  <2>. DEFINE T == Abandoned(View(s))
              hit == {j \in JobId : T[j] # View(s)[j]}
  <2>1. call[s].pc = "abandon" /\ Write(s, hit, T)
    <3>1. Write(s, hit, T) /\ (call[s].pc = "abandon" \/ GoTo(s, "reap commit"))
      BY <1>8 DEF AbandonExpired, ReapStatement
    <3>2. GoTo(s, "reap commit") => call'[s].pc = "reap commit"
      BY <1>0, GoesTo
    <3>3. call'[s].pc # "reap commit"
      BY DEF ClaimSteps
    <3>. QED
      BY <3>1, <3>2, <3>3
  <2>2. \A j \in JobId : View(s)'[j] = T[j]
    <3>1. \A j \in DOMAIN mine[s] \ hit : T[j] = View(s)[j]
      BY DEF Rows, Written
    <3>2. /\ \A j \in hit : View(s)'[j] = T[j]
          /\ \A j \in JobId \ hit : View(s)'[j] = View(s)[j]
      BY <1>6, <2>1, <3>1
    <3>. QED
      BY <3>2
  <2>3. Quieter(View(s), T)
    BY <1>5 DEF Quieter, SoundRows, GoodRow, Row, Abandoned, Expired, InState
  <2>. QED
    BY <2>1, <2>2, <2>3 DEF Quieter, ClaimSteps
<1>9. CASE Pick(s)
  <2>1. call[s].pc \in ClaimSteps
    BY <1>9 DEF Pick, ClaimSteps
  <2>2. CASE UNCHANGED mine
    BY <1>0, <2>1, <2>2 DEF View, Quieter
  <2>3. ASSUME NEW j \in Oldest(View(s), Claimable(View(s), call[s].labels) \ LockedByOthers(s)),
               Write(s, {j}, Claimed(View(s), j, call[s].runner))
        PROVE  \E i \in JobId :
                 /\ ~ChannelBusy(View(s), i)
                 /\ View(s)[i].state = QUEUED /\ View(s)'[i].state = CLAIMED
                 /\ View(s)'[i].mode = View(s)[i].mode
                 /\ \A k \in JobId \ {i} : View(s)'[k] = View(s)[k]
    <3>. DEFINE T == Claimed(View(s), j, call[s].runner)
    <3>1. j \in JobId /\ View(s)[j].state = QUEUED /\ ~ChannelBusy(View(s), j)
      BY DEF Oldest, Claimable, InState
    <3>2. /\ T[j].state = CLAIMED /\ T[j].mode = View(s)[j].mode
          /\ \A k \in JobId \ {j} : T[k] = View(s)[k]
      BY <1>5, <3>1 DEF Claimed, SoundRows, GoodRow, Row
    <3>3. View(s)'[j] = T[j] /\ \A k \in JobId \ {j} : View(s)'[k] = View(s)[k]
      <4>1. \A k \in DOMAIN mine[s] \ {j} : T[k] = View(s)[k]
        BY <3>2 DEF Rows, Written
      <4>2. /\ {j} \in SUBSET JobId
            /\ \A k \in DOMAIN mine[s] \ {j} : T[k] = View(s)[k]
            /\ Write(s, {j}, T)
        BY <2>3, <3>1, <4>1
      <4>3. /\ \A k \in {j} : View(s)'[k] = T[k]
            /\ \A k \in JobId \ {j} : View(s)'[k] = View(s)[k]
        BY <1>6, <4>2
      <4>. QED
        BY <4>3
    <3>. QED
      BY <3>1, <3>2, <3>3
  <2>. QED
    BY <1>9, <2>1, <2>2, <2>3 DEF Pick
<1>10. CASE BeginReap(s)
  <2>1. call'[s].pc = "requeue only"
    BY <1>0, <1>10 DEF BeginReap
  <2>. QED
    BY <2>1 DEF ClaimSteps
<1>. QED
  BY <1>1, <1>2, <1>3, <1>4, <1>7, <1>8, <1>9, <1>10 DEF Inside, Rollback

(* A transaction that ends holds no advisory lock any more.                *)
LEMMA UpdateOrCommitCalls ==
  ASSUME Rows, NEW s \in Session, Update \/ Commit(s), NEW o \in Session
  PROVE  \/ call'[o] = call[o]
         \/ o = s /\ call'[o].pc = "idle" /\ DOMAIN mine'[o] = {}
<1>1. CASE Update
  BY <1>1 DEF Update
<1>2. CASE Commit(s)
  BY <1>2 DEF Commit, End, Rows, Idle, NoRows
<1>. QED
  BY <1>1, <1>2

LEMMA SerialisedNext ==
  ASSUME Rows, Serialised, Next
  PROVE  Serialised'
<1>0. "idle" \notin InsertSteps /\ "idle" \notin ClaimSteps
  BY DEF InsertSteps, ClaimSteps
<1>1. CASE Update
  BY <1>1 DEF Update, Serialised
<1>2. ASSUME NEW s \in Session, Commit(s)
      PROVE  Serialised'
  <2>1. \A o \in Session : call'[o] = call[o] \/ call'[o].pc = "idle"
    BY <1>2, UpdateOrCommitCalls
  <2>. QED
    BY <1>0, <2>1 DEF Serialised
<1>3. ASSUME NEW s \in Session, Inside(s)
      PROVE  Serialised'
  <2>1. \A o \in Session \ {s} : call'[o] = call[o]
    BY <1>3, InsideRows
  <2>2. ASSUME AnyCap, call'[s].pc \in InsertSteps, NEW o \in Session \ {s}
        PROVE  call'[o].pc \notin InsertSteps
    <3>1. LockEnqueue \/ call[s].pc \in InsertSteps
      BY <1>3, <2>2, InsertProgress
    <3>. QED
      BY <2>1, <2>2, <3>1 DEF LockEnqueue, Serialised
  <2>3. ASSUME MaxRunningPerChannel > 0, call'[s].pc \in ClaimSteps, NEW o \in Session \ {s}
        PROVE  call'[o].pc \notin ClaimSteps
    <3>1. LockClaim \/ call[s].pc \in ClaimSteps
      BY <1>3, <2>3, ClaimProgress
    <3>. QED
      BY <2>1, <2>3, <3>1 DEF LockClaim, Serialised
  <2>. QED
    BY <2>1, <2>2, <2>3 DEF Serialised
<1>. QED
  BY <1>1, <1>2, <1>3, NextKinds

(* What an insert commits: one new row, over an id that had none.          *)
LEMMA CommitInsert ==
  ASSUME Rows, NEW s \in Session, Commit(s), call[s].pc = "insert commit"
  PROVE  /\ call[s].job \in JobId /\ call[s].state \in {QUEUED, RUNNING}
         /\ \A k \in JobId \ {call[s].job} : db'[k] = db[k]
         /\ db[call[s].job].state = ABSENT
         /\ db'[call[s].job].state = call[s].state
         /\ db'[call[s].job].mode =
              IF call[s].state = QUEUED THEN "test-server" ELSE "dispatch"
<1>1. InsertedBy(s, call[s].job) /\ call[s] \in Call /\ call[s].pc \in InsertSteps
  BY DEF Rows, Written, InsertSteps
<1>2. call[s].job \in JobId /\ call[s].state \in {QUEUED, RUNNING}
  BY <1>1, GoToCall
<1>3. db' = View(s)
  BY DEF Commit
<1>. QED
  BY <1>1, <1>2, <1>3 DEF View, InsertedBy

(* What a claim sees, and commits: some rows taken back, one handed out.   *)
LEMMA ClaimView ==
  ASSUME Rows, NEW s \in Session, call[s].pc \in ClaimSteps
  PROVE  /\ \A k \in JobId :
              /\ View(s)[k].state \in ACTIVE_STATES => db[k].state \in ACTIVE_STATES
              /\ View(s)[k].mode = db[k].mode
         /\ \/ Quieter(db, View(s))
            \/ \E i \in JobId : \A k \in JobId \ {i} :
                 View(s)[k].state \in BUSY_STATES => db[k].state \in BUSY_STATES
<1>0. SoundRows(db)
  BY DEF Rows
<1>1. ASSUME NEW k \in DOMAIN mine[s]
      PROVE  /\ k \in JobId
             /\ db[k].state \in ACTIVE_STATES /\ mine[s][k].mode = db[k].mode
             /\ \/ mine[s][k].state \in {QUEUED, ABANDONED}
                \/ mine[s][k].state = CLAIMED
  <2>1. k \in JobId /\ (ReapedBy(s, k) \/ ClaimedBy(s, k))
    BY DEF Rows, Written, ClaimSteps
  <2>2. CASE ReapedBy(s, k)
    <3>1. db[k].state \in BUSY_STATES
      BY <2>2 DEF ReapedBy, Expired, InState
    <3>. QED
      BY <1>0, <2>1, <2>2, <3>1, ReapedRow DEF ReapedBy
  <2>3. CASE ClaimedBy(s, k)
    <3>1. db[k].state \in ACTIVE_STATES
      <4>1. CASE k \in Expired(db)
        BY <4>1 DEF Expired, InState
      <4>2. CASE k \notin Expired(db)
        BY <1>0, <2>1, <2>3, <4>2, ReapedRow DEF ClaimedBy
      <4>. QED
        BY <4>1, <4>2
    <3>2. SoundRows(Reaped(db)) /\ Reaped(db)[k].mode = db[k].mode
      BY <1>0, <2>1, ReapedRow, ReapedRows DEF Reaped
    <3>3. mine[s][k].state = CLAIMED /\ mine[s][k].mode = Reaped(db)[k].mode
      BY <2>1, <2>3, <3>2 DEF ClaimedBy, Claimed, SoundRows, GoodRow, Row
    <3>. QED
      BY <2>1, <3>1, <3>2, <3>3
  <2>. QED
    BY <2>1, <2>2, <2>3
<1>2. \A k \in JobId : View(s)[k] = IF k \in DOMAIN mine[s] THEN mine[s][k] ELSE db[k]
  BY DEF View
<1>3. CASE \E i \in DOMAIN mine[s] : mine[s][i].state = CLAIMED
  <2>1. PICK i \in DOMAIN mine[s] : mine[s][i].state = CLAIMED
    BY <1>3
  <2>2. \A k \in DOMAIN mine[s] \ {i} : mine[s][k].state # CLAIMED
    BY <2>1 DEF Rows, Written
  <2>3. \A k \in JobId \ {i} :
          View(s)[k].state \in BUSY_STATES => db[k].state \in BUSY_STATES
    BY <1>1, <1>2, <2>2
  <2>. QED
    BY <1>1, <1>2, <2>1, <2>3
<1>4. CASE ~\E i \in DOMAIN mine[s] : mine[s][i].state = CLAIMED
  BY <1>1, <1>2, <1>4 DEF Quieter
<1>. QED
  BY <1>3, <1>4

LEMMA CommitKinds ==
  ASSUME Rows, NEW s \in Session, Commit(s)
  PROVE  /\ db' = View(s)
         /\ call[s].pc \in {"insert commit", "claim commit", "reap commit"}
         /\ call[s].pc = "claim commit" <=> call[s].pc \in ClaimSteps
         /\ call[s].pc = "insert commit" <=> call[s].pc \in InsertSteps
BY DEF Commit, ClaimSteps, InsertSteps

(* What the reaper on its own commits: rows taken back, and no others.     *)
LEMMA ReapCommitted ==
  ASSUME Rows, NEW s \in Session, Commit(s), call[s].pc = "reap commit"
  PROVE  /\ Quieter(db, db')
         /\ \A o \in Session \ {s} : Quieter(View(o), View(o)')
<1>1. SoundRows(db) /\ mine' = [mine EXCEPT ![s] = NoRows] /\ DOMAIN mine = Session
      /\ \A k \in JobId : db'[k] = IF k \in DOMAIN mine[s] THEN mine[s][k] ELSE db[k]
  BY DEF Rows, Commit, End, View
<1>2. ASSUME NEW k \in JobId, k \in DOMAIN mine[s]
      PROVE  /\ db[k].state \in BUSY_STATES /\ mine[s][k].mode = db[k].mode
             /\ mine[s][k].state \in {QUEUED, ABANDONED}
  <2>1. k \in Expired(db) /\ mine[s][k] = Reaped(db)[k]
    BY <1>2 DEF Rows, Written, ReapedBy
  <2>2. SoundRows(db)
    BY <1>1
  <2>3. /\ db[k].state \in BUSY_STATES
        /\ Reaped(db)[k].state \in {QUEUED, ABANDONED}
        /\ Reaped(db)[k].mode = db[k].mode
    <3>1. db[k].state \in BUSY_STATES
      BY <2>1 DEF Expired, InState
    <3>2. Reaped(db)[k].state \in {QUEUED, ABANDONED}
      BY <2>1, <2>2, ReapHits
    <3>3. Reaped(db)[k].mode = db[k].mode
      BY <2>2, ReapedRow
    <3>. QED
      BY <3>1, <3>2, <3>3
  <2>. QED
    BY <2>1, <2>3
<1>3. \A k \in JobId : /\ db'[k].state \in ACTIVE_STATES => db[k].state \in ACTIVE_STATES
                       /\ db'[k].state \in BUSY_STATES => db[k].state \in BUSY_STATES
                       /\ db'[k].mode = db[k].mode
  BY <1>1, <1>2
<1>4. ASSUME NEW o \in Session \ {s}
      PROVE  Quieter(View(o), View(o)')
  <2>1. mine'[o] = mine[o]
    BY <1>1
  <2>2. \A k \in JobId : /\ View(o)[k] = IF k \in DOMAIN mine[o] THEN mine[o][k] ELSE db[k]
                         /\ View(o)'[k] = IF k \in DOMAIN mine'[o] THEN mine'[o][k] ELSE db'[k]
    BY DEF View
  <2>. QED
    BY <1>3, <2>1, <2>2 DEF Quieter
<1>. QED
  BY <1>3, <1>4 DEF Quieter
-----------------------------------------------------------------------------
(* The per-job cap.  Past its check an insert finds its suite below the    *)
(* cap until it commits: nothing but an insert makes a run active, and the *)
(* lock keeps the others out.                                              *)
JobRoom ==
  \A s \in Session : call[s].pc \in {"channel cap?", "insert", "insert commit"} =>
    ~JobAtCapacity(db, call[s].job)

LEMMA JobRoomKept ==
  ASSUME NEW T, NEW U, NEW j,
         InState(U, ACTIVE_STATES) \subseteq InState(T, ACTIVE_STATES), ~JobAtCapacity(T, j)
  PROVE  ~JobAtCapacity(U, j)
<1>1. ActiveOf(T, j) \in SUBSET JobId /\ ActiveOf(U, j) \in SUBSET ActiveOf(T, j)
  BY DEF ActiveOf, SameJob
<1>. QED
  BY <1>1, CountSubset, CapsAssumption DEF JobAtCapacity, AtCap

LEMMA JobCapNext ==
  ASSUME Rows, Serialised, JobCapIn(db), JobRoom, Next
  PROVE  JobCapIn(db') /\ JobRoom'
<1>1. ASSUME InState(db', ACTIVE_STATES) \subseteq InState(db, ACTIVE_STATES),
             \A o \in Session : call'[o] = call[o] \/ call'[o].pc = "idle"
      PROVE  JobCapIn(db') /\ JobRoom'
  <2>1. JobCapIn(db')
    BY <1>1, JobCapKept
  <2>. QED
    BY <1>1, <2>1, JobRoomKept DEF JobRoom
<1>2. CASE Update
  BY <1>1, <1>2 DEF Update, Quieter, InState
<1>3. ASSUME NEW s \in Session, Inside(s)
      PROVE  JobCapIn(db') /\ JobRoom'
  <2>1. /\ db' = db /\ \A o \in Session \ {s} : call'[o] = call[o]
    BY <1>3, InsideRows
  <2>2. ASSUME call'[s].pc \in {"channel cap?", "insert", "insert commit"}
        PROVE  ~JobAtCapacity(db, call'[s].job)
    <3>1. call'[s].pc \in InsertSteps /\ call'[s].pc # "duplicate?" /\ call'[s].pc # "job cap?"
      BY <2>2 DEF InsertSteps
    <3>. QED
      BY <1>3, <3>1, InsertProgress DEF JobRoom
  <2>. QED
    BY <2>1, <2>2 DEF JobRoom
<1>4. ASSUME NEW s \in Session, Commit(s), call[s].pc \in ClaimSteps
      PROVE  JobCapIn(db') /\ JobRoom'
  <2>1. InState(db', ACTIVE_STATES) \subseteq InState(db, ACTIVE_STATES)
    BY <1>4, ClaimView, CommitKinds DEF InState
  <2>. QED
    BY <1>1, <1>4, <2>1, UpdateOrCommitCalls
<1>5. ASSUME NEW s \in Session, Commit(s), call[s].pc = "insert commit"
      PROVE  JobCapIn(db') /\ JobRoom'
  <2>1. /\ call[s].job \in JobId
        /\ InState(db', ACTIVE_STATES) \subseteq InState(db, ACTIVE_STATES) \cup {call[s].job}
    BY <1>5, CommitInsert DEF InState
  <2>2. ~JobAtCapacity(db, call[s].job)
    BY <1>5 DEF JobRoom
  <2>3. JobCapIn(db')
    BY <2>1, <2>2, JobCapTaken
  <2>4. CASE MaxActivePerJob > 0
    <3>1. \A o \in Session : call'[o] = call[o] \/ (call'[o].pc = "idle" /\ o = s)
      BY <1>5, UpdateOrCommitCalls
    <3>2. call[s].pc \in InsertSteps /\ call'[s].pc = "idle"
      BY <1>5, CommitKinds DEF Commit, End, Rows, Idle
    <3>3. \A o \in Session : call'[o].pc \notin InsertSteps
      BY <2>4, <3>1, <3>2 DEF Serialised, AnyCap, InsertSteps
    <3>. QED
      BY <2>3, <3>3 DEF JobRoom, InsertSteps
  <2>5. CASE ~(MaxActivePerJob > 0)
    BY <2>3, <2>5 DEF JobRoom, JobAtCapacity, AtCap
  <2>. QED
    BY <2>4, <2>5
<1>6. ASSUME NEW s \in Session, Commit(s), call[s].pc = "reap commit"
      PROVE  JobCapIn(db') /\ JobRoom'
  <2>1. InState(db', ACTIVE_STATES) \subseteq InState(db, ACTIVE_STATES)
    BY <1>6, ReapCommitted DEF InState, Quieter
  <2>. QED
    BY <1>1, <1>6, <2>1, UpdateOrCommitCalls
<1>. QED
  BY <1>2, <1>3, <1>4, <1>5, <1>6, NextKinds, CommitKinds
-----------------------------------------------------------------------------
(* Only a claim sees a run held that no test server holds.                 *)
OnlyClaimsHandOut ==
  \A s \in Session : call[s].pc \notin ClaimSteps \/ DOMAIN mine[s] = {} =>
    \A k \in JobId : Held(View(s), k) => Held(db, k)

LEMMA RowsHandOut == Rows => OnlyClaimsHandOut
<1>. SUFFICES ASSUME Rows, NEW s \in Session,
                     call[s].pc \notin ClaimSteps \/ DOMAIN mine[s] = {}, NEW k \in JobId
              PROVE  Held(View(s), k) => Held(db, k)
  BY DEF OnlyClaimsHandOut
<1>1. View(s)[k] = IF k \in DOMAIN mine[s] THEN mine[s][k] ELSE db[k]
  BY DEF View
<1>2. ASSUME k \in DOMAIN mine[s]
      PROVE  ~(mine[s][k].state \in BUSY_STATES /\ mine[s][k].mode = "test-server")
  <2>1. CASE call[s].pc \in {"abandon only", "reap commit"}
    <3>1. SoundRows(db) /\ k \in Expired(db) /\ mine[s][k] = Reaped(db)[k]
      BY <1>2, <2>1 DEF Rows, Written, ReapedBy
    <3>. QED
      BY <3>1, ReapedRow
  <2>2. CASE call[s].pc \notin {"abandon only", "reap commit"}
    BY <1>2, <2>2 DEF Rows, Written, InsertedBy, ClaimSteps
  <2>. QED
    BY <2>1, <2>2
<1>. QED
  BY <1>1, <1>2 DEF Held

(* After an update every session sees a quieter table.                     *)
LEMMA UpdateViews ==
  ASSUME Rows, Rows', Update, NEW s \in Session
  PROVE  Quieter(View(s), View(s)')
<1>1. \A k \in JobId : View(s)[k] = IF k \in DOMAIN mine[s] THEN mine[s][k] ELSE db[k]
  BY DEF View
<1>2. \A k \in JobId : View(s)'[k] = IF k \in DOMAIN mine'[s] THEN mine'[s][k] ELSE db'[k]
  BY DEF View
<1>. QED
  BY <1>1, <1>2 DEF Update, Quieter

(* After an insert every other session sees at most one row more.          *)
LEMMA InsertedViews ==
  ASSUME Rows, NEW s \in Session, Commit(s), call[s].pc = "insert commit",
         NEW o \in Session \ {s}
  PROVE  \A k \in JobId : View(o)'[k] = View(o)[k] \/ (k = call[s].job /\ View(o)'[k] = db'[k])
<1>1. mine'[o] = mine[o]
  BY DEF Commit, End, Rows
<1>2. \A k \in JobId : View(o)[k] = IF k \in DOMAIN mine[o] THEN mine[o][k] ELSE db[k]
  BY DEF View
<1>3. \A k \in JobId : View(o)'[k] = IF k \in DOMAIN mine'[o] THEN mine'[o][k] ELSE db'[k]
  BY DEF View
<1>4. \A k \in JobId \ {call[s].job} : db'[k] = db[k]
  BY CommitInsert
<1>. QED
  BY <1>1, <1>2, <1>3, <1>4
-----------------------------------------------------------------------------
(* The backlog.  Its queued part is bounded by the check that an insert    *)
(* has made under its lock, its held part by the running cap: a claim      *)
(* counts at least the runs that are held, and only claims add to them.    *)
HeldIn(T, c) == {j \in InChannel(c) : Held(T, j)}

HeldCap ==
  MaxRunningPerChannel > 0 => \A c \in Channel :
    /\ Cardinality(HeldIn(db, c)) <= MaxRunningPerChannel
    /\ \A s \in Session : Cardinality(HeldIn(View(s), c)) <= MaxRunningPerChannel

LEMMA HeldKept ==
  ASSUME NEW T, NEW U, NEW c, NEW n \in Nat, Cardinality(HeldIn(T, c)) <= n,
         \A k \in JobId : Held(U, k) => Held(T, k)
  PROVE  Cardinality(HeldIn(U, c)) <= n
<1>1. HeldIn(T, c) \in SUBSET JobId /\ HeldIn(U, c) \in SUBSET HeldIn(T, c)
  BY DEF HeldIn, InChannel
<1>. QED
  BY <1>1, CountSubset

(* A run handed out where the channel was not busy leaves it within its    *)
(* cap; elsewhere it does not count.                                       *)
LEMMA HeldTaken ==
  ASSUME NEW T, NEW U, NEW j \in JobId, NEW c, MaxRunningPerChannel > 0,
         ~ChannelBusy(T, j), Cardinality(HeldIn(T, c)) <= MaxRunningPerChannel,
         \A k \in JobId \ {j} : U[k] = T[k]
  PROVE  Cardinality(HeldIn(U, c)) <= MaxRunningPerChannel
<1>1. CASE Job[j].channel = c
  <2>1. BusyIn(T, c) \in SUBSET JobId /\ HeldIn(U, c) \in SUBSET (BusyIn(T, c) \cup {j})
    BY DEF BusyIn, HeldIn, InChannel, InState, Held
  <2>2. Cardinality(BusyIn(T, c)) < MaxRunningPerChannel /\ Cardinality(BusyIn(T, c)) \in Nat
    BY <1>1, <2>1, CountSubset, CapsAssumption DEF ChannelBusy, AtCap
  <2>3. Cardinality(HeldIn(U, c)) <= Cardinality(BusyIn(T, c)) + 1 /\ Cardinality(HeldIn(U, c)) \in Nat
    BY <2>1, CountOneMore
  <2>. QED
    BY <2>2, <2>3, CapsAssumption
<1>2. CASE Job[j].channel # c
  <2>1. HeldIn(T, c) \in SUBSET JobId /\ HeldIn(U, c) \in SUBSET HeldIn(T, c)
    BY <1>2 DEF HeldIn, InChannel, Held
  <2>. QED
    BY <2>1, CountSubset, CapsAssumption
<1>. QED
  BY <1>1, <1>2

LEMMA HeldCapNext ==
  ASSUME Rows, Serialised, HeldCap, Next
  PROVE  HeldCap'
<1>. SUFFICES ASSUME MaxRunningPerChannel > 0, NEW c \in Channel
              PROVE  /\ Cardinality(HeldIn(db', c)) <= MaxRunningPerChannel
                     /\ \A s \in Session :
                          Cardinality(HeldIn(View(s)', c)) <= MaxRunningPerChannel
  BY DEF HeldCap, HeldIn, Held
<1>1. /\ Cardinality(HeldIn(db, c)) <= MaxRunningPerChannel
      /\ \A s \in Session : Cardinality(HeldIn(View(s), c)) <= MaxRunningPerChannel
  BY DEF HeldCap
<1>2. Rows' /\ MaxRunningPerChannel \in Nat
  BY NextKinds, CapsAssumption
<1>3. ASSUME NEW s \in Session, call'[s].pc \notin ClaimSteps \/ DOMAIN mine'[s] = {},
             Cardinality(HeldIn(db', c)) <= MaxRunningPerChannel
      PROVE  Cardinality(HeldIn(View(s)', c)) <= MaxRunningPerChannel
  <2>1. Rows' => OnlyClaimsHandOut'
    BY RowsHandOut, PTL
  <2>2. \A k \in JobId : Held(View(s)', k) => Held(db', k)
    BY <1>2, <1>3, <2>1 DEF OnlyClaimsHandOut, Held
  <2>. QED
    BY <1>2, <1>3, <2>2, HeldKept
<1>4. CASE Update
  <2>1. \A k \in JobId : Held(db', k) => Held(db, k)
    BY <1>4 DEF Update, Quieter, Held
  <2>2. \A s \in Session, k \in JobId : Held(View(s)', k) => Held(View(s), k)
    BY <1>2, <1>4, UpdateViews DEF Quieter, Held
  <2>. QED
    BY <1>1, <1>2, <2>1, <2>2, HeldKept
<1>5. ASSUME NEW s \in Session, Inside(s)
      PROVE  /\ Cardinality(HeldIn(db', c)) <= MaxRunningPerChannel
             /\ \A o \in Session : Cardinality(HeldIn(View(o)', c)) <= MaxRunningPerChannel
  <2>1. /\ db' = db
        /\ \A o \in Session \ {s} : View(o)' = View(o)
    BY <1>5, InsideRows DEF View
  <2>2. CASE call'[s].pc \notin ClaimSteps
    BY <1>1, <1>3, <2>1, <2>2
  <2>3. CASE call'[s].pc \in ClaimSteps /\ View(s)' = db
    BY <1>1, <2>1, <2>3
  <2>4. CASE Quieter(View(s), View(s)')
    <3>1. \A k \in JobId : Held(View(s)', k) => Held(View(s), k)
      BY <2>4 DEF Quieter, Held
    <3>. QED
      BY <1>1, <1>2, <2>1, <3>1, HeldKept
  <2>5. ASSUME NEW j \in JobId, ~ChannelBusy(View(s), j),
               \A k \in JobId \ {j} : View(s)'[k] = View(s)[k]
        PROVE  Cardinality(HeldIn(View(s)', c)) <= MaxRunningPerChannel
    BY <1>1, <2>5, HeldTaken
  <2>. QED
    BY <1>1, <1>5, <2>1, <2>2, <2>3, <2>4, <2>5, ClaimProgress
<1>6. ASSUME NEW s \in Session, Commit(s)
      PROVE  /\ Cardinality(HeldIn(db', c)) <= MaxRunningPerChannel
             /\ \A o \in Session : Cardinality(HeldIn(View(o)', c)) <= MaxRunningPerChannel
  <2>1. Cardinality(HeldIn(db', c)) <= MaxRunningPerChannel
    BY <1>1, <1>6, CommitKinds
  <2>2. call'[s].pc \notin ClaimSteps
    <3>1. call'[s].pc = "idle"
      BY <1>6 DEF Commit, End, Rows, Idle
    <3>. QED
      BY <3>1 DEF ClaimSteps
  <2>3. ASSUME NEW o \in Session \ {s}, call[o].pc \in ClaimSteps
        PROVE  Cardinality(HeldIn(View(o)', c)) <= MaxRunningPerChannel
    <3>1. call[s].pc \in {"insert commit", "reap commit"}
      BY <1>6, <2>3, CommitKinds DEF Serialised
    <3>2. \A k \in JobId : Held(View(o)', k) => Held(View(o), k)
      <4>1. CASE call[s].pc = "insert commit"
        <5>1. ~Held(db', call[s].job)
          BY <1>6, <4>1, CommitInsert DEF Held
        <5>2. \A k \in JobId : View(o)'[k] = View(o)[k]
                                \/ (k = call[s].job /\ View(o)'[k] = db'[k])
          BY <1>6, <4>1, InsertedViews
        <5>. QED
          BY <5>1, <5>2 DEF Held
      <4>2. CASE call[s].pc = "reap commit"
        BY <1>6, <4>2, ReapCommitted DEF Quieter, Held
      <4>. QED
        BY <3>1, <4>1, <4>2
    <3>. QED
      BY <1>1, <1>2, <3>2, HeldKept
  <2>4. \A o \in Session \ {s} : call'[o] = call[o]
    BY <1>6 DEF Commit, End, Rows
  <2>. QED
    BY <1>3, <2>1, <2>2, <2>3, <2>4
<1>. QED
  BY <1>4, <1>5, <1>6, NextKinds

BacklogRoom ==
  MaxQueuedPerChannel > 0 /\ MaxRunningPerChannel > 0 =>
    \A s \in Session :
      call[s].pc \in {"insert", "insert commit"} /\ call[s].state = QUEUED =>
        Cardinality(BacklogIn(db, Job[call[s].job].channel))
          < MaxQueuedPerChannel + MaxRunningPerChannel

LEMMA BacklogFewer ==
  ASSUME NEW T, NEW U, NEW c, BacklogIn(U, c) \subseteq BacklogIn(T, c)
  PROVE  /\ Cardinality(BacklogIn(U, c)) <= Cardinality(BacklogIn(T, c))
         /\ Cardinality(BacklogIn(U, c)) \in Nat /\ Cardinality(BacklogIn(T, c)) \in Nat
<1>1. BacklogIn(T, c) \in SUBSET JobId /\ BacklogIn(U, c) \in SUBSET BacklogIn(T, c)
  BY DEF BacklogIn, InChannel
<1>. QED
  BY <1>1, CountSubset

(* A queue below its cap and held runs within theirs leave room for one.   *)
LEMMA BacklogHasRoom ==
  ASSUME NEW T, NEW j \in JobId, MaxQueuedPerChannel > 0, ~ChannelQueueFull(T, j),
         Cardinality(HeldIn(T, Job[j].channel)) <= MaxRunningPerChannel
  PROVE  Cardinality(BacklogIn(T, Job[j].channel)) < MaxQueuedPerChannel + MaxRunningPerChannel
<1>. DEFINE c == Job[j].channel
            Q == QueuedIn(T, c)
            H == HeldIn(T, c)
<1>1. /\ Q \in SUBSET JobId /\ H \in SUBSET JobId
      /\ BacklogIn(T, c) \in SUBSET (Q \cup H)
      /\ Q \cup H \in SUBSET JobId /\ Q \cap H \in SUBSET JobId
  BY DEF QueuedIn, HeldIn, Held, BacklogIn, InChannel, InState
<1>2. /\ IsFiniteSet(Q) /\ IsFiniteSet(H)
      /\ Cardinality(Q) \in Nat /\ Cardinality(H) \in Nat
      /\ Cardinality(Q \cup H) \in Nat /\ Cardinality(Q \cap H) \in Nat
  BY <1>1, CountSubset
<1>3. Cardinality(Q) < MaxQueuedPerChannel
  BY <1>2, CapsAssumption DEF ChannelQueueFull, AtCap
<1>4. Cardinality(Q \cup H) = Cardinality(Q) + Cardinality(H) - Cardinality(Q \cap H)
  BY <1>2, FS_Union
<1>5. Cardinality(BacklogIn(T, c)) <= Cardinality(Q \cup H) /\ Cardinality(BacklogIn(T, c)) \in Nat
  BY <1>1, CountSubset
<1>. HIDE DEF Q, H
<1>. QED
  BY <1>2, <1>3, <1>4, <1>5, CapsAssumption DEF H

LEMMA BacklogNext ==
  ASSUME Rows, Serialised, HeldCap, BacklogBoundIn(db), BacklogRoom, Next
  PROVE  BacklogBoundIn(db') /\ BacklogRoom'
<1>. SUFFICES ASSUME MaxQueuedPerChannel > 0, MaxRunningPerChannel > 0
              PROVE  BacklogBoundIn(db') /\ BacklogRoom'
  BY DEF BacklogBoundIn, BacklogRoom
<1>0. MaxQueuedPerChannel \in Nat /\ MaxRunningPerChannel \in Nat
  BY CapsAssumption
<1>1. ASSUME \A c : BacklogIn(db', c) \subseteq BacklogIn(db, c),
             \A o \in Session : call'[o] = call[o] \/ call'[o].pc = "idle"
      PROVE  BacklogBoundIn(db') /\ BacklogRoom'
  <2>1. BacklogBoundIn(db')
    BY <1>1, BacklogBoundKept
  <2>2. ASSUME NEW s \in Session, call'[s].pc \in {"insert", "insert commit"},
               call'[s].state = QUEUED
        PROVE  Cardinality(BacklogIn(db', Job[call'[s].job].channel))
                 < MaxQueuedPerChannel + MaxRunningPerChannel
    <3>1. call'[s] = call[s]
      BY <1>1, <2>2
    <3>2. Cardinality(BacklogIn(db, Job[call[s].job].channel))
            < MaxQueuedPerChannel + MaxRunningPerChannel
      BY <2>2, <3>1 DEF BacklogRoom
    <3>. QED
      BY <1>0, <1>1, <3>1, <3>2, BacklogFewer
  <2>. QED
    BY <2>1, <2>2 DEF BacklogRoom, BacklogIn
<1>2. CASE Update
  BY <1>1, <1>2 DEF Update, Quieter, BacklogIn, InChannel
<1>3. ASSUME NEW s \in Session, Inside(s)
      PROVE  BacklogBoundIn(db') /\ BacklogRoom'
  <2>1. db' = db /\ \A o \in Session \ {s} : call'[o] = call[o]
    BY <1>3, InsideRows
  <2>2. ASSUME call'[s].pc \in {"insert", "insert commit"}, call'[s].state = QUEUED
        PROVE  Cardinality(BacklogIn(db, Job[call'[s].job].channel))
                 < MaxQueuedPerChannel + MaxRunningPerChannel
    <3>1. /\ call'[s].pc \in InsertSteps
          /\ call'[s].pc \notin {"duplicate?", "job cap?", "channel cap?"}
      BY <2>2 DEF InsertSteps
    <3>2. /\ call'[s].job = call[s].job /\ call[s].state = QUEUED /\ call[s].job \in JobId
          /\ \/ ~ChannelRefuses(db, call[s].job, call[s].state)
             \/ call[s].pc = "insert"
      BY <1>3, <2>2, <3>1, InsertProgress
    <3>3. CASE ~ChannelRefuses(db, call[s].job, call[s].state)
      <4>1. ~ChannelQueueFull(db, call[s].job)
        BY <3>2, <3>3 DEF ChannelRefuses
      <4>2. Cardinality(HeldIn(db, Job[call[s].job].channel)) <= MaxRunningPerChannel
        BY <3>2, JobAssumption DEF HeldCap
      <4>. QED
        BY <3>2, <4>1, <4>2, BacklogHasRoom
    <3>4. CASE call[s].pc = "insert"
      BY <3>2, <3>4 DEF BacklogRoom
    <3>. QED
      BY <3>2, <3>3, <3>4
  <2>. QED
    BY <2>1, <2>2 DEF BacklogRoom
<1>4. ASSUME NEW s \in Session, Commit(s), call[s].pc \in ClaimSteps
      PROVE  BacklogBoundIn(db') /\ BacklogRoom'
  <2>1. \A c : BacklogIn(db', c) \subseteq BacklogIn(db, c)
    <3>1. db' = View(s)
      BY <1>4, CommitKinds
    <3>2. \A k \in JobId : /\ View(s)[k].state \in ACTIVE_STATES => db[k].state \in ACTIVE_STATES
                           /\ View(s)[k].mode = db[k].mode
      BY <1>4, ClaimView
    <3>. QED
      BY <3>1, <3>2 DEF BacklogIn, InChannel
  <2>. QED
    BY <1>1, <1>4, <2>1, UpdateOrCommitCalls
<1>5. ASSUME NEW s \in Session, Commit(s), call[s].pc = "insert commit"
      PROVE  BacklogBoundIn(db') /\ BacklogRoom'
  <2>1. \A o \in Session : call'[o] = call[o] \/ (call'[o].pc = "idle" /\ o = s)
    BY <1>5, UpdateOrCommitCalls
  <2>2. call[s].pc \in InsertSteps /\ call'[s].pc = "idle"
    BY <1>5, CommitKinds DEF Commit, End, Rows, Idle
  <2>3. \A o \in Session : call'[o].pc \notin InsertSteps
    BY <2>1, <2>2 DEF Serialised, AnyCap, InsertSteps
  <2>4. BacklogRoom'
    BY <2>3 DEF BacklogRoom, InsertSteps
  <2>5. CASE call[s].state = RUNNING
    <3>1. \A c : BacklogIn(db', c) \subseteq BacklogIn(db, c)
      <4>1. db'[call[s].job].mode = "dispatch"
        BY <1>5, <2>5, CommitInsert
      <4>2. \A k \in JobId \ {call[s].job} : db'[k] = db[k]
        BY <1>5, CommitInsert
      <4>. QED
        BY <4>1, <4>2 DEF BacklogIn, InChannel
    <3>. QED
      BY <2>4, <3>1, BacklogBoundKept
  <2>6. CASE call[s].state = QUEUED
    <3>. DEFINE j == call[s].job
    <3>1. j \in JobId /\ \A k \in JobId \ {j} : db'[k] = db[k]
      BY <1>5, CommitInsert
    <3>2. Cardinality(BacklogIn(db, Job[j].channel)) < MaxQueuedPerChannel + MaxRunningPerChannel
      BY <1>5, <2>6 DEF BacklogRoom
    <3>3. ASSUME NEW c \in Channel
          PROVE  Cardinality(BacklogIn(db', c)) <= MaxQueuedPerChannel + MaxRunningPerChannel
      <4>1. /\ BacklogIn(db, c) \in SUBSET JobId
            /\ BacklogIn(db', c) \in SUBSET (BacklogIn(db, c) \cup {j})
            /\ Job[j].channel # c => BacklogIn(db', c) \in SUBSET BacklogIn(db, c)
        BY <3>1 DEF BacklogIn, InChannel
      <4>2. /\ Cardinality(BacklogIn(db, c)) <= MaxQueuedPerChannel + MaxRunningPerChannel
            /\ Cardinality(BacklogIn(db, c)) \in Nat
        BY <4>1, CountSubset DEF BacklogBoundIn
      <4>3. CASE Job[j].channel = c
        BY <1>0, <3>1, <3>2, <4>1, <4>2, <4>3, CountOneMore
      <4>4. CASE Job[j].channel # c
        BY <1>0, <4>1, <4>2, <4>4, CountSubset
      <4>. QED
        BY <4>3, <4>4
    <3>. QED
      BY <2>4, <3>3 DEF BacklogBoundIn
  <2>. QED
    BY <1>5, <2>5, <2>6, CommitInsert
<1>6. ASSUME NEW s \in Session, Commit(s), call[s].pc = "reap commit"
      PROVE  BacklogBoundIn(db') /\ BacklogRoom'
  <2>1. \A c : BacklogIn(db', c) \subseteq BacklogIn(db, c)
    BY <1>6, ReapCommitted DEF BacklogIn, InChannel, Quieter
  <2>. QED
    BY <1>1, <1>6, <2>1, UpdateOrCommitCalls
<1>. QED
  BY <1>2, <1>3, <1>4, <1>5, <1>6, NextKinds, CommitKinds
-----------------------------------------------------------------------------
(* The running cap.  A dispatch counts under the insert lock and a claim   *)
(* under the claim lock, each without the other's row: while a dispatch is *)
(* past its check neither the table nor the open claim is over the cap, so *)
(* whichever commits last exceeds it by one run at most.                   *)
Dispatching(s, c) ==
  /\ call[s].pc \in {"insert", "insert commit"} /\ call[s].state = RUNNING
  /\ Job[call[s].job].channel = c

RunningRoom ==
  MaxRunningPerChannel > 0 => \A c \in Channel :
    /\ Cardinality(BusyIn(db, c)) <= MaxRunningPerChannel + 1
    /\ \A s \in Session : call[s].pc \in ClaimSteps =>
         Cardinality(BusyIn(View(s), c)) <= MaxRunningPerChannel + 1
    /\ \A d \in Session : Dispatching(d, c) =>
         /\ Cardinality(BusyIn(db, c)) <= MaxRunningPerChannel
         /\ \A s \in Session : call[s].pc \in ClaimSteps =>
              Cardinality(BusyIn(View(s), c)) <= MaxRunningPerChannel

LEMMA BusyFewer ==
  ASSUME NEW T, NEW U, NEW c,
         \A k \in InChannel(c) : U[k].state \in BUSY_STATES => T[k].state \in BUSY_STATES
  PROVE  /\ Cardinality(BusyIn(U, c)) <= Cardinality(BusyIn(T, c))
         /\ Cardinality(BusyIn(U, c)) \in Nat /\ Cardinality(BusyIn(T, c)) \in Nat
<1>1. BusyIn(T, c) \in SUBSET JobId /\ BusyIn(U, c) \in SUBSET BusyIn(T, c)
  BY DEF BusyIn, InChannel, InState
<1>. QED
  BY <1>1, CountSubset

LEMMA BusyOneMore ==
  ASSUME NEW T, NEW U, NEW c, NEW j \in JobId,
         \A k \in JobId \ {j} : U[k].state \in BUSY_STATES => T[k].state \in BUSY_STATES
  PROVE  /\ Cardinality(BusyIn(U, c)) <= Cardinality(BusyIn(T, c)) + 1
         /\ Cardinality(BusyIn(U, c)) \in Nat /\ Cardinality(BusyIn(T, c)) \in Nat
<1>1. BusyIn(T, c) \in SUBSET JobId /\ BusyIn(U, c) \in SUBSET (BusyIn(T, c) \cup {j})
  BY DEF BusyIn, InChannel, InState
<1>. QED
  BY <1>1, CountOneMore, CountSubset

(* A pick where the channel was not busy leaves it within its cap, and no  *)
(* other channel is touched.                                               *)
LEMMA BusyTaken ==
  ASSUME NEW T, NEW U, NEW c, NEW j \in JobId, NEW n \in Nat,
         MaxRunningPerChannel > 0, MaxRunningPerChannel <= n,
         ~ChannelBusy(T, j), Cardinality(BusyIn(T, c)) <= n,
         \A k \in JobId \ {j} : U[k] = T[k]
  PROVE  Cardinality(BusyIn(U, c)) <= n
<1>1. CASE Job[j].channel = c
  <2>1. /\ Cardinality(BusyIn(U, c)) <= Cardinality(BusyIn(T, c)) + 1
        /\ Cardinality(BusyIn(U, c)) \in Nat /\ Cardinality(BusyIn(T, c)) \in Nat
    BY BusyOneMore
  <2>2. ~(Cardinality(BusyIn(T, c)) >= MaxRunningPerChannel)
    BY <1>1 DEF ChannelBusy, AtCap
  <2>. QED
    BY <2>1, <2>2, CapsAssumption
<1>2. CASE Job[j].channel # c
  <2>1. \A k \in InChannel(c) : U[k].state \in BUSY_STATES => T[k].state \in BUSY_STATES
    BY <1>2 DEF InChannel
  <2>. QED
    BY <2>1, BusyFewer
<1>. QED
  BY <1>1, <1>2

LEMMA RunningUpdate ==
  ASSUME Rows, RunningRoom, Update, Rows'
  PROVE  RunningRoom'
<1>. SUFFICES ASSUME MaxRunningPerChannel > 0, NEW c \in Channel
              PROVE  /\ Cardinality(BusyIn(db', c)) <= MaxRunningPerChannel + 1
                     /\ \A s \in Session : call[s].pc \in ClaimSteps =>
                          Cardinality(BusyIn(View(s)', c)) <= MaxRunningPerChannel + 1
                     /\ \A d \in Session : Dispatching(d, c) =>
                          /\ Cardinality(BusyIn(db', c)) <= MaxRunningPerChannel
                          /\ \A s \in Session : call[s].pc \in ClaimSteps =>
                               Cardinality(BusyIn(View(s)', c)) <= MaxRunningPerChannel
  BY DEF RunningRoom, Update, Dispatching, BusyIn, InState
<1>1. /\ Cardinality(BusyIn(db', c)) <= Cardinality(BusyIn(db, c))
      /\ Cardinality(BusyIn(db', c)) \in Nat /\ Cardinality(BusyIn(db, c)) \in Nat
  BY BusyFewer DEF Update, Quieter, InChannel
<1>2. ASSUME NEW s \in Session
      PROVE  /\ Cardinality(BusyIn(View(s)', c)) <= Cardinality(BusyIn(View(s), c))
             /\ Cardinality(BusyIn(View(s)', c)) \in Nat
             /\ Cardinality(BusyIn(View(s), c)) \in Nat
  <2>1. Quieter(View(s), View(s)')
    BY UpdateViews
  <2>. QED
    BY <2>1, BusyFewer DEF Quieter, InChannel
<1>. QED
  BY <1>1, <1>2, CapsAssumption DEF RunningRoom

(* What a claim sees stays under a bound that holds of the table.          *)
LEMMA ClaimStaysUnder ==
  ASSUME Rows, NEW s \in Session, Inside(s), call'[s].pc \in ClaimSteps, NEW c,
         MaxRunningPerChannel > 0, NEW n \in Nat, MaxRunningPerChannel <= n,
         Cardinality(BusyIn(db, c)) <= n,
         call[s].pc \in ClaimSteps => Cardinality(BusyIn(View(s), c)) <= n
  PROVE  Cardinality(BusyIn(View(s)', c)) <= n
<1>1. CASE View(s)' = db
  BY <1>1
<1>2. CASE call[s].pc \in ClaimSteps /\ Quieter(View(s), View(s)')
  <2>1. Cardinality(BusyIn(View(s)', c)) <= Cardinality(BusyIn(View(s), c))
        /\ Cardinality(BusyIn(View(s)', c)) \in Nat /\ Cardinality(BusyIn(View(s), c)) \in Nat
    BY <1>2, BusyFewer DEF Quieter, InChannel
  <2>. QED
    BY <1>2, <2>1
<1>3. ASSUME call[s].pc \in ClaimSteps, NEW j \in JobId, ~ChannelBusy(View(s), j),
             \A k \in JobId \ {j} : View(s)'[k] = View(s)[k]
      PROVE  Cardinality(BusyIn(View(s)', c)) <= n
  BY <1>3, BusyTaken
<1>. QED
  BY <1>1, <1>2, <1>3, ClaimProgress

LEMMA RunningInside ==
  ASSUME Rows, RunningRoom, NEW s \in Session, Inside(s)
  PROVE  RunningRoom'
<1>. SUFFICES ASSUME MaxRunningPerChannel > 0, NEW c \in Channel
              PROVE  /\ Cardinality(BusyIn(db', c)) <= MaxRunningPerChannel + 1
                     /\ \A o \in Session : call'[o].pc \in ClaimSteps =>
                          Cardinality(BusyIn(View(o)', c)) <= MaxRunningPerChannel + 1
                     /\ \A d \in Session : Dispatching(d, c)' =>
                          /\ Cardinality(BusyIn(db', c)) <= MaxRunningPerChannel
                          /\ \A o \in Session : call'[o].pc \in ClaimSteps =>
                               Cardinality(BusyIn(View(o)', c)) <= MaxRunningPerChannel
  BY DEF RunningRoom, Dispatching, BusyIn, InState
<1>0. MaxRunningPerChannel \in Nat /\ MaxRunningPerChannel + 1 \in Nat
  BY CapsAssumption
<1>1. /\ db' = db
      /\ \A o \in Session \ {s} : call'[o] = call[o] /\ View(o)' = View(o)
  BY InsideRows DEF View
<1>2. /\ Cardinality(BusyIn(db, c)) <= MaxRunningPerChannel + 1
      /\ \A o \in Session : call[o].pc \in ClaimSteps =>
           Cardinality(BusyIn(View(o), c)) <= MaxRunningPerChannel + 1
  BY DEF RunningRoom
<1>3. ASSUME call'[s].pc \in ClaimSteps
      PROVE  Cardinality(BusyIn(View(s)', c)) <= MaxRunningPerChannel + 1
  BY <1>0, <1>2, <1>3, ClaimStaysUnder
<1>4. ASSUME NEW d \in Session, Dispatching(d, c)
      PROVE  /\ Cardinality(BusyIn(db, c)) <= MaxRunningPerChannel
             /\ \A o \in Session : call'[o].pc \in ClaimSteps =>
                  Cardinality(BusyIn(View(o)', c)) <= MaxRunningPerChannel
  <2>1. /\ Cardinality(BusyIn(db, c)) <= MaxRunningPerChannel
        /\ \A o \in Session : call[o].pc \in ClaimSteps =>
             Cardinality(BusyIn(View(o), c)) <= MaxRunningPerChannel
    BY <1>4 DEF RunningRoom
  <2>2. call'[s].pc \in ClaimSteps => Cardinality(BusyIn(View(s)', c)) <= MaxRunningPerChannel
    BY <1>0, <2>1, ClaimStaysUnder
  <2>. QED
    BY <1>1, <2>1, <2>2
<1>5. ASSUME Dispatching(s, c)', ~Dispatching(s, c)
      PROVE  /\ Cardinality(BusyIn(db, c)) <= MaxRunningPerChannel
             /\ \A o \in Session : call'[o].pc \in ClaimSteps =>
                  Cardinality(BusyIn(View(o)', c)) <= MaxRunningPerChannel
  <2>1. /\ call'[s].pc \in {"insert", "insert commit"} /\ call'[s].state = RUNNING
        /\ Job[call'[s].job].channel = c
    BY <1>5 DEF Dispatching
  <2>2. call'[s].pc \in InsertSteps /\ call'[s].pc \notin {"duplicate?", "job cap?", "channel cap?"}
    BY <2>1 DEF InsertSteps
  <2>3. ~ChannelRefuses(db, call'[s].job, RUNNING)
    BY <1>5, <2>1, <2>2, InsertProgress DEF Dispatching
  <2>4. ~ChannelBusy(db, call'[s].job)
    BY <2>3 DEF ChannelRefuses
  <2>5. ~(Cardinality(BusyIn(db, c)) >= MaxRunningPerChannel)
    BY <2>1, <2>4 DEF ChannelBusy, AtCap
  <2>6. Cardinality(BusyIn(db, c)) \in Nat
    BY BusyFewer
  <2>7. call'[s].pc \notin ClaimSteps
    BY <2>1 DEF ClaimSteps
  <2>8. ASSUME NEW o \in Session, o # s, call'[o].pc \in ClaimSteps
        PROVE  Cardinality(BusyIn(View(o)', c)) <= MaxRunningPerChannel
    <3>1. View(o)' = View(o) /\ call[o].pc \in ClaimSteps
      BY <1>1, <2>8
    <3>2. CASE Quieter(db, View(o))
      <4>1. Cardinality(BusyIn(View(o), c)) <= Cardinality(BusyIn(db, c))
            /\ Cardinality(BusyIn(View(o), c)) \in Nat
        BY <3>2, BusyFewer DEF Quieter, InChannel
      <4>. QED
        BY <1>0, <2>5, <2>6, <3>1, <4>1
    <3>3. ASSUME NEW i \in JobId, \A k \in JobId \ {i} :
                   View(o)[k].state \in BUSY_STATES => db[k].state \in BUSY_STATES
          PROVE  Cardinality(BusyIn(View(o)', c)) <= MaxRunningPerChannel
      <4>1. Cardinality(BusyIn(View(o), c)) <= Cardinality(BusyIn(db, c)) + 1
            /\ Cardinality(BusyIn(View(o), c)) \in Nat
        BY <3>3, BusyOneMore
      <4>. QED
        BY <1>0, <2>5, <2>6, <3>1, <4>1
    <3>. QED
      BY <3>1, <3>2, <3>3, ClaimView
  <2>. QED
    BY <1>0, <2>5, <2>6, <2>7, <2>8
<1>6. ASSUME NEW d \in Session, Dispatching(d, c)'
      PROVE  Dispatching(d, c) \/ d = s
  BY <1>1, <1>6 DEF Dispatching
<1>. QED
  BY <1>1, <1>2, <1>3, <1>4, <1>5, <1>6

LEMMA RunningCommit ==
  ASSUME Rows, Serialised, RunningRoom, NEW s \in Session, Commit(s)
  PROVE  RunningRoom'
<1>. SUFFICES ASSUME MaxRunningPerChannel > 0, NEW c \in Channel
              PROVE  /\ Cardinality(BusyIn(db', c)) <= MaxRunningPerChannel + 1
                     /\ \A o \in Session : call'[o].pc \in ClaimSteps =>
                          Cardinality(BusyIn(View(o)', c)) <= MaxRunningPerChannel + 1
                     /\ \A d \in Session : Dispatching(d, c)' =>
                          /\ Cardinality(BusyIn(db', c)) <= MaxRunningPerChannel
                          /\ \A o \in Session : call'[o].pc \in ClaimSteps =>
                               Cardinality(BusyIn(View(o)', c)) <= MaxRunningPerChannel
  BY DEF RunningRoom, Dispatching, BusyIn, InState
<1>0. MaxRunningPerChannel \in Nat
  BY CapsAssumption
<1>1. /\ call'[s].pc = "idle" /\ "idle" \notin ClaimSteps /\ "idle" \notin InsertSteps
      /\ \A o \in Session \ {s} : call'[o] = call[o]
  BY DEF Commit, End, Rows, Idle, ClaimSteps, InsertSteps
<1>2. \A d \in Session : Dispatching(d, c)' => d # s /\ Dispatching(d, c)
                                              /\ call'[d].pc \in InsertSteps
  BY <1>1 DEF Dispatching, InsertSteps
<1>3. CASE call[s].pc \in ClaimSteps
  <2>1. db' = View(s)
    BY CommitKinds
  <2>2. \A o \in Session : call'[o].pc \notin ClaimSteps
    BY <1>1, <1>3 DEF Serialised
  <2>. QED
    BY <1>2, <1>3, <2>1, <2>2 DEF RunningRoom
<1>4. CASE call[s].pc = "insert commit"
  <2>. DEFINE j == call[s].job
  <2>1. /\ j \in JobId /\ call[s].state \in {QUEUED, RUNNING}
        /\ \A k \in JobId \ {j} : db'[k] = db[k]
        /\ db'[j].state = call[s].state
    BY <1>4, CommitInsert
  <2>2. \A d \in Session : ~Dispatching(d, c)'
    <3>1. call[s].pc \in InsertSteps
      BY <1>4 DEF InsertSteps
    <3>. QED
      BY <1>1, <1>2, <3>1 DEF Serialised, AnyCap
  <2>3. ASSUME NEW o \in Session \ {s}
        PROVE  \A k \in JobId : \/ View(o)'[k] = View(o)[k]
                                \/ (k = j /\ View(o)'[k] = db'[k])
    BY <1>4, InsertedViews
  <2>4. CASE call[s].state = RUNNING /\ Job[j].channel = c
    <3>1. /\ Cardinality(BusyIn(db, c)) <= MaxRunningPerChannel
          /\ \A o \in Session : call[o].pc \in ClaimSteps =>
               Cardinality(BusyIn(View(o), c)) <= MaxRunningPerChannel
      BY <1>4, <2>4 DEF RunningRoom, Dispatching
    <3>2. /\ Cardinality(BusyIn(db', c)) <= Cardinality(BusyIn(db, c)) + 1
          /\ Cardinality(BusyIn(db', c)) \in Nat /\ Cardinality(BusyIn(db, c)) \in Nat
      BY <2>1, BusyOneMore
    <3>3. ASSUME NEW o \in Session \ {s}
          PROVE  /\ Cardinality(BusyIn(View(o)', c)) <= Cardinality(BusyIn(View(o), c)) + 1
                 /\ Cardinality(BusyIn(View(o)', c)) \in Nat
                 /\ Cardinality(BusyIn(View(o), c)) \in Nat
      <4>1. \A k \in JobId \ {j} :
              View(o)'[k].state \in BUSY_STATES => View(o)[k].state \in BUSY_STATES
        BY <2>3
      <4>. QED
        BY <2>1, <4>1, BusyOneMore
    <3>. QED
      BY <1>0, <1>1, <2>2, <3>1, <3>2, <3>3
  <2>5. CASE ~(call[s].state = RUNNING /\ Job[j].channel = c)
    <3>1. \A k \in InChannel(c) : db'[k].state \in BUSY_STATES =>
                                  k # j /\ db[k].state \in BUSY_STATES
      BY <2>1, <2>5 DEF InChannel
    <3>2. /\ Cardinality(BusyIn(db', c)) <= Cardinality(BusyIn(db, c))
          /\ Cardinality(BusyIn(db', c)) \in Nat /\ Cardinality(BusyIn(db, c)) \in Nat
      BY <3>1, BusyFewer
    <3>3. ASSUME NEW o \in Session \ {s}
          PROVE  /\ Cardinality(BusyIn(View(o)', c)) <= Cardinality(BusyIn(View(o), c))
                 /\ Cardinality(BusyIn(View(o)', c)) \in Nat
                 /\ Cardinality(BusyIn(View(o), c)) \in Nat
      <4>1. \A k \in InChannel(c) :
              View(o)'[k].state \in BUSY_STATES => View(o)[k].state \in BUSY_STATES
        BY <2>3, <3>1 DEF InChannel
      <4>. QED
        BY <4>1, BusyFewer
    <3>4. /\ Cardinality(BusyIn(db, c)) <= MaxRunningPerChannel + 1
          /\ \A o \in Session : call[o].pc \in ClaimSteps =>
               Cardinality(BusyIn(View(o), c)) <= MaxRunningPerChannel + 1
      BY DEF RunningRoom
    <3>. QED
      BY <1>0, <1>1, <2>2, <3>2, <3>3, <3>4
  <2>. QED
    BY <2>4, <2>5
<1>5. CASE call[s].pc = "reap commit"
  <2>1. /\ Cardinality(BusyIn(db', c)) <= Cardinality(BusyIn(db, c))
        /\ Cardinality(BusyIn(db', c)) \in Nat /\ Cardinality(BusyIn(db, c)) \in Nat
    BY <1>5, ReapCommitted, BusyFewer DEF Quieter, InChannel
  <2>2. ASSUME NEW o \in Session \ {s}
        PROVE  /\ Cardinality(BusyIn(View(o)', c)) <= Cardinality(BusyIn(View(o), c))
               /\ Cardinality(BusyIn(View(o)', c)) \in Nat
               /\ Cardinality(BusyIn(View(o), c)) \in Nat
    <3>1. Quieter(View(o), View(o)')
      BY <1>5, ReapCommitted
    <3>. QED
      BY <3>1, BusyFewer DEF Quieter, InChannel
  <2>3. /\ Cardinality(BusyIn(db, c)) <= MaxRunningPerChannel + 1
        /\ \A o \in Session : call[o].pc \in ClaimSteps =>
             Cardinality(BusyIn(View(o), c)) <= MaxRunningPerChannel + 1
        /\ \A d \in Session : Dispatching(d, c) =>
             /\ Cardinality(BusyIn(db, c)) <= MaxRunningPerChannel
             /\ \A o \in Session : call[o].pc \in ClaimSteps =>
                  Cardinality(BusyIn(View(o), c)) <= MaxRunningPerChannel
    BY DEF RunningRoom
  <2>. QED
    BY <1>0, <1>1, <1>2, <2>1, <2>2, <2>3
<1>. QED
  BY <1>3, <1>4, <1>5, CommitKinds
-----------------------------------------------------------------------------
(* The inductive invariant: the rows, the locks, and each cap with what    *)
(* the open transactions may still rely on.                                *)
Safe ==
  /\ Rows
  /\ Serialised
  /\ JobCapIn(db) /\ JobRoom
  /\ HeldCap
  /\ BacklogBoundIn(db) /\ BacklogRoom
  /\ RunningRoom

LEMMA InitSafe == Init => Safe
<1>. SUFFICES ASSUME Init
              PROVE  Safe
  OBVIOUS
<1>1. Rows
  BY InitRows
<1>2. \A s \in Session : call[s].pc = "idle" /\ View(s) = db
  <2>1. \A s \in Session : call[s].pc = "idle" /\ DOMAIN mine[s] = {}
    BY DEF Init, Idle, NoRows
  <2>. QED
    BY <1>1, <2>1, EmptyView
<1>3. \A j \in JobId : db[j].state = ABSENT
  BY DEF Init, EmptyTable, NoRow
<1>4. /\ \A j \in JobId : ActiveOf(db, j) = {}
      /\ \A c \in Channel : BusyIn(db, c) = {} /\ BacklogIn(db, c) = {} /\ HeldIn(db, c) = {}
  BY <1>3 DEF ActiveOf, BusyIn, BacklogIn, HeldIn, Held, InChannel, InState
<1>5. Cardinality({}) = 0
  BY FS_EmptySet
<1>6. Serialised /\ JobRoom /\ BacklogRoom
  BY <1>2 DEF Serialised, JobRoom, BacklogRoom, InsertSteps, ClaimSteps
<1>7. JobCapIn(db) /\ BacklogBoundIn(db)
  BY <1>4, <1>5, CapsAssumption DEF JobCapIn, BacklogBoundIn
<1>8. HeldCap
  <2>1. \A s \in Session, c \in Channel : HeldIn(View(s), c) = HeldIn(db, c)
    BY <1>2
  <2>2. \A c \in Channel : Cardinality(HeldIn(db, c)) = 0
    BY <1>4, <1>5
  <2>. QED
    BY <2>1, <2>2, CapsAssumption DEF HeldCap
<1>9. RunningRoom
  <2>1. \A s \in Session : call[s].pc \notin ClaimSteps /\ \A c : ~Dispatching(s, c)
    BY <1>2 DEF Dispatching, ClaimSteps
  <2>2. \A c \in Channel : Cardinality(BusyIn(db, c)) = 0
    BY <1>4, <1>5
  <2>. QED
    BY <2>1, <2>2, CapsAssumption DEF RunningRoom
<1>. QED
  BY <1>1, <1>6, <1>7, <1>8, <1>9 DEF Safe

LEMMA NextSafe == Safe /\ [Next]_vars => Safe'
<1>1. ASSUME Safe, Next
      PROVE  Safe'
  <2>1. Rows' /\ Serialised'
    BY <1>1, NextKinds, SerialisedNext DEF Safe
  <2>2. JobCapIn(db') /\ JobRoom'
    BY <1>1, JobCapNext DEF Safe
  <2>3. HeldCap'
    BY <1>1, HeldCapNext DEF Safe
  <2>4. BacklogBoundIn(db') /\ BacklogRoom'
    BY <1>1, BacklogNext DEF Safe
  <2>5. RunningRoom'
    BY <1>1, <2>1, NextKinds, RunningUpdate, RunningInside, RunningCommit DEF Safe
  <2>. QED
    BY <2>1, <2>2, <2>3, <2>4, <2>5
       DEF Safe, JobCapIn, ActiveOf, InState, BacklogBoundIn, BacklogIn
<1>2. ASSUME Safe, UNCHANGED vars
      PROVE  Safe'
  <2>1. Rows'
    BY <1>2, RowsStutter DEF Safe
  <2>2. db' = db /\ call' = call /\ mine' = mine
    BY <1>2 DEF vars
  <2>3. Serialised' /\ JobCapIn(db)' /\ JobRoom' /\ BacklogBoundIn(db)' /\ BacklogRoom'
    BY <1>2, <2>2
       DEF Safe, Serialised, JobCapIn, JobRoom, JobAtCapacity, AtCap, ActiveOf, InState,
           BacklogBoundIn, BacklogRoom, BacklogIn
  <2>4. \A s \in Session : View(s)' = View(s)
    BY <2>2 DEF View
  <2>5. HeldCap'
    BY <1>2, <2>2, <2>4 DEF Safe, HeldCap, HeldIn, Held
  <2>6. RunningRoom'
    BY <1>2, <2>2, <2>4 DEF Safe, RunningRoom, Dispatching, BusyIn, InState
  <2>. QED
    BY <2>1, <2>3, <2>5, <2>6 DEF Safe
<1>. QED
  BY <1>1, <1>2

LEMMA AlwaysSafe == Spec => []Safe
BY InitSafe, NextSafe, PTL DEF Spec

(* The per-job cap holds although the count and the insert it lets through *)
(* are separate statements.                                                *)
THEOREM JobCapAlways == Spec => []JobCap
<1>1. Safe => JobCap
  BY DEF Safe, JobCap
<1>. QED
  BY <1>1, AlwaysSafe, PTL

(* What waits in a channel and what test servers hold of it stay within    *)
(* both caps together.                                                     *)
THEOREM BacklogBoundAlways == Spec => []BacklogBound
<1>1. Safe => BacklogBound
  BY DEF Safe, BacklogBound
<1>. QED
  BY <1>1, AlwaysSafe, PTL

(* A claim and a dispatch may act on the same count, no two of a kind do:  *)
(* a channel is never more than one run over its running cap.              *)
THEOREM RunningCapWithinOneAlways == Spec => []RunningCapWithinOne
<1>1. Safe => RunningCapWithinOne
  BY DEF Safe, RunningRoom, RunningCapWithinOne
<1>. QED
  BY <1>1, AlwaysSafe, PTL
-----------------------------------------------------------------------------
(* The committed table implements JobLifecycle: a commit is one step of it *)
(* whatever statements led to it, and so is an UPDATE.  Only the rows are  *)
(* needed, none of the advisory locks.                                     *)
LEMMA Primed ==
  /\ PhaseIn(db)' = PhaseIn(db') /\ HolderIn(db)' = HolderIn(db')
  /\ TriesIn(db)' = TriesIn(db')
BY DEF PhaseIn, HolderIn, HolderOf, TriesIn, PhaseOf

LEMMA NewRowIsAccept ==
  ASSUME Rows, Rows', NEW j \in JobId, db[j].state = ABSENT,
         db'[j].state \in {QUEUED, RUNNING}, db'[j].runner = NULL, db'[j].attempts = 0,
         \A k \in JobId \ {j} : db'[k] = db[k]
  PROVE  Lifecycle!Accept(j)
<1>1. SoundRows(db) /\ SoundRows(db')
  BY DEF Rows
<1>. QED
  BY <1>1, AcceptedPhase, Primed DEF Lifecycle!Accept

(* The rows E taken back, and nothing else.                                *)
LEMMA ReapedIsTakeBack ==
  ASSUME Rows, Rows', NEW E \in SUBSET Expired(db),
         \A k \in JobId : db'[k] = IF k \in E THEN Reaped(db)[k] ELSE db[k]
  PROVE  Lifecycle!TakeBack(E)
<1>1. SoundRows(db) /\ SoundRows(db')
  BY DEF Rows
<1>. QED
  BY <1>1, TakenBackPhases, Primed DEF Lifecycle!TakeBack, Lifecycle!TakenBack

(* The rows E taken back and, out of those and the rest, i handed to r.    *)
LEMMA ClaimedIsHandOut ==
  ASSUME Rows, NEW E \in SUBSET Expired(db), NEW i \in JobId, NEW r \in Runner,
         i \notin E => i \notin Expired(db),
         Reaped(db)[i].state = QUEUED, db'[i] = Claimed(Reaped(db), i, r)[i],
         \A k \in JobId \ {i} : db'[k] = IF k \in E THEN Reaped(db)[k] ELSE db[k]
  PROVE  Lifecycle!HandOut(E, i, r)
<1>. DEFINE V == [k \in JobId |-> IF k \in E THEN Reaped(db)[k] ELSE db[k]]
<1>1. SoundRows(db) /\ SoundRows(Reaped(db))
  BY ReapedRows DEF Rows, Reaped
<1>2. SoundRows(V)
  BY <1>1 DEF SoundRows
<1>3. V[i] = Reaped(db)[i]
  BY <1>1, ReapedRow
<1>4. \A k \in JobId : V[k] = IF k \in E THEN Reaped(db)[k] ELSE db[k]
  OBVIOUS
<1>5. db'[i] = Claimed(V, i, r)[i]
  <2>1. V \in [JobId -> GoodRow] /\ Reaped(db) \in [JobId -> GoodRow]
    BY <1>1, <1>2 DEF SoundRows
  <2>. HIDE DEF V
  <2>. QED
    BY <1>3, <2>1 DEF Claimed
<1>6. \A k \in JobId \ {i} : db'[k] = V[k]
  OBVIOUS
<1>. HIDE DEF V
<1>7. /\ \A e \in E : e \in JobId /\ PhaseIn(db)[e] = "held"
      /\ PhaseIn(V) = Lifecycle!TakenBack(E)
      /\ HolderIn(V) = [k \in JobId |-> IF k \in E THEN NULL ELSE HolderIn(db)[k]]
      /\ TriesIn(V) = TriesIn(db)
  BY <1>1, <1>2, <1>4, TakenBackPhases DEF Lifecycle!TakenBack
<1>8. /\ PhaseIn(V)[i] = "waiting"
      /\ PhaseIn(db') = [PhaseIn(V) EXCEPT ![i] = "held"]
      /\ HolderIn(db') = [HolderIn(V) EXCEPT ![i] = r]
      /\ TriesIn(db') = [TriesIn(V) EXCEPT ![i] = TriesIn(V)[i] + 1]
  BY <1>2, <1>3, <1>5, <1>6, HandedOutPhase
<1>9. HolderIn(db') = [k \in JobId |-> IF k = i THEN r
                                      ELSE IF k \in E THEN NULL ELSE HolderIn(db)[k]]
  BY <1>7, <1>8
<1>. QED
  BY <1>7, <1>8, <1>9, Primed DEF Lifecycle!HandOut

LEMMA InsertCommits ==
  ASSUME Rows, Rows', NEW s \in Session, Commit(s), call[s].pc = "insert commit",
         NEW j \in JobId, j = call[s].job
  PROVE  Lifecycle!Accept(j)
<1>1. /\ db[j].state = ABSENT /\ db'[j].state \in {QUEUED, RUNNING}
      /\ \A k \in JobId \ {j} : db'[k] = db[k]
      /\ db'[j].state = RUNNING => db'[j].mode = "dispatch"
  BY CommitInsert
<1>2. db'[j].runner = NULL
  BY <1>1 DEF Rows, SoundRows, GoodRow
<1>3. db'[j].attempts = 0
  BY <1>1 DEF Rows, Written, InsertedBy, Commit, View
<1>. QED
  BY <1>1, <1>2, <1>3, NewRowIsAccept

(* What a claim reaped and the run it picked, if any, are one step.        *)
LEMMA ClaimCommits ==
  ASSUME Rows, Rows', NEW s \in Session, Commit(s),
         call[s].pc \in {"claim commit", "reap commit"}
  PROVE  Lifecycle!Next
<1>1. PICK E : E = DOMAIN mine[s] \cap Expired(db)
  OBVIOUS
<1>2. E \in SUBSET JobId /\ E \in SUBSET Expired(db)
  BY <1>1 DEF Expired, InState
<1>3. \A k \in JobId : db'[k] = IF k \in DOMAIN mine[s] THEN mine[s][k] ELSE db[k]
  BY DEF Commit, View
<1>4. /\ \A k \in DOMAIN mine[s] : k \in JobId /\ (ReapedBy(s, k) \/ ClaimedBy(s, k))
      /\ \A k, l \in DOMAIN mine[s] :
           mine[s][k].state = CLAIMED /\ mine[s][l].state = CLAIMED => k = l
  BY DEF Rows, Written
<1>5. ASSUME NEW k \in JobId, k \in DOMAIN mine[s] => ReapedBy(s, k)
      PROVE  db'[k] = IF k \in E THEN Reaped(db)[k] ELSE db[k]
  BY <1>1, <1>3, <1>5 DEF ReapedBy
<1>6. CASE \A k \in DOMAIN mine[s] : ReapedBy(s, k)
  <2>1. Lifecycle!TakeBack(E)
    BY <1>2, <1>5, <1>6, ReapedIsTakeBack
  <2>. QED
    BY <1>2, <2>1 DEF Lifecycle!Next
<1>7. ASSUME call[s].pc = "claim commit", NEW i \in DOMAIN mine[s], ClaimedBy(s, i)
      PROVE  Lifecycle!Next
  <2>1. PICK r \in Runner : r = call[s].runner
    <3>1. call[s] \in Call
      BY DEF Rows
    <3>. QED
      BY <1>7, <3>1 DEF Call, InsertSteps, ReapSteps
  <2>2. ASSUME NEW k \in DOMAIN mine[s], ClaimedBy(s, k)
        PROVE  mine[s][k].state = CLAIMED
    <3>1. SoundRows(Reaped(db))
      BY ReapedRows DEF Rows, Reaped
    <3>. QED
      BY <1>4, <2>2, <3>1 DEF ClaimedBy, Claimed, SoundRows, GoodRow, Row
  <2>3. \A k \in JobId \ {i} : k \in DOMAIN mine[s] => ReapedBy(s, k)
    BY <1>4, <1>7, <2>2
  <2>4. /\ i \notin E => i \notin Expired(db)
        /\ Reaped(db)[i].state = QUEUED /\ db'[i] = Claimed(Reaped(db), i, r)[i]
    BY <1>1, <1>3, <1>4, <1>7, <2>1 DEF ClaimedBy
  <2>5. i \in JobId
    BY <1>4
  <2>6. Lifecycle!HandOut(E, i, r)
    BY <1>2, <1>5, <2>3, <2>4, <2>5, ClaimedIsHandOut
  <2>. QED
    BY <1>2, <2>5, <2>6 DEF Lifecycle!Next
<1>8. call[s].pc = "reap commit" => \A k \in DOMAIN mine[s] : ReapedBy(s, k)
  BY DEF Rows, Written
<1>. QED
  BY <1>4, <1>6, <1>7, <1>8

LEMMA UpdateImplements ==
  ASSUME Rows, Rows',
         \/ \E j \in JobId, r \in Runner :
              MarkRunning(j, r) \/ \E passed \in BOOLEAN : Finish(j, r, passed)
         \/ \E j \in JobId : MarkNotDispatched(j)
         \/ \E r \in Runner : Renew(r)
         \/ Tick
  PROVE  [Lifecycle!Next]_(Lifecycle!lifecycle)
<1>0. SoundRows(db) /\ SoundRows(db') /\ db \in [JobId -> Row]
  BY DEF Rows, SoundRows, GoodRow
<1>1. ASSUME NEW j \in JobId, NEW r \in Runner, NEW passed \in BOOLEAN, Finish(j, r, passed)
      PROVE  Lifecycle!Report(j)
  <2>1. /\ db[j].state \in BUSY_STATES /\ db[j].runner # NULL
        /\ \A k \in JobId \ {j} : db'[k] = db[k]
        /\ db'[j].state \in {DONE, FAILED} /\ db'[j].attempts = db[j].attempts
    BY <1>0, <1>1, NullAssumption DEF Finish, CanFinish, AutoCommit, Finished, Row
  <2>. QED
    BY <1>0, <2>1, ReportedPhase, Primed DEF Lifecycle!Report
<1>2. ASSUME NEW j \in JobId, MarkNotDispatched(j)
      PROVE  Lifecycle!NeverDispatched(j)
  <2>1. /\ db[j].state \in {QUEUED, RUNNING} /\ db[j].runner = NULL
        /\ \A k \in JobId \ {j} : db'[k] = db[k]
        /\ db'[j].state = NOT_DISPATCHED /\ db'[j].attempts = db[j].attempts
    BY <1>0, <1>2 DEF MarkNotDispatched, CanMarkNotDispatched, AutoCommit,
                      MarkedNotDispatched, Row
  <2>. QED
    BY <1>0, <2>1, NotDispatchedPhase, Primed DEF Lifecycle!NeverDispatched
<1>3. ASSUME \/ \E j \in JobId, r \in Runner : MarkRunning(j, r)
             \/ \E r \in Runner : Renew(r)
             \/ Tick
      PROVE  UNCHANGED Lifecycle!lifecycle
  <2>1. ASSUME NEW k \in JobId
        PROVE  /\ db'[k].runner = db[k].runner /\ db'[k].attempts = db[k].attempts
               /\ \/ db'[k].state = db[k].state
                  \/ db[k].state = CLAIMED /\ db'[k].state = RUNNING /\ db[k].runner # NULL
    <3>1. ASSUME NEW j \in JobId, NEW r \in Runner, MarkRunning(j, r)
          PROVE  <2>1!2
      BY <1>0, <3>1, NullAssumption DEF MarkRunning, CanMarkRunning, AutoCommit, MarkedRunning, Row
    <3>2. ASSUME NEW r \in Runner, Renew(r)
          PROVE  <2>1!2
      BY <1>0, <3>2 DEF Renew, AutoCommit, Renewed, Row
    <3>3. CASE Tick
      BY <1>0, <3>3 DEF Tick, Aged, Row
    <3>. QED
      BY <1>3, <3>1, <3>2, <3>3
  <2>. QED
    BY <1>0, <2>1, SamePhases, Primed DEF Lifecycle!lifecycle
<1>. QED
  BY <1>1, <1>2, <1>3 DEF Lifecycle!Next

LEMMA NextImplements == Rows /\ Rows' /\ [Next]_vars => [Lifecycle!Next]_(Lifecycle!lifecycle)
<1>1. ASSUME UNCHANGED db
      PROVE  UNCHANGED Lifecycle!lifecycle
  BY <1>1, Primed DEF Lifecycle!lifecycle
<1>2. ASSUME Rows, Rows', NEW s \in Session, Commit(s)
      PROVE  Lifecycle!Next
  <2>1. CASE call[s].pc = "insert commit"
    <3>1. PICK j \in JobId : j = call[s].job
      BY <1>2, <2>1, CommitInsert
    <3>. QED
      BY <1>2, <2>1, <3>1, InsertCommits DEF Lifecycle!Next
  <2>. QED
    BY <1>2, <2>1, ClaimCommits DEF Commit
<1>3. ASSUME Rows, NEW s \in Session, Inside(s)
      PROVE  UNCHANGED db
  BY <1>3, InsideRows
<1>4. ASSUME Rows, Rows', Next
      PROVE  [Lifecycle!Next]_(Lifecycle!lifecycle)
  BY <1>1, <1>2, <1>3, <1>4, UpdateImplements DEF Next, Inside
<1>. QED
  BY <1>1, <1>4 DEF vars

(* Whatever statements of other transactions run in between, every commit  *)
(* and every UPDATE moves the runs along their lifecycle or leaves them.   *)
THEOREM ImplementsLifecycle == Spec => KeepsLifecycle
<1>1. Init => Lifecycle!Init
  <2>. SUFFICES ASSUME Init
                PROVE  Lifecycle!Init
    OBVIOUS
  <2>1. \A j \in JobId : db[j] = NoRow
    BY DEF Init, EmptyTable
  <2>2. PhaseOf(NoRow) = "unknown" /\ NoRow.state = ABSENT /\ NoRow.attempts = 0
    BY DEF PhaseOf, NoRow
  <2>. QED
    BY <2>1, <2>2 DEF Lifecycle!Init, PhaseIn, HolderIn, HolderOf, TriesIn
<1>. QED
  BY <1>1, NextImplements, AlwaysRows, PTL
     DEF Spec, KeepsLifecycle, Lifecycle!Spec
=============================================================================
