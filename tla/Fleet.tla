------------------------------- MODULE Fleet --------------------------------
(***************************************************************************)
(* The test servers and the edge they poll (agent.py, client.py and the    *)
(* /runner handlers of app.py) around one queue store.                     *)
(*                                                                         *)
(* A test server enrols, then polls for a job, runs it and reports, one    *)
(* job at a time, while a second thread sends heartbeats.  It knows of a   *)
(* job only what a reply told it: a reply can be lost after the edge has   *)
(* acted, a request can arrive after its sender gave up on it, and a       *)
(* process can crash between any two steps and come back under its id.     *)
(*                                                                         *)
(* Time is counted in heartbeat intervals.  In every interval a heartbeat  *)
(* of each running test server arrives, or none does: it failed, or the    *)
(* one before still hangs, which counts against every interval it spans.   *)
(***************************************************************************)
EXTENDS JobTable

CONSTANTS
  Labels,   \* the labels each test server enrols with
  MaxGone,  \* bound: claims the edge still serves for a client that has gone
  Faults    \* which of the faults below can happen

ASSUME FleetAssumption ==
  /\ IsFiniteSet(Runner)
  /\ Labels \in [Runner -> SUBSET Server]
  /\ MaxGone \in Nat
  /\ Faults \subseteq {"crash", "crash mid-run", "dies", "hangs up", "claim reply lost",
                       "result lost", "result late", "result reply lost",
                       "started lost", "heartbeat lost", "store busy"}

VARIABLES
  jobs,    \* the table of the queue store
  agent,   \* what each test server's main thread is doing
  gone,    \* claims held open at the edge whose client is no longer there
  late,    \* results their sender gave up on that may still arrive
  due,     \* test servers no heartbeat of which has arrived in this interval
  missed,  \* intervals in a row in which none did, counted up to LeaseTicks - 1
  begun,   \* history: how many times each job was started on a machine
  ended    \* history: the runs that came to an end, and how

vars == <<jobs, agent, gone, late, due, missed, begun, ended>>

TRIES == 3   \* _safe_result

Off == [at |-> "off"]
Dead == [at |-> "dead"]
Idle == [at |-> "idle"]
Polling == [at |-> "polling"]
Got(j) == [at |-> "got", job |-> j]
Running(j) == [at |-> "running", job |-> j]
Reporting(j, passed, try) == [at |-> "reporting", job |-> j, passed |-> passed, try |-> try]

Up == {r \in Runner : agent[r].at \notin {"off", "dead"}}

WorksOn(r, j) == agent[r].at \in {"got", "running", "reporting"} /\ agent[r].job = j

Holds(r, j) == jobs[j].state \in BUSY_STATES /\ jobs[j].runner = r

Becomes(r, a) == agent' = [agent EXCEPT ![r] = a]

Init ==
  /\ jobs = EmptyTable
  /\ agent = [r \in Runner |-> Off]
  /\ gone = [r \in Runner |-> 0]
  /\ late = {}
  /\ due = {}
  /\ missed = [r \in Runner |-> 0]
  /\ begun = [j \in JobId |-> 0]
  /\ ended = {}
-----------------------------------------------------------------------------
(* Somebody asks for a run in Slack; the edge enqueues it.                 *)
Enqueue(j) ==
  /\ EnqueueAccepted(jobs, j)
  /\ \E at \in Stamp : jobs' = Enqueued(jobs, j, at)
  /\ UNCHANGED <<agent, gone, late, due, missed, begun, ended>>

(* run_forever: enrolment is retried until it succeeds, then the heartbeat *)
(* thread starts; its first heartbeat is one interval away.                *)
Enrol(r) ==
  /\ agent[r] = Off
  /\ Becomes(r, Idle)
  /\ UNCHANGED <<jobs, gone, late, due, missed, begun, ended>>

Poll(r) ==
  /\ agent[r] = Idle
  /\ Becomes(r, Polling)
  /\ UNCHANGED <<jobs, gone, late, due, missed, begun, ended>>

(* Mutant: a claim does not ask for its turn.                              *)
HandsOutAny(r, T, j) == j \in Claimable(T, Labels[r]) /\ jobs' = Claimed(T, j, r)

(* store.claim, as the edge calls it: T is the table after the reaper.     *)
HandsOut(r, T, j) == j \in Oldest(T, Claimable(T, Labels[r])) /\ jobs' = Claimed(T, j, r)

FindsNothing(r, T) == Claimable(T, Labels[r]) = {} /\ jobs' = T

(* The edge serves a claim its client waits for: a job is handed out and   *)
(* the reply arrives or is lost, or there is nothing and the request stays *)
(* open or is answered 204 at its deadline.                                *)
ServeClaim(r) ==
  LET T == Reaped(jobs)
  IN  /\ agent[r] = Polling
      /\ \/ \E j \in JobId : HandsOut(r, T, j) /\ Becomes(r, Got(j))
         \/ /\ "claim reply lost" \in Faults
            /\ \E j \in JobId : HandsOut(r, T, j) /\ Becomes(r, Idle)
         \/ FindsNothing(r, T) /\ (UNCHANGED agent \/ Becomes(r, Idle))
      /\ UNCHANGED <<gone, late, due, missed, begun, ended>>

(* StoreBusy on every attempt until the deadline is answered 204 as well.  *)
BusyUntilDeadline(r) ==
  /\ "store busy" \in Faults
  /\ agent[r] = Polling
  /\ Becomes(r, Idle)
  /\ UNCHANGED <<jobs, gone, late, due, missed, begun, ended>>

(* The edge does not notice that the client of a claim has gone: it serves *)
(* the claim until it has a job to answer with or the deadline passes.     *)
ServeGoneClaim(r) ==
  LET T == Reaped(jobs)
  IN  /\ gone[r] > 0
      /\ \/ /\ \E j \in JobId : HandsOut(r, T, j)
            /\ gone' = [gone EXCEPT ![r] = gone[r] - 1]
         \/ /\ FindsNothing(r, T)
            /\ gone' \in {gone, [gone EXCEPT ![r] = gone[r] - 1]}
      /\ UNCHANGED <<agent, late, due, missed, begun, ended>>

(* The claim that r waited for stays with the edge, or ended unserved.     *)
LeavesClaim(r) ==
  \/ UNCHANGED gone
  \/ gone[r] < MaxGone /\ gone' = [gone EXCEPT ![r] = gone[r] + 1]

(* The long-poll times out on the client's side, or its connection breaks. *)
HangUp(r) ==
  /\ "hangs up" \in Faults
  /\ agent[r] = Polling
  /\ Becomes(r, Idle)
  /\ LeavesClaim(r)
  /\ UNCHANGED <<jobs, late, due, missed, begun, ended>>
-----------------------------------------------------------------------------
(* execute: validate refuses the job and the refusal is its result.        *)
Refuse(r) ==
  /\ agent[r].at = "got"
  /\ Becomes(r, Reporting(agent[r].job, FALSE, 1))
  /\ ended' = ended \cup {<<r, agent[r].job, FALSE>>}
  /\ UNCHANGED <<jobs, gone, late, due, missed, begun>>

(* execute: the edge is told, the run starts whether or not it heard or    *)
(* agreed.                                                                 *)
Begin(r) ==
  /\ agent[r].at = "got"
  /\ LET j == agent[r].job
     IN  /\ Becomes(r, Running(j))
         /\ begun' = [begun EXCEPT ![j] = begun[j] + 1]
         /\ \/ jobs' = IF CanMarkRunning(jobs, j, r) THEN MarkedRunning(jobs, j) ELSE jobs
            \/ "started lost" \in Faults /\ UNCHANGED jobs
  /\ UNCHANGED <<gone, late, due, missed, ended>>

(* pytest exits, is killed at its timeout or could not be started.         *)
End(r, passed) ==
  /\ agent[r].at = "running"
  /\ Becomes(r, Reporting(agent[r].job, passed, 1))
  /\ ended' = ended \cup {<<r, agent[r].job, passed>>}
  /\ UNCHANGED <<jobs, gone, late, due, missed, begun>>

(* _safe_result: any answer but 200, and no answer, is tried again.        *)
NextTry(r) ==
  Becomes(r, IF agent[r].try < TRIES THEN [agent[r] EXCEPT !.try = agent[r].try + 1]
             ELSE Idle)

ReportOf(r) == [runner |-> r, job |-> agent[r].job, passed |-> agent[r].passed]

Report(r) ==
  /\ agent[r].at = "reporting"
  /\ LET j == agent[r].job
     IN  \/ /\ CanFinish(jobs, j, r)
            /\ jobs' = Finished(jobs, j, agent[r].passed)
            /\ Becomes(r, Idle) \/ ("result reply lost" \in Faults /\ NextTry(r))
            /\ UNCHANGED late
         \/ /\ ~CanFinish(jobs, j, r)     \* 409
            /\ NextTry(r)
            /\ UNCHANGED <<jobs, late>>
         \/ /\ "result lost" \in Faults   \* on the way, or answered 503
            /\ NextTry(r)
            /\ UNCHANGED <<jobs, late>>
         \/ /\ "result late" \in Faults
            /\ NextTry(r)
            /\ late' = late \cup {ReportOf(r)}
            /\ UNCHANGED jobs
  /\ UNCHANGED <<gone, due, missed, begun, ended>>

(* A result arrives that nobody waits for any more.                        *)
LateResult(m) ==
  /\ m \in late
  /\ late' = late \ {m}
  /\ jobs' = IF CanFinish(jobs, m.job, m.runner) THEN Finished(jobs, m.job, m.passed) ELSE jobs
  /\ UNCHANGED <<agent, gone, due, missed, begun, ended>>
-----------------------------------------------------------------------------
(* The heartbeat thread: a heartbeat renews whatever the store says its    *)
(* sender holds; one that fails is logged and not repeated.                *)
Beat(r) ==
  /\ r \in due
  /\ due' = due \ {r}
  /\ \/ /\ jobs' = Renewed(jobs, r)
        /\ missed' = [missed EXCEPT ![r] = 0]
     \/ /\ "heartbeat lost" \in Faults
        /\ missed' = [missed EXCEPT ![r] = IF missed[r] < LeaseTicks - 1
                                           THEN missed[r] + 1 ELSE missed[r]]
        /\ UNCHANGED jobs
  /\ UNCHANGED <<agent, gone, late, begun, ended>>

(* A heartbeat interval goes by.  The thread waits one after each call; a  *)
(* call can hang for as long again, and so miss the next one, too.         *)
Tick ==
  /\ due = {}
  /\ jobs' = Aged(jobs)
  /\ due' = Up
  /\ UNCHANGED <<agent, gone, late, missed, begun, ended>>

(* The process of a test server ends, to be started again or for good.     *)
Stop(r) ==
  /\ r \in Up
  /\ \/ "crash" \in Faults /\ Becomes(r, Off)
     \/ "crash mid-run" \in Faults /\ agent[r].at = "running" /\ Becomes(r, Off)
     \/ "dies" \in Faults /\ Becomes(r, Dead)
  /\ IF agent[r] = Polling THEN LeavesClaim(r) ELSE UNCHANGED gone
  /\ due' = due \ {r}
  /\ missed' = [missed EXCEPT ![r] = 0]
  /\ UNCHANGED <<jobs, late, begun, ended>>

Next ==
  \/ \E j \in JobId : Enqueue(j)
  \/ \E r \in Runner :
       \/ Enrol(r) \/ Poll(r)
       \/ ServeClaim(r) \/ BusyUntilDeadline(r) \/ ServeGoneClaim(r) \/ HangUp(r)
       \/ Refuse(r) \/ Begin(r) \/ \E passed \in BOOLEAN : End(r, passed)
       \/ Report(r) \/ Beat(r) \/ Stop(r)
  \/ \E m \in late : LateResult(m)
  \/ Tick

(* The threads of a running test server go on, the edge serves the claims  *)
(* it holds, and time passes.  The store is not busy for ever: a claim     *)
(* that is made again and again is served.                                 *)
Fairness ==
  /\ WF_vars(Tick)
  /\ \A r \in Runner :
       /\ WF_vars(Enrol(r)) /\ WF_vars(Poll(r)) /\ SF_vars(ServeClaim(r))
       /\ WF_vars(Refuse(r) \/ Begin(r)) /\ WF_vars(\E passed \in BOOLEAN : End(r, passed))
       /\ WF_vars(Report(r)) /\ WF_vars(Beat(r))

Spec == Init /\ [][Next]_vars
FairSpec == Spec /\ Fairness
-----------------------------------------------------------------------------
Agent ==
  {Off, Dead, Idle, Polling} \cup {Got(j) : j \in JobId} \cup {Running(j) : j \in JobId}
    \cup {Reporting(j, p, n) : j \in JobId, p \in BOOLEAN, n \in 1..TRIES}

(* The types of the fleet's state.                                         *)
TypeOK ==
  /\ jobs \in Table
  /\ agent \in [Runner -> Agent]
  /\ gone \in [Runner -> 0..MaxGone]
  /\ late \subseteq [runner : Runner, job : JobId, passed : BOOLEAN]
  /\ due \subseteq Up
  /\ missed \in [Runner -> 0..(LeaseTicks - 1)]
  /\ begun \in [JobId -> 0..MaxAttempts]
  /\ ended \subseteq Runner \X JobId \X BOOLEAN

(* Whatever is lost, repeated or crashed, a job starts on no more machines *)
(* than it was handed out times, those about to start it included: the     *)
(* attempts the store counts bound the executions (claim, execute).        *)
ExecutionsBounded ==
  \A j \in JobId :
    begun[j] + Cardinality({r \in Runner : agent[r] = Got(j)}) <= jobs[j].attempts

(* What is recorded happened: the row of a finished run names a test       *)
(* server on which that run came to that end (`runner_id=?` of finish).    *)
RecordedIsReal ==
  \A j \in JobId :
    /\ jobs[j].state = DONE => <<jobs[j].runner, j, TRUE>> \in ended
    /\ jobs[j].state = FAILED => <<jobs[j].runner, j, FALSE>> \in ended

(* A test server that is busy is not taken for dead: while it works on a   *)
(* job it keeps it until it reports, unless for as many intervals in a row *)
(* as fit inside a lease no heartbeat arrived (_heartbeat_loop, _reap).    *)
BusyIsNotDead ==
  [][\A r \in Runner, j \in JobId :
       WorksOn(r, j) /\ Holds(r, j) /\ ~Holds(r, j)'
         => jobs'[j].state \in {DONE, FAILED} \/ missed[r] >= LeaseTicks - 1]_vars

(* Every step of the fleet is a step of the queue store.                   *)
Store == INSTANCE JobStore

UsesStore == Store!Spec

(* Nobody is left who could run j.                                         *)
NobodyLeft(j) ==
  \A r \in Runner : agent[r] = Dead \/ (Labels[r] # {} /\ Job[j].server \notin Labels[r])

(* Every run that is queued ends, as long as one test server that may run  *)
(* it is left: whoever held it and died is found out by its lease.         *)
EveryRunEnds ==
  \A j \in JobId :
    jobs[j].state = QUEUED ~> (jobs[j].state \in TERMINAL_STATES \/ NobodyLeft(j))

(* "A test server that dies mid-run must not take the job with it": a run  *)
(* a test server holds does not stay with it for ever.                     *)
HeldIsReleased ==
  \A j \in JobId :
    jobs[j].state \in BUSY_STATES ~> (jobs[j].state \notin BUSY_STATES \/ NobodyLeft(j))
=============================================================================
