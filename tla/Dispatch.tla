------------------------------ MODULE Dispatch ------------------------------
(***************************************************************************)
(* From a command in Slack to a recorded run: the /slack/commands handler  *)
(* of the edge (app.py), with the gate in front of it, and the background  *)
(* task that dispatches a workflow after the reply has gone.               *)
(*                                                                         *)
(* Slack delivers a command again when it has not heard back in time; the  *)
(* id of the run is derived from the command's trigger_id, so every        *)
(* delivery of a command asks for the same id.  Deliveries may be handled  *)
(* at the same time.  The process can end between any two steps; the table *)
(* is all that outlives it, and it may come back with other allowlists.    *)
(***************************************************************************)
EXTENDS JobTable

CONSTANTS
  Team, User, Scope,   \* the workspaces, people and test scopes there are
  Command,             \* each command, as Slack delivers it
  Deployments,         \* the configurations the edge may be started with
  MaxDeliveries,       \* bound: times Slack delivers one command
  Faults               \* which of the faults below can happen

INSTANCE Gate

(* A row describes the run its command asks for: no two deployments        *)
(* understand a command of the model as different products or servers.     *)
ASSUME DispatchAssumption ==
  /\ Command \in [JobId -> Request]
  /\ Deployments \subseteq Configuration
  /\ \A c \in Deployments, j \in JobId :
       Serves(c) /\ Verdict(c, Command[j]) = "run" =>
         /\ Command[j].channel = Job[j].channel
         /\ \E scope \in Scope :
              Trigger(c, Command[j].text) = <<Job[j].product, scope, Job[j].server>>
  /\ NULL \notin Product \cup Server \cup Scope
  /\ MaxDeliveries \in Nat \ {0}
  /\ Faults \subseteq {"crash", "store busy", "commit unheard", "github call raises",
                      "github answer lost"}

VARIABLES
  config,      \* what the running edge read from its environment
  jobs,        \* the table of the queue store
  definition,  \* the action of the definition of each trigger, if it has one
  delivery,    \* how far each delivery of each command is handled
  task,        \* the background task each delivery has started
  github       \* workflow runs GitHub started for each run, and those it told us of

vars == <<config, jobs, definition, delivery, task, github>>

Delivery == JobId \X (1..MaxDeliveries)

(* What the commands can be understood to ask for.                         *)
Asked(c, j) == Trigger(c, Command[j].text)

Triggers ==
  {Asked(c, j) : c \in Deployments, j \in JobId}
    \cap {<<Job[j].product, scope, Job[j].server>> : j \in JobId, scope \in Scope}

ActionKind == {"gh-action", "test-server"}

(* What the person in Slack is told: by the gate, and by the store.        *)
UNREAD ==
  {"bad signature", "wrong workspace", "wrong channel", "wrong user", "bad wording",
   "server error", "results"}

REFUSALS == {"duplicate", "job at capacity", "channel queue full", "channel busy"}

Unsent == [at |-> "unsent"]
Recorded == [at |-> "recorded"]
DoneBy(kind) == [at |-> "resolved", kind |-> kind]
Answered(reply) == [at |-> "answered", reply |-> reply]
Died == [at |-> "died"]

Init ==
  /\ config \in {c \in Deployments : Serves(c)}
  /\ jobs = EmptyTable
  /\ definition \in [Triggers -> ActionKind]
  /\ delivery = [d \in Delivery |-> Unsent]
  /\ task = [d \in Delivery |-> "none"]
  /\ github = [j \in JobId |-> [runs |-> 0, heard |-> 0]]
-----------------------------------------------------------------------------
(* A delivery arrives.  Unless the gate lets it through as a run it is     *)
(* answered: refused, with a run's record, or with an HTTP error.  A run   *)
(* is resolved to the action of the definition that matches what it asks   *)
(* for; without one it is answered so.  No except is around these reads of *)
(* the store: one that finds it busy is an HTTP 500.                       *)
Deliver(d) ==
  LET verdict == Verdict(config, Command[d[1]])
      kind == definition[Asked(config, d[1])]
      becomes(answer) == delivery' = [delivery EXCEPT ![d] = answer]
  IN  /\ delivery[d] = Unsent
      /\ d[2] > 1 => delivery[<<d[1], d[2] - 1>>] # Unsent
      /\ \/ becomes(IF verdict # "run" THEN Answered(verdict)
                    ELSE IF kind = "none" THEN Answered("no match") ELSE DoneBy(kind))
         \/ /\ "store busy" \in Faults
            /\ verdict \in {"run", "results"}
            /\ becomes(Answered("server error"))
      /\ UNCHANGED <<config, jobs, definition, task, github>>

(* The refusals of _insert, in the order it asks.                          *)
Refusal(j, kind) ==
  CASE Duplicate(jobs, j) -> "duplicate"
    [] ~Duplicate(jobs, j) /\ JobAtCapacity(jobs, j) -> "job at capacity"
    [] OTHER -> IF kind = "gh-action" THEN "channel busy" ELSE "channel queue full"

(* Mutant: a duplicate is dispatched again.                                *)
RecordDuplicates(d) ==
  LET j == d[1]
  IN  /\ delivery[d] = DoneBy("gh-action")
      /\ IF DispatchAccepted(jobs, j)
         THEN \E at \in Stamp : jobs' = Dispatched(jobs, j, at)
         ELSE UNCHANGED jobs
      /\ task' = [task EXCEPT ![d] = "dispatching"]
      /\ delivery' = [delivery EXCEPT ![d] = Answered("accepted")]
      /\ UNCHANGED <<config, definition, github>>

(* gh-action: the run is recorded first, and only a run that was recorded  *)
(* is dispatched, after the reply.                                         *)
Record(d) ==
  LET j == d[1]
  IN  /\ delivery[d] = DoneBy("gh-action")
      /\ IF DispatchAccepted(jobs, j)
         THEN /\ \E at \in Stamp : jobs' = Dispatched(jobs, j, at)
              /\ task' = [task EXCEPT ![d] = "dispatching"]
              /\ delivery' = [delivery EXCEPT ![d] = Answered("accepted")]
         ELSE /\ delivery' = [delivery EXCEPT ![d] = Answered(Refusal(j, "gh-action"))]
              /\ UNCHANGED <<jobs, task>>
      /\ UNCHANGED <<config, definition, github>>

(* test-server: the run is queued.                                         *)
Queue(d) ==
  LET j == d[1]
  IN  /\ delivery[d] = DoneBy("test-server")
      /\ IF EnqueueAccepted(jobs, j)
         THEN /\ \E at \in Stamp : jobs' = Enqueued(jobs, j, at)
              /\ delivery' = [delivery EXCEPT ![d] = Recorded]
         ELSE /\ delivery' = [delivery EXCEPT ![d] = Answered(Refusal(j, "test-server"))]
              /\ UNCHANGED jobs
      /\ UNCHANGED <<config, definition, task, github>>

(* store.online: who could take the queued run is read for the answer, and *)
(* no except is around it.  The run stays queued whatever comes of it.     *)
CountOnline(d) ==
  /\ delivery[d] = Recorded
  /\ \E reply \in {"accepted"} \cup (IF "store busy" \in Faults THEN {"server error"} ELSE {}) :
       delivery' = [delivery EXCEPT ![d] = Answered(reply)]
  /\ UNCHANGED <<config, jobs, definition, task, github>>

(* Mutant: the run may have been recorded although the store was busy.     *)
BusyButRecorded(d) ==
  /\ "store busy" \in Faults
  /\ delivery[d].at = "resolved"
  /\ delivery' = [delivery EXCEPT ![d] = Answered("busy")]
  /\ jobs' = IF DispatchAccepted(jobs, d[1]) THEN Dispatched(jobs, d[1], 0) ELSE jobs
  /\ UNCHANGED <<config, definition, task, github>>

(* StoreBusy: nothing is recorded and the person is asked to try again.    *)
Busy(d) ==
  /\ "store busy" \in Faults
  /\ delivery[d].at = "resolved"
  /\ delivery' = [delivery EXCEPT ![d] = Answered("busy")]
  /\ UNCHANGED <<config, jobs, definition, task, github>>

(* The connection to the database ends while it commits: that is no        *)
(* StoreBusy, so it is an HTTP 500, with the run recorded and no task.     *)
CommitUnheard(d) ==
  LET j == d[1]
  IN  /\ "commit unheard" \in Faults
      /\ \/ /\ delivery[d] = DoneBy("gh-action") /\ DispatchAccepted(jobs, j)
            /\ \E at \in Stamp : jobs' = Dispatched(jobs, j, at)
         \/ /\ delivery[d] = DoneBy("test-server") /\ EnqueueAccepted(jobs, j)
            /\ \E at \in Stamp : jobs' = Enqueued(jobs, j, at)
      /\ delivery' = [delivery EXCEPT ![d] = Answered("server error")]
      /\ UNCHANGED <<config, definition, task, github>>
-----------------------------------------------------------------------------
(* Mutant: a lost answer is tried again.                                   *)
CallGitHubAgain(d) ==
  LET j == d[1]
  IN  /\ task[d] = "dispatching"
      /\ github' = [github EXCEPT ![j].runs = github[j].runs + 1]
      /\ UNCHANGED task \/ task' = [task EXCEPT ![d] = "over"]
      /\ UNCHANGED <<config, jobs, definition, delivery>>

(* dispatch_workflow: GitHub starts the run and says so, starts it and the *)
(* answer is lost, or does not start it: refused, unreachable, or a dry    *)
(* run without a token.  The last two look the same from here.  What is no *)
(* HTTPError is not caught, and ends the task before anything is sent.     *)
CallGitHub(d) ==
  LET j == d[1]
      started(heard) ==
        github' = [github EXCEPT ![j] =
          [runs |-> github[j].runs + 1, heard |-> github[j].heard + heard]]
      goto(t) == task' = [task EXCEPT ![d] = t]
  IN  /\ task[d] = "dispatching"
      /\ \/ started(1) /\ goto("over")
         \/ "github answer lost" \in Faults /\ started(0) /\ goto("failed")
         \/ UNCHANGED github /\ goto("failed")
         \/ "github call raises" \in Faults /\ UNCHANGED github /\ goto("lost")
      /\ UNCHANGED <<config, jobs, definition, delivery>>

(* Mutant: a failed dispatch is only logged.                               *)
MarkLogsOnly(d) ==
  /\ task[d] = "failed"
  /\ task' = [task EXCEPT ![d] = "over"]
  /\ UNCHANGED <<config, jobs, definition, delivery, github>>

(* _dispatch_and_log: a failed dispatch is recorded, if the store lets it. *)
Mark(d) ==
  LET j == d[1]
  IN  /\ task[d] = "failed"
      /\ IF CanMarkNotDispatched(jobs, j)
         THEN \/ jobs' = MarkedNotDispatched(jobs, j) /\ task' = [task EXCEPT ![d] = "over"]
              \/ /\ "store busy" \in Faults
                 /\ task' = [task EXCEPT ![d] = "lost"]
                 /\ UNCHANGED jobs
         ELSE task' = [task EXCEPT ![d] = "over"] /\ UNCHANGED jobs
      /\ UNCHANGED <<config, definition, delivery, github>>

(* The process ends: what it was handling and what it had yet to do in the *)
(* background is gone.  A delivery that had been accepted may not have     *)
(* been answered.  It is started again, on the same environment or on one  *)
(* that was edited in the meantime.                                        *)
Crash ==
  /\ "crash" \in Faults
  /\ config' \in {c \in Deployments : Serves(c)}
  /\ \E unheard \in SUBSET {d \in Delivery : task[d] = "dispatching"} :
       delivery' = [d \in Delivery |->
         IF delivery[d].at \in {"resolved", "recorded"} \/ d \in unheard THEN Died ELSE delivery[d]]
  /\ task' = [d \in Delivery |->
       IF task[d] \in {"dispatching", "failed"} THEN "lost" ELSE task[d]]
  /\ UNCHANGED <<jobs, definition, github>>

(* A definition is created, changed or deleted in the Test Runner tab.     *)
Redefine(s) ==
  /\ \E kind \in ActionKind \cup {"none"} : definition' = [definition EXCEPT ![s] = kind]
  /\ UNCHANGED <<config, jobs, delivery, task, github>>

(* Mutant: any queued run is taken, whatever the cap and its turn.         *)
ClaimAny(r) ==
  /\ \E j \in InState(jobs, {QUEUED}) : jobs' = Claimed(jobs, j, r)
  /\ UNCHANGED <<config, definition, delivery, task, github>>

(* A test server takes a queued run and reports it.                        *)
Claim(r) ==
  /\ \E j \in Oldest(jobs, Claimable(jobs, {})) : jobs' = Claimed(jobs, j, r)
  /\ UNCHANGED <<config, definition, delivery, task, github>>

Finish(j, r, passed) ==
  /\ CanFinish(jobs, j, r)
  /\ jobs' = Finished(jobs, j, passed)
  /\ UNCHANGED <<config, definition, delivery, task, github>>

Next ==
  \/ \E d \in Delivery :
       \/ Deliver(d) \/ Record(d) \/ Queue(d) \/ CountOnline(d)
       \/ Busy(d) \/ CommitUnheard(d)
       \/ CallGitHub(d) \/ Mark(d)
  \/ \E t \in Triggers : Redefine(t)
  \/ \E r \in Runner : Claim(r)
  \/ \E j \in JobId, r \in Runner, passed \in BOOLEAN : Finish(j, r, passed)
  \/ Crash

(* A background task that nobody ends runs to its end: the call to GitHub  *)
(* has a timeout.                                                          *)
Fairness == \A d \in Delivery : WF_vars(CallGitHub(d)) /\ WF_vars(Mark(d))

Spec == Init /\ [][Next]_vars /\ Fairness
-----------------------------------------------------------------------------
DeliveryState ==
  {Unsent, Recorded, Died} \cup {DoneBy(k) : k \in ActionKind}
    \cup {Answered(a) : a \in UNREAD \cup REFUSALS \cup {"accepted", "busy", "no match"}}

(* The types of the state.                                                 *)
TypeOK ==
  /\ config \in Deployments
  /\ jobs \in Table
  /\ definition \in [Triggers -> ActionKind \cup {"none"}]
  /\ delivery \in [Delivery -> DeliveryState]
  /\ task \in [Delivery -> {"none", "dispatching", "failed", "lost", "over"}]
  /\ github \in [JobId -> [runs : 0..MaxDeliveries, heard : 0..MaxDeliveries]]

Told(j, reply) ==
  {n \in 1..MaxDeliveries : delivery[<<j, n>>] = Answered(reply)}

(* One command starts one run and one kind of run, however often Slack     *)
(* delivers it and whatever becomes of its definition in between: GitHub   *)
(* starts at most one workflow for it, and none if the run was queued for  *)
(* a test server (the primary key and RECORD BEFORE DISPATCHING).          *)
OneRunPerCommand ==
  \A j \in JobId :
    /\ github[j].runs <= 1
    /\ github[j].runs = 1 => jobs[j].state # ABSENT /\ jobs[j].mode = "dispatch"

(* What people are told adds up: at most one delivery of a command is told *)
(* that the run is on its way; who is told so, or that it already is, has  *)
(* a run; and there is a run only if a delivery was told so, is about to   *)
(* be, was an HTTP 500 or went unanswered.  A command that was only ever   *)
(* refused or asked to be tried again never runs (_refusal, StoreBusy).    *)
AnswersAreTrue ==
  \A j \in JobId :
    /\ Cardinality(Told(j, "accepted")) <= 1
    /\ Told(j, "accepted") \cup Told(j, "duplicate") # {} => jobs[j].state # ABSENT
    /\ jobs[j].state # ABSENT =>
         \/ Told(j, "accepted") \cup Told(j, "server error") # {}
         \/ \E n \in 1..MaxDeliveries : delivery[<<j, n>>] \in {Recorded, Died}

(* "Never started" is said only of runs that were dispatched, never of one *)
(* that waits for or was held by a test server, and never of one that      *)
(* GitHub said it had started (mark_not_dispatched, _dispatch_and_log).    *)
NeverStartedIsTrue ==
  \A j \in JobId :
    jobs[j].state = NOT_DISPATCHED => jobs[j].mode = "dispatch" /\ github[j].heard = 0

(* Whoever asks for it, how often it is delivered and however the edge was *)
(* configured before: a run is recorded only if the configuration in force *)
(* when it is recorded entitles its command to it, or protects nothing by  *)
(* intent (missing_protections, gate.check, parse).                        *)
OnlyEntitledRuns ==
  [][\A j \in JobId :
       jobs[j].state = ABSENT /\ jobs'[j].state # ABSENT =>
         config.insecure \/ Entitled(config, Command[j])]_vars

(* A dispatch is not silent: it ends with a workflow run or with a row     *)
(* that says there is none, unless the process that had to say so ended,   *)
(* the call raised what is not an HTTPError, or the store would not take   *)
(* it (_dispatch_and_log).                                                 *)
EveryDispatchSettles ==
  \A j \in JobId :
    LET in(t) == \E n \in 1..MaxDeliveries : task[<<j, n>>] = t
    IN  in("dispatching") ~>
          github[j].runs > 0 \/ jobs[j].state = NOT_DISPATCHED \/ in("lost")

(* Every step is a step of the queue store: UsesStore is Store!Spec, with  *)
(* the steps that leave the table alone named first.                       *)
Store == INSTANCE JobStore

UsesStore == Store!Init /\ [][UNCHANGED jobs \/ Store!Next]_jobs
=============================================================================
