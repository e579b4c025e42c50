----------------------------- MODULE Standalone -----------------------------
(***************************************************************************)
(* The standalone server: the /slack/commands handler of api.py over the   *)
(* queue store, and the background task that runs the suite on this        *)
(* machine (runners/local.py) or dispatches it to GitHub                   *)
(* (runners/github.py) and says so in Slack (slack.py).                    *)
(*                                                                         *)
(* The tests of a suite may report through a notifier of their own while   *)
(* they run.  A call to Slack can fail in every way, before or after Slack *)
(* has acted, GitHub may start a run and its answer be lost, and the       *)
(* server can end between any two steps.                                   *)
(***************************************************************************)
EXTENDS JobTable, SlackNotifier

CONSTANTS
  MaxDeliveries,  \* bound: times Slack delivers one command
  MaxTicks,       \* bound: time that is looked at
  Faults          \* which of the faults below can happen

ASSUME StandaloneAssumption ==
  /\ MaxDeliveries \in Nat
  /\ MaxTicks \in Nat
  /\ Faults \subseteq {"crash", "store busy", "slack fails", "slack breaks off",
                      "github answer lost", "task raises"}

VARIABLES
  mode,      \* RUNTESTS_MODE
  jobs,      \* the table of the queue store
  delivery,  \* the answer to each delivery of each command
  run,       \* the background task of each run
  suite,     \* how far the tests of each run have reported
  slack,     \* the notifiers of the task and of the tests of each run
  begun,     \* history: how many times each run was started
  clock      \* history: the ticks that have gone by

vars == <<mode, jobs, delivery, run, suite, slack, begun, clock>>

Delivery == JobId \X (1..MaxDeliveries)

Speaker == {"task", "tests"}

None == [at |-> "none"]
Waiting == [at |-> "waiting"]
Running == [at |-> "running"]
Reporting(end) == [at |-> "reporting", end |-> end]
Telling(end) == [at |-> "telling", end |-> end]
Returned(end) == [at |-> "returned", end |-> end]
Raised == [at |-> "raised"]
Lost == [at |-> "lost"]

Init ==
  /\ mode \in {"local", "github"}
  /\ jobs = EmptyTable
  /\ delivery = [d \in Delivery |-> "unsent"]
  /\ run = [j \in JobId |-> None]
  /\ suite = [j \in JobId |-> "silent"]
  /\ slack = [n \in Speaker \X JobId |-> Fresh]
  /\ begun = [j \in JobId |-> 0]
  /\ clock = 0
-----------------------------------------------------------------------------
(* _refusal, in the order _insert asks.                                    *)
Refusal(j) ==
  CASE Duplicate(jobs, j) -> "duplicate"
    [] ~Duplicate(jobs, j) /\ JobAtCapacity(jobs, j) -> "job at capacity"
    [] OTHER -> "channel busy"

(* A delivery is recorded, and only if it was is a task left to start the  *)
(* run after the reply.                                                    *)
Handle(d) ==
  LET j == d[1]
  IN  /\ delivery[d] = "unsent"
      /\ d[2] > 1 => delivery[<<j, d[2] - 1>>] # "unsent"
      /\ \/ /\ DispatchAccepted(jobs, j)
            /\ \E at \in Stamp : jobs' = Dispatched(jobs, j, at)
            /\ run' = [run EXCEPT ![j] = Waiting]
            /\ delivery' = [delivery EXCEPT ![d] = "accepted"]
         \/ /\ ~DispatchAccepted(jobs, j)
            /\ delivery' = [delivery EXCEPT ![d] = Refusal(j)]
            /\ UNCHANGED <<jobs, run>>
         \/ /\ "store busy" \in Faults
            /\ delivery' = [delivery EXCEPT ![d] = "busy"]
            /\ UNCHANGED <<jobs, run>>
      /\ UNCHANGED <<mode, suite, slack, begun, clock>>
-----------------------------------------------------------------------------
(* What can come of a call of the notifier who.                            *)
Calls(who) ==
  {c \in Possible(slack[who]) :
     /\ c.answer = "failed" => "slack fails" \in Faults
     /\ c.answer = "raised" => "slack breaks off" \in Faults}

Says(who, n) == slack' = [slack EXCEPT ![who] = n]

(* The task goes on, unless the call raised.                               *)
Then(j, c, r) == run' = [run EXCEPT ![j] = IF c.answer = "raised" THEN Raised ELSE r]

(* local.run: an expression that is refused, or no such suite.             *)
TurnDown(j) ==
  LET who == <<"task", j>>
  IN  /\ run[j] = Waiting /\ mode = "local"
      /\ \E c \in Calls(who), end \in {"refused", "no suite"} :
           Says(who, Posted(slack[who], end, c)) /\ Then(j, c, Returned(end))
      /\ UNCHANGED <<mode, jobs, delivery, suite, begun, clock>>

(* The start is said, then the suite is started, or cannot be.             *)
Start(j) ==
  LET who == <<"task", j>>
  IN  /\ run[j] = Waiting /\ mode = "local"
      /\ \E c \in Calls(who), starts \in BOOLEAN :
           /\ Says(who, Posted(slack[who], "starting", c))
           /\ Then(j, c, IF starts THEN Running ELSE Reporting("could not start"))
           /\ begun' = IF starts /\ c.answer # "raised"
                       THEN [begun EXCEPT ![j] = begun[j] + 1] ELSE begun
      /\ UNCHANGED <<mode, jobs, delivery, suite, clock>>

(* pytest exits, or is killed at its timeout.  What it printed may not     *)
(* decode, which nothing catches.                                          *)
SuiteEnds(j) ==
  /\ run[j] = Running
  /\ \/ \E end \in {"passed", "failed", "killed"} : run' = [run EXCEPT ![j] = Reporting(end)]
     \/ "task raises" \in Faults /\ run' = [run EXCEPT ![j] = Raised]
  /\ UNCHANGED <<mode, jobs, delivery, suite, slack, begun, clock>>

(* The end of the run is said, whatever it was.                            *)
Report(j) ==
  LET who == <<"task", j>>
  IN  /\ run[j].at = "reporting"
      /\ \E c \in Calls(who) :
           /\ Says(who, Updated(slack[who], run[j].end, TRUE, c))
           /\ Then(j, c, Returned(run[j].end))
      /\ UNCHANGED <<mode, jobs, delivery, suite, begun, clock>>

(* Mutant: a call that was not answered is made again.                     *)
CallGitHubAgain(j) ==
  /\ run[j] = Waiting /\ mode = "github"
  /\ begun' = [begun EXCEPT ![j] = begun[j] + 1]
  /\ UNCHANGED run \/ run' = [run EXCEPT ![j] = Telling("queued")]
  /\ UNCHANGED <<mode, jobs, delivery, suite, slack, clock>>

(* dispatch_workflow: GitHub starts the run and says so, starts it and the *)
(* answer is lost, or does not start it: refused, unreachable, a dry run.  *)
(* The last two look the same from here.  What is no HTTPError is not      *)
(* caught, and ends the task before anything is sent.                      *)
CallGitHub(j) ==
  LET started == begun' = [begun EXCEPT ![j] = begun[j] + 1]
      becomes(r) == run' = [run EXCEPT ![j] = r]
  IN  /\ run[j] = Waiting /\ mode = "github"
      /\ \/ started /\ becomes(Telling("queued"))
         \/ "github answer lost" \in Faults /\ started /\ becomes(Telling("not dispatched"))
         \/ UNCHANGED begun /\ becomes(Telling("not dispatched"))
         \/ "task raises" \in Faults /\ UNCHANGED begun /\ becomes(Raised)
      /\ UNCHANGED <<mode, jobs, delivery, suite, slack, clock>>

(* github.dispatch: a fresh notifier posts what came of the call.          *)
Tell(j) ==
  LET who == <<"task", j>>
  IN  /\ run[j].at = "telling"
      /\ \E c \in Calls(who) :
           /\ Says(who, Posted(slack[who], run[j].end, c))
           /\ Then(j, c, Returned(run[j].end))
      /\ UNCHANGED <<mode, jobs, delivery, suite, begun, clock>>
-----------------------------------------------------------------------------
(* The tests of a suite that is running use a notifier of their own, as    *)
(* the README shows; a call that raises fails the test that makes it.      *)
TestsStart(j) ==
  LET who == <<"tests", j>>
  IN  /\ run[j] = Running /\ suite[j] = "silent"
      /\ \E c \in Calls(who) :
           /\ Says(who, Posted(slack[who], "starting", c))
           /\ suite' = [suite EXCEPT ![j] = IF c.answer = "raised" THEN "over" ELSE "progress"]
      /\ UNCHANGED <<mode, jobs, delivery, run, begun, clock>>

(* Progress may be said without a start: update posts then.  Progress that *)
(* is throttled changes nothing.                                           *)
TestsProgress(j) ==
  LET who == <<"tests", j>>
  IN  /\ run[j] = Running /\ suite[j] \in {"silent", "progress"}
      /\ ~Throttled(slack[who], FALSE)
      /\ \E c \in Calls(who) :
           /\ Says(who, Updated(slack[who], "progress", FALSE, c))
           /\ suite' = [suite EXCEPT ![j] = IF c.answer = "raised" THEN "over" ELSE "progress"]
      /\ UNCHANGED <<mode, jobs, delivery, run, begun, clock>>

(* Mutant: the summary is an edit like any other.                          *)
TestsFinishUnforced(j) ==
  LET who == <<"tests", j>>
  IN  /\ run[j] = Running /\ suite[j] \in {"silent", "progress"}
      /\ \E c \in Calls(who) : Says(who, Updated(slack[who], "summary", FALSE, c))
      /\ suite' = [suite EXCEPT ![j] = "finished"]
      /\ UNCHANGED <<mode, jobs, delivery, run, begun, clock>>

TestsFinish(j) ==
  LET who == <<"tests", j>>
  IN  /\ run[j] = Running /\ suite[j] \in {"silent", "progress"}
      /\ \E c \in Calls(who) : Says(who, Updated(slack[who], "summary", TRUE, c))
      /\ suite' = [suite EXCEPT ![j] = "finished"]
      /\ UNCHANGED <<mode, jobs, delivery, run, begun, clock>>
-----------------------------------------------------------------------------
(* The server ends, and the suites it runs with it; the table stays.       *)
Crash ==
  /\ "crash" \in Faults
  /\ run' = [j \in JobId |->
       IF run[j].at \in {"waiting", "running", "reporting", "telling"} THEN Lost ELSE run[j]]
  /\ UNCHANGED <<mode, jobs, delivery, suite, slack, begun, clock>>

Tick ==
  /\ clock < MaxTicks
  /\ clock' = clock + 1
  /\ slack' = [n \in Speaker \X JobId |-> Quieter(slack[n])]
  /\ UNCHANGED <<mode, jobs, delivery, run, suite, begun>>

Next ==
  \/ \E d \in Delivery : Handle(d)
  \/ \E j \in JobId :
       \/ TurnDown(j) \/ Start(j) \/ SuiteEnds(j) \/ Report(j)
       \/ CallGitHub(j) \/ Tell(j)
       \/ TestsStart(j) \/ TestsProgress(j) \/ TestsFinish(j)
  \/ Crash
  \/ Tick

Spec == Init /\ [][Next]_vars
-----------------------------------------------------------------------------
Ending == {"refused", "no suite", "could not start", "passed", "failed", "killed",
           "queued", "not dispatched"}

Text == Ending \cup {"starting", "progress", "summary"}

(* The types of the state.                                                 *)
TypeOK ==
  /\ jobs \in Table
  /\ delivery \in [Delivery -> {"unsent", "accepted", "duplicate", "job at capacity",
                                "channel busy", "busy"}]
  /\ run \in [JobId -> {None, Waiting, Running, Raised, Lost}
                         \cup {Reporting(e) : e \in Ending} \cup {Telling(e) : e \in Ending}
                         \cup {Returned(e) : e \in Ending}]
  /\ suite \in [JobId -> {"silent", "progress", "finished", "over"}]
  /\ \A who \in Speaker \X JobId :
       /\ slack[who].ts \in {NONE, 0} \cup DOMAIN slack[who].messages
       /\ \A i \in DOMAIN slack[who].messages : slack[who].messages[i] \in Text
       /\ slack[who].quiet \in 0..THROTTLE

(* One command starts its run at most once, here or at GitHub, however     *)
(* often it is delivered, whether or not the answer to the call that       *)
(* started it arrives, and never without its row (api.commands, dispatch). *)
OneRunPerCommand ==
  \A j \in JobId : begun[j] <= 1 /\ (begun[j] = 1 => jobs[j].state # ABSENT)

(* One notifier is one message in the channel, whatever of its calls is    *)
(* refused or goes unanswered: a post that Slack made although its answer  *)
(* was lost is not made again by the updates that follow (post, update).   *)
OneMessageEach ==
  \A who \in Speaker \X JobId : Len(slack[who].messages) <= 1

(* However often progress is said, and whether or not Slack takes it, the  *)
(* edits keep to the rate: one at once, one for every THROTTLE ticks that  *)
(* have passed, and the forced one at the end (update, _last_edit).        *)
EditRateBounded ==
  \A who \in Speaker \X JobId : slack[who].edits <= clock \div THROTTLE + 2

(* The last word is shown: if Slack said ok to every call, the message     *)
(* shows how the run ended, and that of its tests the summary, however     *)
(* soon after the last progress it came (finish, force=True).              *)
LastWordShown ==
  \A j \in JobId :
    /\ run[j].at = "returned" /\ slack[<<"task", j>>].heard
         => slack[<<"task", j>>].messages = <<run[j].end>>
    /\ suite[j] = "finished" /\ slack[<<"tests", j>>].heard
         => slack[<<"tests", j>>].messages = <<"summary">>

(* "NEVER let a reporting failure fail the test run" (slack.py): no call   *)
(* to Slack ends the task that makes it.                                   *)
ReportingNeverFailsRun == \A j \in JobId : run[j] # Raised
=============================================================================
