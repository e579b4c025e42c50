--------------------------- MODULE Dispatch_proofs ---------------------------
(***************************************************************************)
(* From a command to a run, for any commands, deployments and number of    *)
(* deliveries.  The gate comes first: what it promises under every         *)
(* configuration, for every request.                                       *)
(*                                                                         *)
(* The rest is about what is in the table, what GitHub did and what people *)
(* were told.  What holds it together is the background task: a run has at *)
(* most one, it is there only for a row that was recorded as dispatched,   *)
(* and until it ends GitHub has started nothing.                           *)
(***************************************************************************)
EXTENDS Dispatch, FiniteSetTheorems, TLAPS

(* The verdicts that stand before the text of a request is read.           *)
REFUSED == {"bad signature", "wrong workspace", "wrong channel", "wrong user"}

(* The verdicts the text of a request decides.                             *)
READINGS == {"bad wording", "server error", "results", "run"}
-----------------------------------------------------------------------------
LEMMA ReadingTypes ==
  ASSUME NEW c, NEW t
  PROVE  Reading(c, t) \in READINGS
BY DEF Reading, READINGS

(* A request is refused by one of the four checks, or it passes them all   *)
(* and its text decides.                                                   *)
LEMMA FourChecks ==
  ASSUME NEW c, NEW q
  PROVE  \/ /\ Verified(c, q) /\ RightTeam(c, q) /\ RightChannel(c, q) /\ RightUser(c, q)
            /\ Verdict(c, q) = Reading(c, q.text)
         \/ /\ ~(Verified(c, q) /\ RightTeam(c, q) /\ RightChannel(c, q) /\ RightUser(c, q))
            /\ Verdict(c, q) \in REFUSED
BY DEF Verdict, REFUSED

(* What the parser leaves of a flag that was not given is a value of its   *)
(* allowlist, if it leaves anything.                                       *)
LEMMA ResolvedIsListed ==
  ASSUME NEW values, NULL \notin values, NEW value,
         Chosen(value, values), Resolved(value, values) # NULL
  PROVE  Resolved(value, values) \in values
<1>1. CASE value # NULL
  BY <1>1 DEF Resolved, Chosen
<1>2. CASE value = NULL
  <2>1. OnlyValue(values) # NULL
    BY <1>2 DEF Resolved
  <2>2. PICK v \in values : values = {v}
    BY <2>1 DEF OnlyValue
  <2>3. OnlyValue(values) = CHOOSE u \in values : TRUE
    BY <2>2 DEF OnlyValue
  <2>4. OnlyValue(values) \in values
    BY <2>2, <2>3
  <2>. QED
    BY <1>2, <2>4 DEF Resolved
<1>. QED
  BY <1>1, <1>2
-----------------------------------------------------------------------------
(* Whatever a deployment protects or leaves open on purpose, a run is      *)
(* started with values on its allowlists only, and a list that is empty    *)
(* allows none (parse).                                                    *)
THEOREM RunsNameListedValues ==
  ASSUME NULL \notin Product \cup Server \cup Scope,
         NEW c \in Configuration, NEW q \in Request,
         Verdict(c, q) = "run"
  PROVE  Trigger(c, q.text) \in c.products \X c.scopes \X c.servers
<1>. DEFINE t == q.text
<1>1. Reading(c, t) = "run"
  BY FourChecks DEF REFUSED
<1>2. RunAccepts(c, t)
  BY <1>1 DEF Reading
<1>3. /\ t.product \in c.products
      /\ Chosen(t.server, c.servers) /\ Resolved(t.server, c.servers) # NULL
      /\ Chosen(t.scope, c.scopes) /\ Resolved(t.scope, c.scopes) # NULL
  BY <1>2 DEF RunAccepts, PeekAccepts
<1>4. NULL \notin c.servers /\ NULL \notin c.scopes
  BY DEF Configuration
<1>5. Resolved(t.server, c.servers) \in c.servers /\ Resolved(t.scope, c.scopes) \in c.scopes
  BY <1>3, <1>4, ResolvedIsListed
<1>. QED
  BY <1>3, <1>5 DEF Trigger

(* A process that serves because it is protected starts a run for those    *)
(* its environment entitles, and for nobody else: no order of the checks   *)
(* and no empty allowlist lets another request through (missing_protections*)
(* with gate.check and parse).                                             *)
THEOREM RunsAreEntitled ==
  ASSUME NULL \notin Product \cup Server \cup Scope,
         NEW c \in Configuration, NEW q \in Request,
         Serves(c), ~c.insecure, Verdict(c, q) = "run"
  PROVE  Entitled(c, q)
<1>1. c.secret /\ c.team # NULL /\ ~(c.channels = {} /\ c.users = {})
  <2>1. Missing(c) = {}
    BY DEF Serves
  <2>. QED
    BY <2>1 DEF Missing
<1>2. Verified(c, q) /\ RightTeam(c, q) /\ RightChannel(c, q) /\ RightUser(c, q)
  BY FourChecks DEF REFUSED
<1>3. Trigger(c, q.text) \in c.products \X c.scopes \X c.servers
  BY RunsNameListedValues
<1>. QED
  BY <1>1, <1>2, <1>3 DEF Verified, RightTeam, RightChannel, RightUser, Entitled

(* A request the checks refuse is refused the same way whatever it says:   *)
(* its text is not read, and nothing of the parser, whose errors would     *)
(* name the values this deployment has, reaches its sender (gate.check).   *)
THEOREM StrangersLearnNothing ==
  ASSUME NEW c \in Configuration, NEW q \in Request, NEW t \in Text,
         Verdict(c, q) \in REFUSED
  PROVE  Verdict(c, [q EXCEPT !.text = t]) = Verdict(c, q)
<1>. DEFINE r == [q EXCEPT !.text = t]
<1>1. r.signed = q.signed /\ r.team = q.team /\ r.channel = q.channel /\ r.user = q.user
  BY DEF Request
<1>2. ~(Verified(c, q) /\ RightTeam(c, q) /\ RightChannel(c, q) /\ RightUser(c, q))
  BY FourChecks, ReadingTypes DEF REFUSED, READINGS
<1>. QED
  BY <1>1, <1>2 DEF Verdict, Verified, RightTeam, RightChannel, RightUser

(* A flag may be left out only while one value is allowed: a command that  *)
(* leaves one out is not run any more once the deployment lists a second,  *)
(* rather than run against one of the two (build_parser's second pass).    *)
THEOREM NothingIsGuessed ==
  ASSUME NULL \notin Product \cup Server \cup Scope,
         NEW c \in Configuration, NEW q \in Request,
         Verdict(c, q) = "run"
  PROVE  /\ q.text.server = NULL => c.servers = {Resolved(NULL, c.servers)}
         /\ q.text.scope = NULL => c.scopes = {Resolved(NULL, c.scopes)}
<1>. DEFINE t == q.text
<1>1. RunAccepts(c, t)
  BY FourChecks DEF REFUSED, Reading
<1>2. ASSUME NEW values, Resolved(NULL, values) # NULL
      PROVE  values = {Resolved(NULL, values)}
  <2>1. OnlyValue(values) # NULL /\ Resolved(NULL, values) = OnlyValue(values)
    BY <1>2 DEF Resolved
  <2>2. PICK v \in values : values = {v}
    BY <2>1 DEF OnlyValue
  <2>3. OnlyValue(values) = CHOOSE u \in values : TRUE
    BY <2>2 DEF OnlyValue
  <2>4. OnlyValue(values) \in values
    BY <2>2, <2>3
  <2>. QED
    BY <2>1, <2>2, <2>4
<1>. QED
  BY <1>1, <1>2 DEF RunAccepts
-----------------------------------------------------------------------------
(* The tables this module can produce: no lease is running out, and what   *)
(* was dispatched is held by nobody.                                       *)
Sane(T) ==
  /\ T \in Table
  /\ \A j \in JobId :
       /\ T[j].lease # 0
       /\ T[j].mode = "dispatch" => T[j].runner = NULL /\ T[j].state \in {RUNNING, NOT_DISPATCHED}
       /\ T[j].state = NOT_DISPATCHED => T[j].mode = "dispatch"

Typed ==
  /\ config \in Deployments /\ Serves(config)
  /\ definition \in [Triggers -> ActionKind \cup {"none"}]
  /\ delivery \in [Delivery -> DeliveryState]
  /\ task \in [Delivery -> {"none", "dispatching", "failed", "lost", "over"}]
  /\ github \in [JobId -> [runs : {0, 1}, heard : {0, 1}]]

(* What is under way was let through by the gate as it is configured now.  *)
Passed ==
  \A d \in Delivery :
    delivery[d].at = "resolved" => Verdict(config, Command[d[1]]) = "run"

DispatchedRow(j) == jobs[j].state # ABSENT /\ jobs[j].mode = "dispatch"

(* The task of a run, its row, and what GitHub has done.                   *)
OneTask ==
  \A d, f \in Delivery :
    d[1] = f[1] /\ task[d] # "none" /\ task[f] # "none" => d = f

TaskRows ==
  \A d \in Delivery :
    /\ task[d] # "none" => DispatchedRow(d[1])
    /\ task[d] = "dispatching" => github[d[1]].runs = 0 /\ jobs[d[1]].state = RUNNING
    /\ task[d] = "failed" => github[d[1]].heard = 0

Started ==
  \A j \in JobId :
    /\ github[j].runs = 0 => github[j].heard = 0
    /\ github[j].runs = 1 => DispatchedRow(j)
    /\ jobs[j].state = NOT_DISPATCHED => github[j].heard = 0

Tasks == OneTask /\ TaskRows /\ Started

(* What people were told, or are about to be.                              *)
Promised(d) == delivery[d] \in {Answered("accepted"), Recorded}

Unsettled(d) == delivery[d] \in {Answered("server error"), Died}

Words ==
  /\ \A d \in Delivery :
       Promised(d) \/ delivery[d] = Answered("duplicate") => jobs[d[1]].state # ABSENT
  /\ \A d, f \in Delivery : d[1] = f[1] /\ Promised(d) /\ Promised(f) => d = f
  /\ \A j \in JobId : jobs[j].state # ABSENT =>
       \E n \in 1..MaxDeliveries : Promised(<<j, n>>) \/ Unsettled(<<j, n>>)

IInv == Typed /\ Sane(jobs) /\ Passed /\ Tasks /\ Words
-----------------------------------------------------------------------------
(* What a request that is no run is answered.                              *)
LEMMA VerdictTypes ==
  ASSUME NEW c, NEW q
  PROVE  Verdict(c, q) \in UNREAD \cup {"run"}
BY DEF Verdict, Reading, UNREAD

LEMMA DeliveryTypes ==
  ASSUME NEW d \in Delivery
  PROVE  d[1] \in JobId /\ d[2] \in 1..MaxDeliveries /\ d = <<d[1], d[2]>>
BY DEF Delivery

(* The states of a delivery are told apart by their first field.           *)
LEMMA Stages ==
  /\ Unsent.at = "unsent" /\ Recorded.at = "recorded" /\ Died.at = "died"
  /\ \A kind : DoneBy(kind).at = "resolved"
  /\ \A reply : Answered(reply).at = "answered" /\ Answered(reply).reply = reply
<1>1. Unsent.at = "unsent" /\ Recorded.at = "recorded" /\ Died.at = "died"
  BY DEF Unsent, Recorded, Died
<1>2. \A kind : DoneBy(kind).at = "resolved"
  BY DEF DoneBy
<1>3. \A reply : Answered(reply).at = "answered" /\ Answered(reply).reply = reply
  BY DEF Answered
<1>. QED
  BY <1>1, <1>2, <1>3

LEMMA NoRowTypes == NoRow \in Row
BY LeaseAssumption DEF NoRow, Row, JobState, Mode
-----------------------------------------------------------------------------
(* What the statements of this module do to a sane table.                  *)
LEMMA InsertedRow ==
  ASSUME NEW T, Sane(T), NEW j \in JobId, NEW at \in Nat
  PROVE  /\ Sane(Dispatched(T, j, at)) /\ Sane(Enqueued(T, j, at))
         /\ \A k \in JobId \ {j} : Dispatched(T, j, at)[k] = T[k] /\ Enqueued(T, j, at)[k] = T[k]
         /\ Dispatched(T, j, at)[j].state = RUNNING /\ Dispatched(T, j, at)[j].mode = "dispatch"
         /\ Enqueued(T, j, at)[j].state = QUEUED
<1>. DEFINE new(state, mode) == [state |-> state, mode |-> mode, runner |-> NULL, lease |-> NULL,
                                 attempts |-> 0, created |-> at]
<1>1. new(RUNNING, "dispatch") \in Row /\ new(QUEUED, "test-server") \in Row
  BY DEF Row, JobState, Mode, ACTIVE_STATES, RUNNING, QUEUED
<1>2. /\ Dispatched(T, j, at) = [T EXCEPT ![j] = new(RUNNING, "dispatch")]
      /\ Enqueued(T, j, at) = [T EXCEPT ![j] = new(QUEUED, "test-server")]
  BY DEF Dispatched, Enqueued, Inserted
<1>3. T \in [JobId -> Row] /\ NULL # 0
  BY NullAssumption DEF Sane, Table
<1>. QED
  BY <1>1, <1>2, <1>3 DEF Sane, Table, RUNNING, QUEUED, NOT_DISPATCHED

LEMMA ClaimedRow ==
  ASSUME NEW T, Sane(T), NEW j \in JobId, T[j].state = QUEUED, NEW r \in Runner
  PROVE  /\ Sane(Claimed(T, j, r))
         /\ \A k \in JobId \ {j} : Claimed(T, j, r)[k] = T[k]
         /\ Claimed(T, j, r)[j].state = CLAIMED /\ T[j].mode = "test-server"
<1>. DEFINE row == [T[j] EXCEPT !.state = CLAIMED, !.runner = r, !.lease = LeaseTicks,
                                !.attempts = T[j].attempts + 1]
<1>1. T \in [JobId -> Row] /\ T[j] \in Row
  BY DEF Sane, Table
<1>2. T[j].mode = "test-server"
  BY <1>1 DEF Sane, Row, Mode, QUEUED, RUNNING, NOT_DISPATCHED
<1>3. LeaseTicks \in 0..LeaseTicks /\ LeaseTicks # 0 /\ T[j].attempts + 1 \in Nat
  BY <1>1, LeaseAssumption DEF Row
<1>4. row \in Row /\ row.state = CLAIMED /\ row.mode = T[j].mode /\ row.lease = LeaseTicks
  BY <1>1, <1>3 DEF Row, JobState, ACTIVE_STATES
<1>5. Claimed(T, j, r) = [T EXCEPT ![j] = row]
  BY DEF Claimed
<1>. HIDE DEF row
<1>. QED
  BY <1>1, <1>2, <1>3, <1>4, <1>5 DEF Sane, Table, CLAIMED, NOT_DISPATCHED

LEMMA FinishedRow ==
  ASSUME NEW T, Sane(T), NEW j \in JobId, NEW r \in Runner, CanFinish(T, j, r),
         NEW passed \in BOOLEAN
  PROVE  /\ Sane(Finished(T, j, passed))
         /\ \A k \in JobId \ {j} : Finished(T, j, passed)[k] = T[k]
         /\ Finished(T, j, passed)[j].state \in {DONE, FAILED}
         /\ T[j].mode = "test-server" /\ T[j].state # ABSENT
<1>. DEFINE row == [T[j] EXCEPT !.state = IF passed THEN DONE ELSE FAILED, !.lease = NULL]
<1>1. T \in [JobId -> Row] /\ T[j] \in Row
  BY DEF Sane, Table
<1>2. T[j].mode = "test-server" /\ T[j].state # ABSENT
  BY <1>1, NullAssumption DEF Sane, Row, Mode, CanFinish, BUSY_STATES, ABSENT, CLAIMED, RUNNING
<1>3. row \in Row /\ row.state \in {DONE, FAILED} /\ row.mode = T[j].mode /\ row.lease = NULL
  BY <1>1 DEF Row, JobState, TERMINAL_STATES
<1>4. Finished(T, j, passed) = [T EXCEPT ![j] = row]
  BY DEF Finished
<1>. HIDE DEF row
<1>. QED
  BY <1>1, <1>2, <1>3, <1>4, NullAssumption DEF Sane, Table, DONE, FAILED, NOT_DISPATCHED

LEMMA MarkedRow ==
  ASSUME NEW T, Sane(T), NEW j \in JobId, CanMarkNotDispatched(T, j), T[j].mode = "dispatch"
  PROVE  /\ Sane(MarkedNotDispatched(T, j))
         /\ \A k \in JobId \ {j} : MarkedNotDispatched(T, j)[k] = T[k]
         /\ MarkedNotDispatched(T, j)[j].state = NOT_DISPATCHED
         /\ MarkedNotDispatched(T, j)[j].mode = "dispatch"
         /\ T[j].state # ABSENT
<1>. DEFINE row == [T[j] EXCEPT !.state = NOT_DISPATCHED, !.lease = NULL]
<1>1. T \in [JobId -> Row] /\ T[j] \in Row
  BY DEF Sane, Table
<1>2. T[j].state # ABSENT /\ T[j].runner = NULL
  BY DEF CanMarkNotDispatched, ABSENT, QUEUED, RUNNING
<1>3. /\ row \in Row /\ row.state = NOT_DISPATCHED /\ row.mode = "dispatch"
      /\ row.lease = NULL /\ row.runner = NULL
  BY <1>1, <1>2 DEF Row, JobState, TERMINAL_STATES
<1>4. MarkedNotDispatched(T, j) = [T EXCEPT ![j] = row]
  BY DEF MarkedNotDispatched
<1>. HIDE DEF row
<1>. QED
  BY <1>1, <1>2, <1>3, <1>4, NullAssumption DEF Sane, Table
-----------------------------------------------------------------------------
(* Steps that start no task and end none, and leave the rows of dispatched *)
(* runs alone.                                                             *)
LEMMA TasksKept ==
  ASSUME Tasks, task' = task, github' = github,
         \A j \in JobId : /\ DispatchedRow(j) => jobs'[j] = jobs[j]
                          /\ jobs'[j].state = NOT_DISPATCHED => jobs[j].state = NOT_DISPATCHED
  PROVE  Tasks'
<1>1. OneTask'
  BY DEF Tasks, OneTask
<1>2. ASSUME NEW j \in JobId, DispatchedRow(j) PROVE DispatchedRow(j)'
  BY <1>2 DEF DispatchedRow
<1>3. TaskRows'
  BY <1>2, DeliveryTypes DEF Tasks, TaskRows
<1>4. Started'
  BY <1>2 DEF Tasks, Started
<1>. QED
  BY <1>1, <1>3, <1>4 DEF Tasks

(* Steps that promise nobody a run, in which no row comes or goes, and who *)
(* was promised one is answered, if only with an error.                    *)
LEMMA WordsKept ==
  ASSUME Words,
         \A d \in Delivery :
           /\ Promised(d)' => Promised(d)
           /\ Promised(d) \/ Unsettled(d) => Promised(d)' \/ Unsettled(d)'
           /\ delivery'[d] = Answered("duplicate") =>
                delivery[d] = Answered("duplicate") \/ jobs[d[1]].state # ABSENT,
         \A j \in JobId : jobs'[j].state = ABSENT <=> jobs[j].state = ABSENT
  PROVE  Words'
<1>1. ASSUME NEW d \in Delivery, Promised(d)' \/ delivery'[d] = Answered("duplicate")
      PROVE  jobs'[d[1]].state # ABSENT
  <2>1. d[1] \in JobId
    BY DeliveryTypes
  <2>2. jobs[d[1]].state # ABSENT
    BY <1>1 DEF Words
  <2>. QED
    BY <2>1, <2>2
<1>2. \A d, f \in Delivery : d[1] = f[1] /\ Promised(d)' /\ Promised(f)' => d = f
  BY DEF Words
<1>3. ASSUME NEW j \in JobId, jobs'[j].state # ABSENT
      PROVE  \E n \in 1..MaxDeliveries : Promised(<<j, n>>)' \/ Unsettled(<<j, n>>)'
  <2>1. PICK n \in 1..MaxDeliveries : Promised(<<j, n>>) \/ Unsettled(<<j, n>>)
    BY <1>3 DEF Words
  <2>2. <<j, n>> \in Delivery
    BY DEF Delivery
  <2>. QED
    BY <2>1, <2>2
<1>. QED
  BY <1>1, <1>2, <1>3 DEF Words

(* Steps of the other parts, which answer nobody.                          *)
LEMMA WordsUntouched ==
  ASSUME Words, UNCHANGED delivery,
         \A j \in JobId : jobs'[j].state = ABSENT <=> jobs[j].state = ABSENT
  PROVE  Words'
<1>1. \A d \in Delivery :
        /\ Promised(d)' <=> Promised(d)
        /\ Unsettled(d)' <=> Unsettled(d)
        /\ delivery'[d] = Answered("duplicate") => delivery[d] = Answered("duplicate")
  BY DEF Promised, Unsettled
<1>. QED
  BY <1>1, WordsKept

(* The row of a run comes with the promise of it, or with an HTTP 500.     *)
LEMMA WordsRecorded ==
  ASSUME Typed, Words, NEW d \in Delivery,
         jobs[d[1]].state = ABSENT, jobs'[d[1]].state # ABSENT,
         \A j \in JobId \ {d[1]} : jobs'[j] = jobs[j],
         NEW answer \in {Answered("accepted"), Recorded, Answered("server error")},
         delivery' = [delivery EXCEPT ![d] = answer]
  PROVE  Words'
<1>1. d[1] \in JobId
  BY DeliveryTypes
<1>2. /\ delivery'[d] = answer
      /\ \A f \in Delivery : f # d => delivery'[f] = delivery[f]
  BY DEF Typed
<1>3. \A f \in Delivery : f[1] = d[1] => ~Promised(f) /\ delivery[f] # Answered("duplicate")
  BY DEF Words
<1>4. \A f \in Delivery : f # d => /\ Promised(f)' <=> Promised(f)
                                   /\ Unsettled(f)' <=> Unsettled(f)
  BY <1>2 DEF Promised, Unsettled
<1>5. (Promised(d) \/ Unsettled(d))' /\ delivery'[d] # Answered("duplicate")
  <2>1. (Promised(d) \/ Unsettled(d))'
    BY <1>2 DEF Promised, Unsettled
  <2>2. /\ Answered("accepted").reply # Answered("duplicate").reply
        /\ Answered("server error").reply # Answered("duplicate").reply
        /\ Recorded.at # Answered("duplicate").at
    BY DEF Answered, Recorded
  <2>. QED
    BY <1>2, <2>1, <2>2
<1>6. ASSUME NEW f \in Delivery, Promised(f)' \/ delivery'[f] = Answered("duplicate")
      PROVE  jobs'[f[1]].state # ABSENT
  <2>1. f[1] \in JobId
    BY DeliveryTypes
  <2>2. CASE f[1] = d[1]
    BY <2>2
  <2>3. CASE f[1] # d[1]
    BY <1>2, <1>4, <1>6, <2>1, <2>3 DEF Words
  <2>. QED
    BY <2>2, <2>3
<1>7. \A f, g \in Delivery : f[1] = g[1] /\ Promised(f)' /\ Promised(g)' => f = g
  BY <1>3, <1>4 DEF Words
<1>8. ASSUME NEW j \in JobId, jobs'[j].state # ABSENT
      PROVE  \E n \in 1..MaxDeliveries : Promised(<<j, n>>)' \/ Unsettled(<<j, n>>)'
  <2>1. CASE j = d[1]
    BY <2>1, <1>5, DeliveryTypes
  <2>2. CASE j # d[1]
    <3>1. PICK n \in 1..MaxDeliveries : Promised(<<j, n>>) \/ Unsettled(<<j, n>>)
      BY <1>8, <2>2 DEF Words
    <3>2. <<j, n>> \in Delivery /\ <<j, n>> # d
      BY <2>2, DeliveryTypes DEF Delivery
    <3>. QED
      BY <3>1, <3>2, <1>4
  <2>. QED
    BY <2>1, <2>2
<1>. QED
  BY <1>6, <1>7, <1>8 DEF Words
-----------------------------------------------------------------------------
(* The edge starts, with nothing recorded and nothing asked for.           *)
LEMMA InitIInv == Init => IInv
<1>. SUFFICES ASSUME Init PROVE IInv
  OBVIOUS
<1>1. /\ \A j \in JobId : jobs[j] = NoRow /\ github[j] = [runs |-> 0, heard |-> 0]
      /\ \A d \in Delivery : delivery[d] = Unsent /\ task[d] = "none"
  BY DEF Init, EmptyTable
<1>2. Typed
  BY DEF Init, Typed, DeliveryState
<1>3. Sane(jobs)
  BY <1>1, NoRowTypes, NullAssumption
     DEF Init, EmptyTable, Sane, Table, NoRow, ABSENT, NOT_DISPATCHED
<1>4. Passed
  BY <1>1 DEF Passed, Unsent
<1>5. Tasks
  BY <1>1 DEF Tasks, OneTask, TaskRows, Started, NoRow, ABSENT, NOT_DISPATCHED
<1>6. Words
  BY <1>1 DEF Words, Promised, Unsent, Recorded, Answered, NoRow
<1>. QED
  BY <1>2, <1>3, <1>4, <1>5, <1>6 DEF IInv

LEMMA DeliverStep ==
  ASSUME IInv, NEW d \in Delivery, Deliver(d)
  PROVE  IInv'
<1>. DEFINE verdict == Verdict(config, Command[d[1]])
            kind == definition[Asked(config, d[1])]
<1>1. /\ delivery[d] = Unsent
      /\ UNCHANGED <<config, jobs, definition, task, github>>
  BY DEF Deliver
<1>2. verdict \in UNREAD \cup {"run"}
  BY VerdictTypes
<1>3. verdict = "run" => kind \in ActionKind \cup {"none"}
  <2>. SUFFICES ASSUME verdict = "run" PROVE Asked(config, d[1]) \in Triggers
    BY DEF IInv, Typed
  <2>1. d[1] \in JobId /\ config \in Deployments /\ Serves(config)
    BY DeliveryTypes DEF IInv, Typed
  <2>2. \E scope \in Scope : Asked(config, d[1]) = <<Job[d[1]].product, scope, Job[d[1]].server>>
    BY <2>1, DispatchAssumption DEF Asked
  <2>. QED
    BY <2>1, <2>2 DEF Triggers
<1>4. PICK new \in DeliveryState :
        /\ delivery' = [delivery EXCEPT ![d] = new]
        /\ new \notin {Answered("accepted"), Recorded, Answered("duplicate")}
        /\ new.at = "resolved" => verdict = "run"
  <2>1. CASE delivery' = [delivery EXCEPT ![d] =
               IF verdict # "run" THEN Answered(verdict)
               ELSE IF kind = "none" THEN Answered("no match") ELSE DoneBy(kind)]
    <3>. DEFINE n == IF verdict # "run" THEN Answered(verdict)
                     ELSE IF kind = "none" THEN Answered("no match") ELSE DoneBy(kind)
    <3>1. /\ n \in DeliveryState
          /\ n \notin {Answered("accepted"), Recorded, Answered("duplicate")}
          /\ n.at = "resolved" => verdict = "run"
      BY <1>2, <1>3 DEF DeliveryState, Answered, Recorded, DoneBy, UNREAD, ActionKind
    <3>2. delivery' = [delivery EXCEPT ![d] = n]
      BY <2>1
    <3>. HIDE DEF n
    <3>. QED
      BY <3>1, <3>2
  <2>2. CASE delivery' = [delivery EXCEPT ![d] = Answered("server error")]
    <3>1. /\ Answered("server error") \in DeliveryState
          /\ Answered("server error") \notin {Answered("accepted"), Recorded, Answered("duplicate")}
          /\ Answered("server error").at # "resolved"
      BY DEF DeliveryState, Answered, Recorded, UNREAD
    <3>. QED
      BY <2>2, <3>1
  <2>. QED
    BY <2>1, <2>2 DEF Deliver
<1>5. Typed'
  BY <1>1, <1>4 DEF IInv, Typed
<1>6. Passed'
  BY <1>1, <1>4 DEF IInv, Typed, Passed
<1>7. Tasks' /\ Sane(jobs)'
  BY <1>1, TasksKept DEF IInv, Sane
<1>8. Words'
  <2>1. \A f \in Delivery : f # d => delivery'[f] = delivery[f]
    BY <1>4 DEF IInv, Typed
  <2>2. ~Promised(d) /\ ~Unsettled(d)
    BY <1>1, Stages DEF Promised, Unsettled
  <2>3. ~Promised(d)' /\ delivery'[d] # Answered("duplicate")
    BY <1>4 DEF IInv, Typed, Promised
  <2>4. \A f \in Delivery : f # d => /\ Promised(f)' <=> Promised(f)
                                     /\ Unsettled(f)' <=> Unsettled(f)
    BY <2>1 DEF Promised, Unsettled
  <2>. QED
    BY <1>1, <2>1, <2>2, <2>3, <2>4, WordsKept DEF IInv
<1>. QED
  BY <1>5, <1>6, <1>7, <1>8 DEF IInv

(* A delivery that is answered is not under way any more.                  *)
LEMMA Told1 ==
  ASSUME IInv, NEW d \in Delivery,
         NEW answer \in DeliveryState, answer.at # "resolved",
         delivery' = [delivery EXCEPT ![d] = answer], UNCHANGED config
  PROVE  delivery' \in [Delivery -> DeliveryState] /\ Passed'
<1>1. delivery' \in [Delivery -> DeliveryState]
  BY DEF IInv, Typed
<1>2. \A f \in Delivery : delivery'[f].at = "resolved" => delivery[f].at = "resolved"
  BY DEF IInv, Typed
<1>. QED
  BY <1>1, <1>2 DEF IInv, Passed

(* Who is refused is promised nothing, and a duplicate has its run.        *)
LEMMA WordsRefused ==
  ASSUME IInv, NEW d \in Delivery, delivery[d].at = "resolved",
         NEW reply \in REFUSALS \cup {"busy"},
         reply = "duplicate" => Duplicate(jobs, d[1]),
         delivery' = [delivery EXCEPT ![d] = Answered(reply)],
         UNCHANGED <<config, jobs>>
  PROVE  Words' /\ Passed' /\ delivery' \in [Delivery -> DeliveryState]
<1>1. Answered(reply) \in DeliveryState /\ Answered(reply).at # "resolved"
  BY DEF DeliveryState, Answered
<1>2. delivery' \in [Delivery -> DeliveryState] /\ Passed'
  BY <1>1, Told1
<1>3. ~Promised(d) /\ ~Unsettled(d)
  BY Stages DEF Promised, Unsettled
<1>4. ~Promised(d)'
  <2>1. Answered(reply) \notin {Answered("accepted"), Recorded}
    <3>1. reply # "accepted"
      BY DEF REFUSALS
    <3>2. Answered(reply).reply # Answered("accepted").reply
      BY <3>1, Stages
    <3>3. Answered(reply).at # Recorded.at
      BY Stages
    <3>. QED
      BY <3>2, <3>3
  <2>. QED
    BY <2>1 DEF Promised, IInv, Typed
<1>5. delivery'[d] = Answered("duplicate") => jobs[d[1]].state # ABSENT
  BY DEF IInv, Typed, Answered, Duplicate
<1>6. \A f \in Delivery : f # d => delivery'[f] = delivery[f]
  BY DEF IInv, Typed
<1>7. \A f \in Delivery : f # d => /\ Promised(f)' <=> Promised(f)
                                   /\ Unsettled(f)' <=> Unsettled(f)
  BY <1>6 DEF Promised, Unsettled
<1>8. Words'
  BY <1>3, <1>4, <1>5, <1>6, <1>7, WordsKept DEF IInv
<1>. QED
  BY <1>2, <1>8

LEMMA RefusalTypes ==
  ASSUME NEW j, NEW kind
  PROVE  /\ Refusal(j, kind) \in REFUSALS
         /\ Refusal(j, kind) = "duplicate" => Duplicate(jobs, j)
BY DEF Refusal, REFUSALS

LEMMA Promises ==
  \A answer \in {Answered("accepted"), Recorded, Answered("server error")} :
    answer \in DeliveryState /\ answer.at # "resolved"
BY Stages DEF DeliveryState, UNREAD

LEMMA RecordStep ==
  ASSUME IInv, NEW d \in Delivery, Record(d)
  PROVE  IInv'
<1>. DEFINE j == d[1]
<1>1. /\ delivery[d].at = "resolved" /\ j \in JobId
      /\ UNCHANGED <<config, definition, github>>
  BY DeliveryTypes DEF Record, DoneBy
<1>2. CASE DispatchAccepted(jobs, j)
  <2>1. PICK at \in Stamp : jobs' = Dispatched(jobs, j, at)
    BY <1>2 DEF Record
  <2>2. /\ task' = [task EXCEPT ![d] = "dispatching"]
        /\ delivery' = [delivery EXCEPT ![d] = Answered("accepted")]
        /\ jobs[j].state = ABSENT
    BY <1>2 DEF Record, DispatchAccepted, Duplicate
  <2>3. /\ Sane(jobs')
        /\ \A k \in JobId \ {j} : jobs'[k] = jobs[k]
        /\ jobs'[j].state = RUNNING /\ jobs'[j].mode = "dispatch"
    <3>1. at \in Nat /\ Sane(jobs)
      BY StampAssumption DEF IInv
    <3>. HIDE DEF j
    <3>. QED
      BY <1>1, <2>1, <3>1, InsertedRow
  <2>4. delivery' \in [Delivery -> DeliveryState] /\ Passed'
    BY <1>1, <2>2, Told1, Promises
  <2>5. Typed'
    BY <1>1, <2>2, <2>4 DEF IInv, Typed
  <2>6. Words'
    BY <1>1, <2>2, <2>3, WordsRecorded DEF IInv, RUNNING, ABSENT
  <2>7. ~DispatchedRow(j)
    BY <2>2 DEF DispatchedRow
  <2>8. \A f \in Delivery : f[1] = j => task[f] = "none"
    BY <2>7 DEF IInv, Tasks, TaskRows
  <2>9. github[j].runs = 0 /\ github[j].heard = 0
    BY <1>1, <2>7 DEF IInv, Typed, Tasks, Started
  <2>10. \A k \in JobId : DispatchedRow(k)' <=> k = j \/ DispatchedRow(k)
    BY <2>3 DEF DispatchedRow, RUNNING, ABSENT
  <2>11. \A f \in Delivery : f # d => task'[f] = task[f]
    BY <2>2 DEF IInv, Typed
  <2>12. task'[d] = "dispatching"
    BY <2>2 DEF IInv, Typed
  <2>13. OneTask'
    BY <2>8, <2>11 DEF IInv, Tasks, OneTask
  <2>14. TaskRows'
    BY <1>1, <2>3, <2>8, <2>9, <2>10, <2>11, <2>12, DeliveryTypes DEF IInv, Tasks, TaskRows
  <2>15. Started'
    BY <1>1, <2>3, <2>9, <2>10 DEF IInv, Tasks, Started, RUNNING, NOT_DISPATCHED
  <2>. QED
    BY <2>3, <2>4, <2>5, <2>6, <2>13, <2>14, <2>15 DEF IInv, Tasks, Sane
<1>3. CASE ~DispatchAccepted(jobs, j)
  <2>1. /\ delivery' = [delivery EXCEPT ![d] = Answered(Refusal(j, "gh-action"))]
        /\ UNCHANGED <<jobs, task>>
    BY <1>3 DEF Record
  <2>2. PICK reply \in REFUSALS : /\ reply = "duplicate" => Duplicate(jobs, j)
                                  /\ delivery' = [delivery EXCEPT ![d] = Answered(reply)]
    BY <2>1, RefusalTypes
  <2>3. delivery' \in [Delivery -> DeliveryState] /\ Passed' /\ Words'
    BY <1>1, <2>1, <2>2, WordsRefused
  <2>4. Typed' /\ Sane(jobs)'
    BY <1>1, <2>1, <2>3 DEF IInv, Typed, Sane
  <2>5. Tasks'
    BY <1>1, <2>1, TasksKept DEF IInv
  <2>. QED
    BY <2>3, <2>4, <2>5 DEF IInv
<1>. QED
  BY <1>2, <1>3

(* A run is queued, and whoever asked for it is told so or gets a 500.     *)
LEMMA QueuedStep ==
  ASSUME IInv, NEW d \in Delivery, EnqueueAccepted(jobs, d[1]),
         NEW at \in Stamp, jobs' = Enqueued(jobs, d[1], at),
         NEW answer \in {Answered("accepted"), Recorded, Answered("server error")},
         delivery' = [delivery EXCEPT ![d] = answer],
         UNCHANGED <<config, definition, task, github>>
  PROVE  IInv'
<1>. DEFINE j == d[1]
<1>1. j \in JobId /\ jobs[j].state = ABSENT
  BY DeliveryTypes DEF EnqueueAccepted, Duplicate
<1>2. /\ Sane(jobs')
      /\ \A k \in JobId \ {j} : jobs'[k] = jobs[k]
      /\ jobs'[j].state = QUEUED
  BY <1>1, InsertedRow, StampAssumption DEF IInv
<1>3. delivery' \in [Delivery -> DeliveryState] /\ Passed'
  BY <1>1, Told1, Promises
<1>4. Typed'
  BY <1>3 DEF IInv, Typed
<1>5. Words'
  BY <1>1, <1>2, WordsRecorded DEF IInv, QUEUED, ABSENT
<1>6. Tasks'
  <2>1. \A k \in JobId : /\ DispatchedRow(k) => jobs'[k] = jobs[k]
                         /\ jobs'[k].state = NOT_DISPATCHED => jobs[k].state = NOT_DISPATCHED
    BY <1>1, <1>2 DEF DispatchedRow, QUEUED, NOT_DISPATCHED
  <2>. QED
    BY <2>1, TasksKept DEF IInv
<1>. QED
  BY <1>2, <1>3, <1>4, <1>5, <1>6 DEF IInv, Sane

LEMMA QueueStep ==
  ASSUME IInv, NEW d \in Delivery, Queue(d)
  PROVE  IInv'
<1>. DEFINE j == d[1]
<1>1. /\ delivery[d].at = "resolved" /\ j \in JobId
      /\ UNCHANGED <<config, definition, github, task>>
  BY DeliveryTypes DEF Queue, DoneBy
<1>2. CASE EnqueueAccepted(jobs, j)
  <2>1. PICK at \in Stamp : jobs' = Enqueued(jobs, j, at)
    BY <1>2 DEF Queue
  <2>2. delivery' = [delivery EXCEPT ![d] = Recorded]
    BY <1>2 DEF Queue
  <2>. QED
    BY <1>1, <1>2, <2>1, <2>2, QueuedStep
<1>3. CASE ~EnqueueAccepted(jobs, j)
  <2>1. /\ delivery' = [delivery EXCEPT ![d] = Answered(Refusal(j, "test-server"))]
        /\ UNCHANGED jobs
    BY <1>3 DEF Queue
  <2>2. PICK reply \in REFUSALS : /\ reply = "duplicate" => Duplicate(jobs, j)
                                  /\ delivery' = [delivery EXCEPT ![d] = Answered(reply)]
    BY <2>1, RefusalTypes
  <2>3. delivery' \in [Delivery -> DeliveryState] /\ Passed' /\ Words'
    BY <1>1, <2>1, <2>2, WordsRefused
  <2>4. Typed' /\ Sane(jobs)'
    BY <1>1, <2>1, <2>3 DEF IInv, Typed, Sane
  <2>5. Tasks'
    BY <1>1, <2>1, TasksKept DEF IInv
  <2>. QED
    BY <2>3, <2>4, <2>5 DEF IInv
<1>. QED
  BY <1>2, <1>3

(* The one who queued a run is told so, or gets a 500 with the run queued. *)
LEMMA CountOnlineStep ==
  ASSUME IInv, NEW d \in Delivery, CountOnline(d)
  PROVE  IInv'
<1>1. /\ delivery[d] = Recorded
      /\ UNCHANGED <<config, jobs, definition, task, github>>
  BY DEF CountOnline
<1>2. PICK answer \in {Answered("accepted"), Recorded, Answered("server error")} :
        delivery' = [delivery EXCEPT ![d] = answer]
  BY DEF CountOnline
<1>3. delivery' \in [Delivery -> DeliveryState] /\ Passed'
  BY <1>1, <1>2, Told1, Promises
<1>4. Typed' /\ Sane(jobs)' /\ Tasks'
  BY <1>1, <1>3, TasksKept DEF IInv, Typed, Sane
<1>5. Words'
  <2>1. /\ delivery'[d] = answer
        /\ \A f \in Delivery : f # d => delivery'[f] = delivery[f]
    BY <1>2 DEF IInv, Typed
  <2>2. \A f \in Delivery : f # d => /\ Promised(f)' <=> Promised(f)
                                     /\ Unsettled(f)' <=> Unsettled(f)
    BY <2>1 DEF Promised, Unsettled
  <2>3. Promised(d) /\ (Promised(d)' \/ Unsettled(d)')
    BY <1>1, <2>1 DEF Promised, Unsettled
  <2>4. delivery'[d] # Answered("duplicate")
    BY <2>1, Stages
  <2>. QED
    BY <1>1, <2>1, <2>2, <2>3, <2>4, WordsKept DEF IInv
<1>. QED
  BY <1>3, <1>4, <1>5 DEF IInv

(* A run that was dispatched without a task stays as it was recorded.      *)
LEMMA CommitUnheardStep ==
  ASSUME IInv, NEW d \in Delivery, CommitUnheard(d)
  PROVE  IInv'
<1>. DEFINE j == d[1]
            answer == Answered("server error")
<1>1. /\ delivery' = [delivery EXCEPT ![d] = answer] /\ j \in JobId
      /\ UNCHANGED <<config, definition, task, github>>
  BY DeliveryTypes DEF CommitUnheard
<1>2. answer \in {Answered("accepted"), Recorded, Answered("server error")}
  OBVIOUS
<1>. HIDE DEF answer
<1>3. ASSUME EnqueueAccepted(jobs, j), NEW at \in Stamp, jobs' = Enqueued(jobs, j, at)
      PROVE  IInv'
  BY <1>1, <1>2, <1>3, QueuedStep
<1>4. ASSUME DispatchAccepted(jobs, j), NEW at \in Stamp, jobs' = Dispatched(jobs, j, at)
      PROVE  IInv'
  <2>1. jobs[j].state = ABSENT
    BY <1>4 DEF DispatchAccepted, Duplicate
  <2>2. /\ Sane(jobs')
        /\ \A k \in JobId \ {j} : jobs'[k] = jobs[k]
        /\ jobs'[j].state = RUNNING /\ jobs'[j].mode = "dispatch"
    <3>1. at \in Nat /\ Sane(jobs)
      BY StampAssumption DEF IInv
    <3>. HIDE DEF j
    <3>. QED
      BY <1>1, <1>4, <3>1, InsertedRow
  <2>3. delivery' \in [Delivery -> DeliveryState] /\ Passed'
    BY <1>1, <1>2, Told1, Promises
  <2>4. Words'
    BY <1>1, <1>2, <2>1, <2>2, WordsRecorded DEF IInv, RUNNING, ABSENT
  <2>5. Tasks'
    <3>1. \A k \in JobId : /\ DispatchedRow(k) => jobs'[k] = jobs[k]
                           /\ jobs'[k].state = NOT_DISPATCHED => jobs[k].state = NOT_DISPATCHED
      BY <2>1, <2>2 DEF DispatchedRow, RUNNING, NOT_DISPATCHED
    <3>. QED
      BY <1>1, <3>1, TasksKept DEF IInv
  <2>6. Typed'
    BY <1>1, <2>3 DEF IInv, Typed
  <2>. QED
    BY <2>2, <2>3, <2>4, <2>5, <2>6 DEF IInv, Sane
<1>. QED
  BY <1>3, <1>4 DEF CommitUnheard

LEMMA BusyStep ==
  ASSUME IInv, NEW d \in Delivery, Busy(d)
  PROVE  IInv'
<1>1. /\ delivery[d].at = "resolved" /\ delivery' = [delivery EXCEPT ![d] = Answered("busy")]
      /\ UNCHANGED <<config, jobs, definition, task, github>>
  BY DEF Busy
<1>2. Words' /\ Passed' /\ delivery' \in [Delivery -> DeliveryState]
  <2>. DEFINE reply == "busy"
  <2>1. reply \in REFUSALS \cup {"busy"} /\ reply # "duplicate"
    OBVIOUS
  <2>2. delivery' = [delivery EXCEPT ![d] = Answered(reply)]
    BY <1>1
  <2>. HIDE DEF reply
  <2>. QED
    BY <1>1, <2>1, <2>2, WordsRefused
<1>3. Typed' /\ Sane(jobs)' /\ Tasks'
  BY <1>1, <1>2, TasksKept DEF IInv, Typed, Sane
<1>. QED
  BY <1>2, <1>3 DEF IInv
-----------------------------------------------------------------------------
(* GitHub is called once for a run: nothing was started before, and the    *)
(* task does not call again.                                               *)
LEMMA CallGitHubStep ==
  ASSUME IInv, NEW d \in Delivery, CallGitHub(d)
  PROVE  IInv'
<1>. DEFINE j == d[1]
<1>1. /\ task[d] = "dispatching" /\ j \in JobId
      /\ UNCHANGED <<config, jobs, definition, delivery>>
  BY DeliveryTypes DEF CallGitHub
<1>2. /\ github[j].runs = 0 /\ github[j].heard = 0
      /\ DispatchedRow(j) /\ jobs[j].state = RUNNING
  BY <1>1 DEF IInv, Tasks, TaskRows, Typed, Started
<1>3. PICK runs \in {0, 1}, heard \in {0, 1}, t \in {"failed", "over", "lost"} :
        /\ github' = [github EXCEPT ![j] = [runs |-> runs, heard |-> heard]]
        /\ task' = [task EXCEPT ![d] = t]
        /\ runs = 0 => heard = 0
        /\ t = "failed" => heard = 0
  <2>1. ASSUME NEW h \in {0, 1},
               github' = [github EXCEPT ![j] =
                 [runs |-> github[j].runs + 1, heard |-> github[j].heard + h]]
        PROVE  github' = [github EXCEPT ![j] = [runs |-> 1, heard |-> h]]
    BY <1>2, <2>1
  <2>2. github = [github EXCEPT ![j] = [runs |-> 0, heard |-> 0]]
    <3>1. github[j] = [runs |-> 0, heard |-> 0]
      BY <1>1, <1>2 DEF IInv, Typed
    <3>. QED
      BY <1>1, <3>1 DEF IInv, Typed
  <2>3. CASE /\ github' = [github EXCEPT ![j] =
                  [runs |-> github[j].runs + 1, heard |-> github[j].heard + 1]]
             /\ task' = [task EXCEPT ![d] = "over"]
    BY <2>1, <2>3
  <2>4. CASE /\ github' = [github EXCEPT ![j] =
                  [runs |-> github[j].runs + 1, heard |-> github[j].heard + 0]]
             /\ task' = [task EXCEPT ![d] = "failed"]
    BY <2>1, <2>4
  <2>5. CASE UNCHANGED github /\ task' = [task EXCEPT ![d] = "failed"]
    BY <2>2, <2>5
  <2>6. CASE UNCHANGED github /\ task' = [task EXCEPT ![d] = "lost"]
    BY <2>2, <2>6
  <2>. QED
    BY <2>3, <2>4, <2>5, <2>6 DEF CallGitHub
<1>4. /\ \A f \in Delivery : f # d => task'[f] = task[f]
      /\ task'[d] \in {"failed", "over", "lost"}
      /\ \A k \in JobId : k # j => github'[k] = github[k]
      /\ github'[j].runs = 0 => github'[j].heard = 0
      /\ task'[d] = "failed" => github'[j].heard = 0
  BY <1>1, <1>3 DEF IInv, Typed
<1>5. Typed'
  BY <1>1, <1>3 DEF IInv, Typed
<1>6. OneTask'
  BY <1>1, <1>4 DEF IInv, Tasks, OneTask
<1>7. \A f \in Delivery : f # d /\ task[f] # "none" => f[1] # j
  BY <1>1 DEF IInv, Tasks, OneTask
<1>8. TaskRows'
  BY <1>1, <1>2, <1>4, <1>7, DeliveryTypes DEF IInv, Tasks, TaskRows, DispatchedRow
<1>9. Started'
  BY <1>1, <1>2, <1>4 DEF IInv, Tasks, Started, DispatchedRow, RUNNING, NOT_DISPATCHED
<1>10. Words'
  BY <1>1, WordsUntouched DEF IInv
<1>. QED
  BY <1>1, <1>5, <1>6, <1>8, <1>9, <1>10 DEF IInv, Tasks, Sane, Passed

(* Only a task that failed says so, and GitHub had not told it otherwise.  *)
LEMMA MarkStep ==
  ASSUME IInv, NEW d \in Delivery, Mark(d)
  PROVE  IInv'
<1>. DEFINE j == d[1]
<1>1. /\ task[d] = "failed" /\ j \in JobId
      /\ UNCHANGED <<config, definition, delivery, github>>
  BY DeliveryTypes DEF Mark
<1>2. github[j].heard = 0 /\ DispatchedRow(j)
  BY <1>1 DEF IInv, Tasks, TaskRows
<1>3. PICK t \in {"over", "lost"} : task' = [task EXCEPT ![d] = t]
  BY DEF Mark
<1>4. /\ \A f \in Delivery : f # d => task'[f] = task[f]
      /\ task'[d] \in {"over", "lost"}
  BY <1>3 DEF IInv, Typed
<1>5. Typed' /\ OneTask' /\ Passed'
  BY <1>1, <1>3, <1>4 DEF IInv, Typed, Tasks, OneTask, Passed
<1>6. CASE UNCHANGED jobs
  <2>1. TaskRows' /\ Started'
    BY <1>1, <1>2, <1>4, <1>6, DeliveryTypes DEF IInv, Tasks, TaskRows, Started, DispatchedRow
  <2>2. Words'
    BY <1>1, <1>6, WordsUntouched DEF IInv
  <2>. QED
    BY <1>5, <1>6, <2>1, <2>2 DEF IInv, Tasks, Sane
<1>7. CASE CanMarkNotDispatched(jobs, j) /\ jobs' = MarkedNotDispatched(jobs, j)
  <2>1. /\ Sane(jobs') /\ \A k \in JobId \ {j} : jobs'[k] = jobs[k]
        /\ jobs'[j].state = NOT_DISPATCHED /\ jobs'[j].mode = "dispatch"
    <3>1. jobs[j].mode = "dispatch" /\ Sane(jobs)
      BY <1>2 DEF DispatchedRow, IInv
    <3>. HIDE DEF j
    <3>. QED
      BY <1>1, <1>7, <3>1, MarkedRow
  <2>2. \A k \in JobId : DispatchedRow(k)' <=> DispatchedRow(k)
    BY <1>1, <1>2, <2>1 DEF DispatchedRow, NOT_DISPATCHED, ABSENT
  <2>3. \A f \in Delivery : f # d /\ task[f] # "none" => f[1] # j
    BY <1>1 DEF IInv, Tasks, OneTask
  <2>4. TaskRows'
    BY <1>1, <1>4, <2>1, <2>2, <2>3, DeliveryTypes DEF IInv, Tasks, TaskRows
  <2>5. Started'
    BY <1>1, <1>2, <2>1, <2>2 DEF IInv, Tasks, Started
  <2>6. Words'
    <3>1. \A k \in JobId : jobs'[k].state = ABSENT <=> jobs[k].state = ABSENT
      BY <1>2, <2>1 DEF DispatchedRow, NOT_DISPATCHED, ABSENT
    <3>. QED
      BY <1>1, <3>1, WordsUntouched DEF IInv
  <2>. QED
    BY <1>5, <2>1, <2>4, <2>5, <2>6 DEF IInv, Tasks, Sane
<1>. QED
  BY <1>6, <1>7 DEF Mark

(* What was under way goes with the process; what it had recorded stays.   *)
LEMMA CrashStep ==
  ASSUME IInv, Crash
  PROVE  IInv'
<1>1. /\ config' \in Deployments /\ Serves(config')
      /\ UNCHANGED <<jobs, definition, github>>
      /\ task' = [d \in Delivery |->
           IF task[d] \in {"dispatching", "failed"} THEN "lost" ELSE task[d]]
  BY DEF Crash
<1>2. PICK unheard \in SUBSET Delivery :
        delivery' = [d \in Delivery |->
          IF delivery[d].at \in {"resolved", "recorded"} \/ d \in unheard
          THEN Died ELSE delivery[d]]
  BY DEF Crash
<1>3. \A d \in Delivery : /\ delivery'[d] \in {delivery[d], Died}
                          /\ delivery[d] = Died => delivery'[d] = Died
                          /\ delivery'[d].at # "resolved"
  BY <1>2 DEF Died
<1>4. Typed'
  <2>1. delivery' \in [Delivery -> DeliveryState]
    BY <1>2 DEF IInv, Typed, DeliveryState
  <2>2. Serves(config)'
    BY <1>1 DEF Serves, Missing
  <2>. QED
    BY <1>1, <2>1, <2>2 DEF IInv, Typed
<1>5. Passed'
  BY <1>3 DEF Passed
<1>6. \A d \in Delivery : /\ (task'[d] = "none") <=> (task[d] = "none")
                          /\ task'[d] \notin {"dispatching", "failed"}
  BY <1>1
<1>7. Tasks'
  BY <1>1, <1>6, DeliveryTypes DEF IInv, Tasks, OneTask, TaskRows, Started, DispatchedRow
<1>8. Words'
  <2>1. Died \notin {Answered("accepted"), Recorded, Answered("duplicate")}
    BY Stages
  <2>2. \A d \in Delivery : Promised(d)' => Promised(d)
    BY <1>3, <2>1 DEF Promised
  <2>3. \A d \in Delivery : Promised(d) \/ Unsettled(d) => Promised(d)' \/ Unsettled(d)'
    BY <1>3 DEF Promised, Unsettled
  <2>4. \A d \in Delivery :
          delivery'[d] = Answered("duplicate") => delivery[d] = Answered("duplicate")
    BY <1>3, <2>1
  <2>. QED
    BY <1>1, <2>2, <2>3, <2>4, WordsKept DEF IInv
<1>. QED
  BY <1>1, <1>4, <1>5, <1>7, <1>8 DEF IInv, Sane

LEMMA RedefineStep ==
  ASSUME IInv, NEW t \in Triggers, Redefine(t)
  PROVE  IInv'
<1>1. UNCHANGED <<config, jobs, delivery, task, github>>
  BY DEF Redefine
<1>2. Typed'
  BY DEF IInv, Typed, Redefine
<1>3. Words' /\ Tasks'
  BY <1>1, WordsUntouched, TasksKept DEF IInv
<1>. QED
  BY <1>1, <1>2, <1>3 DEF IInv, Sane, Passed

(* A test server takes and ends runs that were queued, and no other.       *)
LEMMA FleetStep ==
  ASSUME IInv, NEW j \in JobId, Sane(jobs'),
         \A k \in JobId \ {j} : jobs'[k] = jobs[k],
         jobs[j].state # ABSENT, jobs[j].mode = "test-server",
         jobs'[j].state \in {CLAIMED, DONE, FAILED},
         UNCHANGED <<config, definition, delivery, task, github>>
  PROVE  IInv'
<1>1. Typed' /\ Passed'
  BY DEF IInv, Typed, Passed
<1>2. Tasks'
  <2>1. \A k \in JobId : /\ DispatchedRow(k) => jobs'[k] = jobs[k]
                         /\ jobs'[k].state = NOT_DISPATCHED => jobs[k].state = NOT_DISPATCHED
    BY DEF DispatchedRow, CLAIMED, DONE, FAILED, NOT_DISPATCHED
  <2>. QED
    BY <2>1, TasksKept DEF IInv
<1>3. Words'
  <2>1. \A k \in JobId : jobs'[k].state = ABSENT <=> jobs[k].state = ABSENT
    BY DEF ABSENT, CLAIMED, DONE, FAILED
  <2>. QED
    BY <2>1, WordsUntouched DEF IInv
<1>. QED
  BY <1>1, <1>2, <1>3 DEF IInv, Sane

LEMMA ClaimStep ==
  ASSUME IInv, NEW r \in Runner, Claim(r)
  PROVE  IInv'
<1>1. PICK j \in JobId : jobs[j].state = QUEUED /\ jobs' = Claimed(jobs, j, r)
  BY DEF Claim, Oldest, Claimable, InState
<1>2. Sane(jobs)
  BY DEF IInv
<1>3. /\ Sane(jobs') /\ \A k \in JobId \ {j} : jobs'[k] = jobs[k]
      /\ jobs'[j].state = CLAIMED /\ jobs[j].mode = "test-server"
  BY <1>1, <1>2, ClaimedRow
<1>. QED
  BY <1>1, <1>3, FleetStep DEF Claim, QUEUED, ABSENT

LEMMA FinishStep ==
  ASSUME IInv, NEW j \in JobId, NEW r \in Runner, NEW passed \in BOOLEAN, Finish(j, r, passed)
  PROVE  IInv'
<1>1. Sane(jobs) /\ CanFinish(jobs, j, r) /\ jobs' = Finished(jobs, j, passed)
  BY DEF IInv, Finish
<1>2. /\ Sane(jobs') /\ \A k \in JobId \ {j} : jobs'[k] = jobs[k]
      /\ jobs'[j].state \in {DONE, FAILED}
      /\ jobs[j].mode = "test-server" /\ jobs[j].state # ABSENT
  BY <1>1, FinishedRow
<1>. QED
  BY <1>2, FleetStep DEF Finish

LEMMA NextIInv == IInv /\ [Next]_vars => IInv'
<1>. SUFFICES ASSUME IInv, [Next]_vars PROVE IInv'
  OBVIOUS
<1>1. ASSUME NEW d \in Delivery, Deliver(d) PROVE IInv'
  BY <1>1, DeliverStep
<1>2. ASSUME NEW d \in Delivery, Record(d) PROVE IInv'
  BY <1>2, RecordStep
<1>3. ASSUME NEW d \in Delivery, Queue(d) PROVE IInv'
  BY <1>3, QueueStep
<1>4. ASSUME NEW d \in Delivery, Busy(d) PROVE IInv'
  BY <1>4, BusyStep
<1>12. ASSUME NEW d \in Delivery, CountOnline(d) PROVE IInv'
  BY <1>12, CountOnlineStep
<1>13. ASSUME NEW d \in Delivery, CommitUnheard(d) PROVE IInv'
  BY <1>13, CommitUnheardStep
<1>5. ASSUME NEW d \in Delivery, CallGitHub(d) PROVE IInv'
  BY <1>5, CallGitHubStep
<1>6. ASSUME NEW d \in Delivery, Mark(d) PROVE IInv'
  BY <1>6, MarkStep
<1>7. ASSUME NEW t \in Triggers, Redefine(t) PROVE IInv'
  BY <1>7, RedefineStep
<1>8. ASSUME NEW r \in Runner, Claim(r) PROVE IInv'
  BY <1>8, ClaimStep
<1>9. ASSUME NEW j \in JobId, NEW r \in Runner, NEW passed \in BOOLEAN, Finish(j, r, passed)
      PROVE  IInv'
  BY <1>9, FinishStep
<1>10. CASE Crash
  BY <1>10, CrashStep
<1>11. CASE UNCHANGED vars
  <2>1. UNCHANGED <<config, jobs, definition, delivery, task, github>>
    BY <1>11 DEF vars
  <2>2. Words' /\ Tasks'
    BY <2>1, WordsUntouched, TasksKept DEF IInv
  <2>. QED
    BY <2>1, <2>2 DEF IInv, Typed, Sane, Passed
<1>. QED
  BY <1>1, <1>2, <1>3, <1>4, <1>5, <1>6, <1>7, <1>8, <1>9, <1>10, <1>11,
     <1>12, <1>13 DEF Next
-----------------------------------------------------------------------------
(* The invariant the theorems below follow from.                           *)
THEOREM Invariant == Spec => []IInv
BY InitIInv, NextIInv, PTL DEF Spec

(* The state has its types.                                                *)
THEOREM TypeCorrect == Spec => []TypeOK
<1>1. IInv => TypeOK
  <2>1. {0, 1} \subseteq 0..MaxDeliveries
    <3>1. MaxDeliveries \in Nat /\ MaxDeliveries # 0
      BY DispatchAssumption
    <3>. QED
      BY <3>1
  <2>. QED
    BY <2>1 DEF IInv, Typed, Sane, TypeOK
<1>. QED
  BY <1>1, Invariant, PTL

(* One command is one run, whatever is delivered how often: GitHub starts  *)
(* at most one workflow for it, and none without a row that says so.       *)
THEOREM OneRunPerCommandAlways == Spec => []OneRunPerCommand
<1>1. IInv => OneRunPerCommand
  <2>. SUFFICES ASSUME IInv, NEW j \in JobId
                PROVE  /\ github[j].runs <= 1
                       /\ github[j].runs = 1 => jobs[j].state # ABSENT /\ jobs[j].mode = "dispatch"
    BY DEF OneRunPerCommand
  <2>1. github[j].runs \in {0, 1}
    BY DEF IInv, Typed
  <2>. QED
    BY <2>1 DEF IInv, Tasks, Started, DispatchedRow
<1>. QED
  BY <1>1, Invariant, PTL

(* People are told of a run at most once; who is told of one, or that it   *)
(* was asked for before, has it; and of every run somebody is told, unless *)
(* the answer is an HTTP 500 or the edge ends before it is given.          *)
THEOREM AnswersAreTrueAlways == Spec => []AnswersAreTrue
<1>1. IInv => AnswersAreTrue
  <2>. SUFFICES ASSUME IInv, NEW j \in JobId
                PROVE  /\ Cardinality(Told(j, "accepted")) <= 1
                       /\ Told(j, "accepted") \cup Told(j, "duplicate") # {} =>
                            jobs[j].state # ABSENT
                       /\ jobs[j].state # ABSENT =>
                            \/ Told(j, "accepted") \cup Told(j, "server error") # {}
                            \/ \E n \in 1..MaxDeliveries :
                                 delivery[<<j, n>>] \in {Recorded, Died}
    BY DEF AnswersAreTrue
  <2>1. ASSUME NEW n \in Told(j, "accepted"), NEW m \in Told(j, "accepted") PROVE n = m
    <3>1. <<j, n>> \in Delivery /\ <<j, m>> \in Delivery
      BY DEF Told, Delivery
    <3>2. Promised(<<j, n>>) /\ Promised(<<j, m>>)
      BY DEF Told, Promised
    <3>3. <<j, n>>[1] = <<j, m>>[1]
      OBVIOUS
    <3>4. <<j, n>> = <<j, m>>
      BY <3>1, <3>2, <3>3 DEF IInv, Words
    <3>. QED
      BY <3>4
  <2>2. Cardinality(Told(j, "accepted")) <= 1
    <3>1. CASE Told(j, "accepted") = {}
      BY <3>1, FS_EmptySet
    <3>2. CASE Told(j, "accepted") # {}
      <4>1. PICK n \in Told(j, "accepted") : TRUE
        BY <3>2
      <4>2. Told(j, "accepted") = {n}
        BY <2>1, <4>1
      <4>. QED
        BY <4>2, FS_Singleton
    <3>. QED
      BY <3>1, <3>2
  <2>3. ASSUME NEW n \in Told(j, "accepted") \cup Told(j, "duplicate")
        PROVE  jobs[j].state # ABSENT
    <3>1. <<j, n>> \in Delivery /\ <<j, n>>[1] = j
      BY DEF Told, Delivery
    <3>2. Promised(<<j, n>>) \/ delivery[<<j, n>>] = Answered("duplicate")
      BY DEF Told, Promised
    <3>. QED
      BY <3>1, <3>2 DEF IInv, Words
  <2>4. ASSUME jobs[j].state # ABSENT
        PROVE  \/ Told(j, "accepted") \cup Told(j, "server error") # {}
               \/ \E n \in 1..MaxDeliveries : delivery[<<j, n>>] \in {Recorded, Died}
    <3>1. PICK n \in 1..MaxDeliveries : Promised(<<j, n>>) \/ Unsettled(<<j, n>>)
      BY <2>4 DEF IInv, Words
    <3>. QED
      BY <3>1 DEF Promised, Unsettled, Told
  <2>. QED
    BY <2>2, <2>3, <2>4
<1>. QED
  BY <1>1, Invariant, PTL

(* "Never started" is never said of a run a test server waits for or held, *)
(* nor of one GitHub said it had started.                                  *)
THEOREM NeverStartedIsTrueAlways == Spec => []NeverStartedIsTrue
<1>1. IInv => NeverStartedIsTrue
  BY DEF IInv, Sane, Tasks, Started, NeverStartedIsTrue
<1>. QED
  BY <1>1, Invariant, PTL

(* A run is recorded only for those the configuration in force entitles to *)
(* it, whatever the configurations were before.                            *)
THEOREM OnlyEntitledRunsAlways == Spec => OnlyEntitledRuns
<1>1. ASSUME IInv, Next, NEW j \in JobId, jobs[j].state = ABSENT, jobs'[j].state # ABSENT
      PROVE  config.insecure \/ Entitled(config, Command[j])
  <2>1. ASSUME NEW d \in Delivery, Record(d) \/ Queue(d) \/ CommitUnheard(d)
        PROVE  config.insecure \/ Entitled(config, Command[j])
    <3>1. d[1] \in JobId /\ Sane(jobs)
      BY <1>1, DeliveryTypes DEF IInv
    <3>2. delivery[d].at = "resolved"
      BY <2>1, Stages DEF Record, Queue, CommitUnheard
    <3>3. \A k \in JobId : k # d[1] => jobs'[k] = jobs[k]
      <4>1. \A at \in Stamp : at \in Nat
        BY StampAssumption
      <4>2. CASE UNCHANGED jobs
        BY <4>2
      <4>3. ASSUME NEW at \in Stamp,
                   jobs' = Dispatched(jobs, d[1], at) \/ jobs' = Enqueued(jobs, d[1], at)
            PROVE  \A k \in JobId : k # d[1] => jobs'[k] = jobs[k]
        <5>. DEFINE i == d[1]
        <5>1. at \in Nat /\ i \in JobId /\ (jobs' = Dispatched(jobs, i, at) \/ jobs' = Enqueued(jobs, i, at))
          BY <3>1, <4>1, <4>3
        <5>. HIDE DEF i
        <5>2. \A k \in JobId \ {i} : /\ Dispatched(jobs, i, at)[k] = jobs[k]
                                     /\ Enqueued(jobs, i, at)[k] = jobs[k]
          BY <3>1, <5>1, InsertedRow
        <5>. QED
          BY <5>1, <5>2 DEF i
      <4>. QED
        BY <2>1, <4>2, <4>3 DEF Record, Queue, CommitUnheard
    <3>4. d[1] = j
      BY <1>1, <3>3
    <3>5. Verdict(config, Command[j]) = "run" /\ Serves(config) /\ config \in Configuration
      BY <1>1, <3>2, <3>4, DispatchAssumption DEF IInv, Passed, Typed
    <3>6. Command[j] \in Request
      BY DispatchAssumption
    <3>7. NULL \notin Product \cup Server \cup Scope
      BY DispatchAssumption
    <3>. QED
      BY <3>5, <3>6, <3>7, RunsAreEntitled
  <2>2. ASSUME NEW d \in Delivery, Deliver(d) \/ CountOnline(d) \/ Busy(d) \/ CallGitHub(d)
        PROVE  FALSE
    BY <1>1, <2>2 DEF Deliver, CountOnline, Busy, CallGitHub
  <2>3. ASSUME NEW d \in Delivery, Mark(d) PROVE FALSE
    <3>1. d[1] \in JobId /\ jobs[d[1]].mode = "dispatch" /\ Sane(jobs)
      BY <1>1, <2>3, DeliveryTypes DEF IInv, Tasks, TaskRows, DispatchedRow, Mark
    <3>2. CASE UNCHANGED jobs
      BY <1>1, <3>2
    <3>3. CASE CanMarkNotDispatched(jobs, d[1]) /\ jobs' = MarkedNotDispatched(jobs, d[1])
      BY <1>1, <3>1, <3>3, MarkedRow
    <3>. QED
      BY <2>3, <3>2, <3>3 DEF Mark
  <2>4. ASSUME NEW t \in Triggers, Redefine(t) PROVE FALSE
    BY <1>1, <2>4 DEF Redefine
  <2>5. ASSUME NEW r \in Runner, Claim(r) PROVE FALSE
    <3>1. PICK k \in JobId : jobs[k].state = QUEUED /\ jobs' = Claimed(jobs, k, r)
      BY <2>5 DEF Claim, Oldest, Claimable, InState
    <3>2. Sane(jobs)
      BY <1>1 DEF IInv
    <3>. QED
      BY <1>1, <3>1, <3>2, ClaimedRow DEF QUEUED, ABSENT
  <2>6. ASSUME NEW k \in JobId, NEW r \in Runner, NEW passed \in BOOLEAN, Finish(k, r, passed)
        PROVE  FALSE
    <3>1. Sane(jobs) /\ CanFinish(jobs, k, r) /\ jobs' = Finished(jobs, k, passed)
      BY <1>1, <2>6 DEF IInv, Finish
    <3>. QED
      BY <1>1, <3>1, FinishedRow
  <2>7. CASE Crash
    BY <1>1, <2>7 DEF Crash
  <2>. QED
    BY <1>1, <2>1, <2>2, <2>3, <2>4, <2>5, <2>6, <2>7 DEF Next
<1>2. IInv /\ [Next]_vars =>
        [\A j \in JobId : jobs[j].state = ABSENT /\ jobs'[j].state # ABSENT =>
           config.insecure \/ Entitled(config, Command[j])]_vars
  BY <1>1
<1>. QED
  BY <1>2, Invariant, PTL DEF Spec, OnlyEntitledRuns
-----------------------------------------------------------------------------
(* The statements of this module are those of the store it uses.           *)
LEMMA SameStates ==
  /\ Store!ABSENT = ABSENT /\ Store!QUEUED = QUEUED /\ Store!CLAIMED = CLAIMED
  /\ Store!RUNNING = RUNNING /\ Store!DONE = DONE /\ Store!FAILED = FAILED
  /\ Store!ABANDONED = ABANDONED /\ Store!NOT_DISPATCHED = NOT_DISPATCHED
  /\ Store!ACTIVE_STATES = ACTIVE_STATES /\ Store!BUSY_STATES = BUSY_STATES
BY DEF ABSENT, QUEUED, CLAIMED, RUNNING, DONE, FAILED, ABANDONED, NOT_DISPATCHED,
       ACTIVE_STATES, BUSY_STATES, Store!ABSENT, Store!QUEUED, Store!CLAIMED, Store!RUNNING,
       Store!DONE, Store!FAILED, Store!ABANDONED, Store!NOT_DISPATCHED,
       Store!ACTIVE_STATES, Store!BUSY_STATES

LEMMA SameCaps ==
  ASSUME NEW T, NEW j
  PROVE  /\ Store!JobAtCapacity(T, j) <=> JobAtCapacity(T, j)
         /\ Store!ChannelQueueFull(T, j) <=> ChannelQueueFull(T, j)
         /\ Store!ChannelBusy(T, j) <=> ChannelBusy(T, j)
<1>1. ASSUME NEW S PROVE Store!Cardinality(S) = Cardinality(S)
  BY DEF Cardinality, Store!Cardinality
<1>2. ASSUME NEW S, NEW cap PROVE Store!AtCap(S, cap) <=> AtCap(S, cap)
  BY <1>1 DEF AtCap, Store!AtCap
<1>3. ASSUME NEW S PROVE Store!InState(T, S) = InState(T, S)
  BY DEF InState, Store!InState
<1>4. ASSUME NEW c PROVE Store!InChannel(c) = InChannel(c)
  BY DEF InChannel, Store!InChannel
<1>5. Store!ActiveOf(T, j) = ActiveOf(T, j)
  BY <1>3, SameStates DEF ActiveOf, Store!ActiveOf, SameJob, Store!SameJob
<1>6. ASSUME NEW c
      PROVE  Store!QueuedIn(T, c) = QueuedIn(T, c) /\ Store!BusyIn(T, c) = BusyIn(T, c)
  BY <1>3, <1>4, SameStates DEF QueuedIn, BusyIn, Store!QueuedIn, Store!BusyIn
<1>7. Store!JobAtCapacity(T, j) <=> JobAtCapacity(T, j)
  BY <1>2, <1>5 DEF JobAtCapacity, Store!JobAtCapacity
<1>8. Store!ChannelQueueFull(T, j) <=> ChannelQueueFull(T, j)
  BY <1>2, <1>6 DEF ChannelQueueFull, Store!ChannelQueueFull
<1>9. Store!ChannelBusy(T, j) <=> ChannelBusy(T, j)
  BY <1>2, <1>6 DEF ChannelBusy, Store!ChannelBusy
<1>. QED
  BY <1>7, <1>8, <1>9

LEMMA SameStatements ==
  ASSUME NEW T, NEW j, NEW at, NEW r, NEW passed
  PROVE  /\ Store!EnqueueAccepted(T, j) <=> EnqueueAccepted(T, j)
         /\ Store!DispatchAccepted(T, j) <=> DispatchAccepted(T, j)
         /\ Store!CanFinish(T, j, r) <=> CanFinish(T, j, r)
         /\ Store!CanMarkNotDispatched(T, j) <=> CanMarkNotDispatched(T, j)
         /\ Store!Enqueued(T, j, at) = Enqueued(T, j, at)
         /\ Store!Dispatched(T, j, at) = Dispatched(T, j, at)
         /\ Store!Claimed(T, j, r) = Claimed(T, j, r)
         /\ Store!Finished(T, j, passed) = Finished(T, j, passed)
         /\ Store!MarkedNotDispatched(T, j) = MarkedNotDispatched(T, j)
<1>1. Store!Duplicate(T, j) <=> Duplicate(T, j)
  BY SameStates DEF Duplicate, Store!Duplicate
<1>2. /\ Store!EnqueueAccepted(T, j) <=> EnqueueAccepted(T, j)
      /\ Store!DispatchAccepted(T, j) <=> DispatchAccepted(T, j)
  BY <1>1, SameCaps DEF EnqueueAccepted, DispatchAccepted, Store!EnqueueAccepted,
     Store!DispatchAccepted
<1>3. /\ Store!CanFinish(T, j, r) <=> CanFinish(T, j, r)
      /\ Store!CanMarkNotDispatched(T, j) <=> CanMarkNotDispatched(T, j)
  BY SameStates DEF CanFinish, CanMarkNotDispatched, Store!CanFinish,
     Store!CanMarkNotDispatched
<1>4. /\ Store!Enqueued(T, j, at) = Enqueued(T, j, at)
      /\ Store!Dispatched(T, j, at) = Dispatched(T, j, at)
  BY SameStates DEF Enqueued, Dispatched, Inserted, Store!Enqueued, Store!Dispatched,
     Store!Inserted
<1>5. /\ Store!Claimed(T, j, r) = Claimed(T, j, r)
      /\ Store!Finished(T, j, passed) = Finished(T, j, passed)
      /\ Store!MarkedNotDispatched(T, j) = MarkedNotDispatched(T, j)
  BY SameStates DEF Claimed, Finished, MarkedNotDispatched, Store!Claimed, Store!Finished,
     Store!MarkedNotDispatched
<1>. QED
  BY <1>2, <1>3, <1>4, <1>5

(* Where no lease has run out there is nothing for a claim to take back.   *)
LEMMA NothingToReap ==
  ASSUME NEW T, Sane(T)
  PROVE  Store!Reaped(T) = T
<1>1. Store!Expired(T) = {}
  BY DEF Sane, Store!Expired, Store!InState
<1>2. T = [j \in JobId |-> T[j]]
  BY DEF Sane, Table
<1>3. Store!Requeued(T) = T
  BY <1>1, <1>2 DEF Store!Requeued
<1>4. Store!Abandoned(T) = T
  BY <1>1, <1>2 DEF Store!Abandoned
<1>. QED
  BY <1>3, <1>4 DEF Store!Reaped

(* Each step of the edge is at most one call of the store.                 *)
LEMMA StoreStep ==
  ASSUME IInv, [Next]_vars
  PROVE  [Store!Next]_jobs
<1>1. ASSUME NEW d \in Delivery, Record(d) PROVE [Store!Next]_jobs
  <2>1. d[1] \in JobId
    BY DeliveryTypes
  <2>2. Store!RecordDispatch(d[1]) \/ UNCHANGED jobs
    BY <1>1, SameStatements DEF Record, Store!RecordDispatch
  <2>. QED
    BY <2>1, <2>2 DEF Store!Next
<1>2. ASSUME NEW d \in Delivery, Queue(d) PROVE [Store!Next]_jobs
  <2>1. d[1] \in JobId
    BY DeliveryTypes
  <2>2. Store!Enqueue(d[1]) \/ UNCHANGED jobs
    BY <1>2, SameStatements DEF Queue, Store!Enqueue
  <2>. QED
    BY <2>1, <2>2 DEF Store!Next
<1>3. ASSUME NEW d \in Delivery, Mark(d) PROVE [Store!Next]_jobs
  <2>1. d[1] \in JobId
    BY DeliveryTypes
  <2>2. Store!MarkNotDispatched(d[1]) \/ UNCHANGED jobs
    BY <1>3, SameStatements DEF Mark, Store!MarkNotDispatched
  <2>. QED
    BY <2>1, <2>2 DEF Store!Next
<1>4. ASSUME NEW r \in Runner, Claim(r) PROVE [Store!Next]_jobs
  <2>1. Store!Reaped(jobs) = jobs
    BY NothingToReap DEF IInv
  <2>2. Store!Claimable(jobs, {}) = Claimable(jobs, {})
    BY SameStates, SameCaps DEF Claimable, InState, Store!Claimable, Store!InState
  <2>3. ASSUME NEW S PROVE Store!Oldest(jobs, S) = Oldest(jobs, S)
    BY DEF Oldest, Store!Oldest
  <2>4. PICK j \in Oldest(jobs, Claimable(jobs, {})) : jobs' = Claimed(jobs, j, r)
    BY <1>4 DEF Claim
  <2>5. Store!Claim(r, {})
    BY <2>1, <2>2, <2>3, <2>4, SameStatements DEF Store!Claim
  <2>6. {} \in SUBSET Server
    OBVIOUS
  <2>. QED
    BY <2>5, <2>6 DEF Store!Next
<1>5. ASSUME NEW j \in JobId, NEW r \in Runner, NEW passed \in BOOLEAN, Finish(j, r, passed)
      PROVE  [Store!Next]_jobs
  <2>1. Store!Finish(j, r, passed)
    BY <1>5, SameStatements DEF Finish, Store!Finish
  <2>. QED
    BY <2>1 DEF Store!Next
<1>6. ASSUME NEW d \in Delivery, Deliver(d) \/ CountOnline(d) \/ Busy(d) \/ CallGitHub(d)
      PROVE  [Store!Next]_jobs
  BY <1>6 DEF Deliver, CountOnline, Busy, CallGitHub
<1>10. ASSUME NEW d \in Delivery, CommitUnheard(d) PROVE [Store!Next]_jobs
  <2>1. d[1] \in JobId
    BY DeliveryTypes
  <2>2. Store!RecordDispatch(d[1]) \/ Store!Enqueue(d[1])
    BY <1>10, SameStatements DEF CommitUnheard, Store!RecordDispatch, Store!Enqueue
  <2>. QED
    BY <2>1, <2>2 DEF Store!Next
<1>7. ASSUME NEW t \in Triggers, Redefine(t) PROVE [Store!Next]_jobs
  BY <1>7 DEF Redefine
<1>8. CASE Crash
  BY <1>8 DEF Crash
<1>9. CASE UNCHANGED vars
  BY <1>9 DEF vars
<1>. QED
  BY <1>1, <1>2, <1>3, <1>4, <1>5, <1>6, <1>7, <1>8, <1>9, <1>10 DEF Next

(* The edge is one of the store's callers: whatever holds of every store   *)
(* JobStore describes, its caps and its lifecycle among them, holds of the *)
(* table under this handler.                                               *)
THEOREM UsesStoreAlways == Spec => UsesStore
<1>1. Init => Store!Init
  BY SameStates DEF Init, EmptyTable, NoRow, Store!Init, Store!EmptyTable, Store!NoRow
<1>2. IInv /\ [Next]_vars => [UNCHANGED jobs \/ Store!Next]_jobs
  BY StoreStep
<1>. QED
  BY <1>1, <1>2, Invariant, PTL DEF Spec, UsesStore

(* What UsesStore says is that the table is a queue store.                 *)
LEMMA IsStore == UsesStore => Store!Spec
<1>1. [UNCHANGED jobs \/ Store!Next]_jobs => [Store!Next]_jobs
  OBVIOUS
<1>. QED
  BY <1>1, PTL DEF UsesStore, Store!Spec
-----------------------------------------------------------------------------
(* What JobStore_proofs proves of the store holds of this table.           *)
StoreProofs == INSTANCE JobStore_proofs

(* The store there is the store here.                                      *)
LEMMA SameStore == Store!Spec <=> StoreProofs!Spec
BY DEF Store!Spec, StoreProofs!Spec, Store!Init, StoreProofs!Init, Store!Next,
       StoreProofs!Next, Store!EmptyTable, StoreProofs!EmptyTable, Store!NoRow,
       StoreProofs!NoRow, Store!Enqueue, StoreProofs!Enqueue, Store!RecordDispatch,
       StoreProofs!RecordDispatch, Store!Claim, StoreProofs!Claim, Store!MarkRunning,
       StoreProofs!MarkRunning, Store!Finish, StoreProofs!Finish,
       Store!MarkNotDispatched, StoreProofs!MarkNotDispatched, Store!Renew,
       StoreProofs!Renew, Store!Reap, StoreProofs!Reap, Store!Tick, StoreProofs!Tick,
       Store!EnqueueAccepted, StoreProofs!EnqueueAccepted, Store!DispatchAccepted,
       StoreProofs!DispatchAccepted, Store!Duplicate, StoreProofs!Duplicate,
       Store!JobAtCapacity, StoreProofs!JobAtCapacity, Store!ChannelQueueFull,
       StoreProofs!ChannelQueueFull, Store!ChannelBusy, StoreProofs!ChannelBusy,
       Store!AtCap, StoreProofs!AtCap, Store!ActiveOf, StoreProofs!ActiveOf,
       Store!SameJob, StoreProofs!SameJob, Store!QueuedIn, StoreProofs!QueuedIn,
       Store!BusyIn, StoreProofs!BusyIn, Store!InChannel, StoreProofs!InChannel,
       Store!InState, StoreProofs!InState, Store!Cardinality, StoreProofs!Cardinality,
       Store!Enqueued, StoreProofs!Enqueued, Store!Dispatched, StoreProofs!Dispatched,
       Store!Inserted, StoreProofs!Inserted, Store!Reaped, StoreProofs!Reaped,
       Store!Expired, StoreProofs!Expired, Store!Requeued, StoreProofs!Requeued,
       Store!Abandoned, StoreProofs!Abandoned, Store!Claimable, StoreProofs!Claimable,
       Store!Oldest, StoreProofs!Oldest, Store!Claimed, StoreProofs!Claimed,
       Store!CanMarkRunning, StoreProofs!CanMarkRunning, Store!MarkedRunning,
       StoreProofs!MarkedRunning, Store!CanFinish, StoreProofs!CanFinish,
       Store!Finished, StoreProofs!Finished, Store!CanMarkNotDispatched,
       StoreProofs!CanMarkNotDispatched, Store!MarkedNotDispatched,
       StoreProofs!MarkedNotDispatched, Store!Renewed, StoreProofs!Renewed,
       Store!HeldBy, StoreProofs!HeldBy, Store!Aged, StoreProofs!Aged, Store!ABSENT,
       StoreProofs!ABSENT, Store!QUEUED, StoreProofs!QUEUED, Store!CLAIMED,
       StoreProofs!CLAIMED, Store!RUNNING, StoreProofs!RUNNING, Store!DONE,
       StoreProofs!DONE, Store!FAILED, StoreProofs!FAILED, Store!ABANDONED,
       StoreProofs!ABANDONED, Store!NOT_DISPATCHED, StoreProofs!NOT_DISPATCHED,
       Store!ACTIVE_STATES, StoreProofs!ACTIVE_STATES, Store!BUSY_STATES,
       StoreProofs!BUSY_STATES

LEMMA StoreAssumptions == StoreProofs!IsFiniteSet(JobId)
BY JobAssumption DEF IsFiniteSet, StoreProofs!IsFiniteSet

(* What the edge answers, and whatever becomes of its calls to GitHub, a   *)
(* run only ever moves along its lifecycle: one GitHub was asked to start  *)
(* is never handed out, and one marked as never started is over.           *)
THEOREM LifecycleAlwaysKept == Spec => StoreProofs!KeepsLifecycle
<1>1. StoreProofs!Spec => StoreProofs!KeepsLifecycle
  BY StoreAssumptions, JobAssumption, CapsAssumption, LeaseAssumption, StampAssumption,
     NullAssumption, StoreProofs!ImplementsLifecycle
<1>. QED
  BY <1>1, SameStore, IsStore, UsesStoreAlways, PTL

(* Dispatched runs and claimed ones share a channel's running cap, however *)
(* often commands are delivered (record_dispatch, claim).                  *)
THEOREM RunningCapAlways == Spec => []RunningCapIn(jobs)
<1>1. StoreProofs!Spec => []StoreProofs!RunningCap
  BY StoreAssumptions, JobAssumption, CapsAssumption, LeaseAssumption, StampAssumption,
     NullAssumption, StoreProofs!RunningCapAlways
<1>2. StoreProofs!RunningCap => RunningCapIn(jobs)
  BY DEF StoreProofs!RunningCap, StoreProofs!RunningCapIn, RunningCapIn, StoreProofs!BusyIn, BusyIn,
         StoreProofs!InChannel, InChannel, StoreProofs!InState, InState,
         StoreProofs!BUSY_STATES, BUSY_STATES, StoreProofs!CLAIMED, CLAIMED,
         StoreProofs!RUNNING, RUNNING, StoreProofs!Cardinality, Cardinality
<1>. QED
  BY <1>1, <1>2, SameStore, IsStore, UsesStoreAlways, PTL
=============================================================================
