# Verification of slack-runtests

TLA+ models of `stonedog-testrunner`: a Slack command asks for a test suite, an
*edge* server records the run in a queue store, and a *test server* on another
machine takes it by long-poll, runs it and reports; or GitHub Actions runs it;
or, in the *standalone* server, the machine that answers Slack runs it itself.

The models are checked by TLC on small instances; what matters most about both
backends of the store, the job definitions, the Slack door and the registry is
proved by TLAPS for every value of the constants.

    tlc -workers 2 -config JobStore_caps.cfg MCJobStore.tla     # a run
    tlapm JobStore_proofs.tla                                    # a proof

`PROJECT.json` lists components, runs, mutants (a plausible bug for every
property, which the property must find), the lines each definition models,
hazards, findings and theorems. Each module's comments say which function an
action models.

---------------------------------------------------------------------------

## 1. The system

| component | source | state it keeps | operations |
|---|---|---|---|
| queue store | `store/base.py`, `sqlite_backend.py`, `postgres_backend.py` | table `jobs`: state, dispatch mode, runner, lease, attempts, created | enqueue, record_dispatch, claim (reaps first), mark_running, finish, mark_not_dispatched, renew, reap |
| job definitions | same files; edge `app.py` 785-1000 | table `job_defs`, unique on (product, scope, server) | save_job_def, delete_job_def, lookups; PUT and DELETE /admin/jobs |
| runner registry | same files; edge `app.py` 203-231, 546-618, `auth.py` | table `runners`: key, last_seen; `<runner_id>.pub` files | enrol (decide, then upsert), touch on every recognised call, online view |
| edge, Slack door | `edge_server/app.py` 258-545 | none of its own; background tasks | /slack/commands: gate, resolve, queue or record and dispatch |
| edge, test-server door | `edge_server/app.py` 546-785 | open long-polls | enroll, heartbeat, claim, started, result |
| test server | `test-server/test_server/agent.py`, `client.py`, `reporter.py` | the job in hand; a heartbeat thread | enrol, poll, execute, report with retries |
| GitHub dispatch | `runners/github.py` | none | dispatch_workflow, dispatch |
| standalone server | `api.py`, `runners/local.py` | background tasks | /slack/commands, run |
| Slack notifier | `slack.py` | message id, time of the last edit | post, update, start, progress, finish |
| gate, grammar, authorisation | `gate.py`, `parsing.py`, `authz.py`, `signature.py` | the configuration a process was started with | startup check, four checks of a request, two passes of the grammar |
| identity | `identity.py`, `edge_server/auth.py` | key files | sign, verify |
| configuration, entry points, packaging | `config.py`, `__main__.py`, `docker/`, `scripts/` | environment | read at startup |

How they interact. The two doors of the edge, every worker of the edge and
every other edge on the same database meet only in the store: nothing else is
shared. A test server talks to the edge over requests it makes itself, so the
edge never knows whether it is there; a claim that was answered may not have
been heard. GitHub and Slack are called over HTTP and may act without being
heard to. Background tasks of a process die with it; the tables do not.

What is hard in it:

- **Concurrency in the store.** SQLite runs the read-then-write calls under
  `BEGIN IMMEDIATE`. On Postgres a call is several statements at READ
  COMMITTED, made safe by two advisory locks (taken only if a cap is set), by
  row locks, `SKIP LOCKED` and a unique index.
- **Leases.** A claim is a lease; heartbeats renew it from a second thread;
  the reaper inside the next claim takes back what expired, or abandons it
  when its attempts are used up.
- **Two modes in one table.** A queued run waits for a test server; a
  dispatched one is running from its insert, with no runner and no lease, and
  counts against other caps.
- **Loss.** Slack delivers a command up to four times; replies to claims and
  results get lost; results are retried and may arrive late; GitHub's answer
  may be lost; a post to Slack may be made and not answered.
- **Crashes** of the edge between recording and dispatching, which may come back
  with other allowlists, and of a test server in the middle of a run, which
  comes back under the same id.
- **Names and keys.** Two hosts can be configured with one name; enrolment
  decides on a row it reads and writes it in a second statement, on any edge;
  a store that is a file goes with a redeploy.

What makes each component correct is stated per module below; `hazards` in
`PROJECT.json` lists, line by line, what could go wrong and which property
would find it.

---------------------------------------------------------------------------

## 2. The modules

    JobLifecycle            what the queue promises about a run (abstract)
       ^  refined by
    JobTable  <-- JobStore  each store call one step (SQLite, and the contract)
       |  ^                ^---- JobStore_proofs (TLAPS), cited by the proofs of
       |  |                      Fleet, Dispatch and Standalone
       |  +---- JobTable_proofs   what each statement keeps, for all  (TLAPS)
       +-- PostgresStore    the same calls, statement by statement
       |       ^---- PostgresStore_proofs (TLAPS)
       +-- Fleet            test servers and the edge around the store
       |       ^---- Fleet_proofs (TLAPS)
       +-- Dispatch         Slack door and background dispatch
       |     | ^---- Dispatch_proofs, of the gate as well (TLAPS)
       |     +-- Gate       who may start what; no state of its own
       +-- Standalone       standalone server, local and GitHub mode
             | ^---- Standalone_proofs, of its notifiers as well (TLAPS)
             +-- SlackNotifier   one notifier
    JobDefs                 job definitions and their requests
       ^---- JobDefs_proofs (TLAPS)
    Registry                enrolment, keys, the online view
       ^---- Registry_proofs (TLAPS)

**JobTable** gives every SQL statement its meaning as an operator on a table
value, once, for both backends. A row keeps the columns other statements read.
`created` is `created_at`, any member of `Stamp`: it is the caller's clock, read
before the transaction, so rows need not be inserted in its order. `lease` is
what is left of the lease in ticks, 0 is expired, NULL none. The clock's
absolute value is never needed. `MaxAttempts` is at least 1: with
`JOB_MAX_ATTEMPTS=0` the code still hands every run out once.

**JobStore** makes each call one atomic step. Calls that match no row stutter.
Properties: custody of rows (a row is leased exactly while a test server holds
it), dispatched runs stay out of the queue, bounded attempts, the caps, a live
lease is never taken over, a run ends once, hand-outs in order of creation.

**JobLifecycle** is the promise without table, lease or clock: an accepted run
is waiting, held by one test server, dispatched or over; over is for ever; it
is handed out at most `MaxAttempts` times. `KeepsLifecycle` of JobStore and of
PostgresStore states the refinement with `INSTANCE ... WITH`; the mapping
(`PhaseIn`, `HolderIn`, `TriesIn` of JobTable) reads phase and holder off the
rows. One claim maps to *take back E and hand out j* in one abstract step.

**PostgresStore** splits insert and claim into their statements. A session sees
what is committed plus its own writes; a written row is locked until commit; a
statement that would have to wait is not enabled, giving up is `Rollback`
(StoreBusy). Single-statement calls wait for locked rows and then ask their
WHERE clause again. It reuses JobTable's operators on the session's view. Its
properties are about the committed table: the lifecycle, the attempts, the caps
(the running cap leaks by one) and live leases. `BeginReap` is the stand-alone
`reap()`, the same two statements in a transaction without an advisory lock; only
the conformance tests call it today. `MarkNotDispatched` may name any row its
WHERE clause matches, though its one caller names dispatched ones.

**Fleet** has one thread of state per test server (off, idle, polling, got,
running, reporting) and the heartbeat thread as `due`. `ServeClaim` is the edge
serving an open long-poll; `gone` counts polls the edge still serves for a
client that hung up; `late` holds results whose sender gave up. Time is counted
in heartbeat intervals, and `missed` in intervals in a row in which no heartbeat
arrived, not in calls: the thread waits an interval after a call that can hang
for as long itself (agent.py:248-250, client.py:120), so one hung call may miss
two. `UsesStore` checks that every step of the
composition is a step of JobStore.

**Registry** follows hosts that make a key, enrol under a configured name and
beat. `Decide` is what an edge reads before it accepts an enrolment, `Write`
the upsert and the reply, so two edges can be between the two; a call is
recognised if the row of its sender's name holds the key it is signed with, and
only then is `last_seen` touched. Key files are put and deleted by an operator
at any time (`Authorise`, `DeleteFile`). `stranded` is history: the enrolled
hosts whose row was lost with the store, or overwritten by an enrolment that
had been decided before theirs was written. Fleet's `Enrol` and its calls are
never refused; StaysKnown is what justifies it while the store lives and the
names are distinct.

**Gate** has no variables: a request and a configuration go in, a verdict comes
out. `Missing` and `Serves` are the startup check, `Verdict` the checks of
gate.check in their order, `Reading` the two passes of the parser: one without
requirements that finds out which action is asked for, a second one for runs. A
text is what shlex and argparse make of it. `Entitled` says who may start what
without the order of any of it.

**Dispatch** follows every delivery of a command: past the gate, resolved
against a definition that may change between deliveries, queued or recorded,
answered, dispatched by a background task, marked if that failed. A queued run
is answered only after `CountOnline`, a read the handler makes once the insert
is committed. A store error that no `except` is around is an HTTP 500: of the
lookups of a delivery (`Deliver`), of `CountOnline`, of a commit whose answer is
lost (`CommitUnheard`). `CallGitHub` may raise what is not an `HTTPError`. `Crash`
loses every task; the edge comes back with any configuration it may serve under.

**Standalone** does the same for the standalone server, whose task runs the
suite in place and talks to Slack at each step, or calls GitHub (`CallGitHub`,
with the same outcomes as in Dispatch) and then says what came of it (`Tell`);
`begun` counts suites started here and workflows GitHub started, heard of or
not. **SlackNotifier** is the
notifier as operators: message id (None, empty, known), time since the last
edit, and what the channel shows. Every call can succeed, be refused, be made
and not answered, or raise. The tests of the suite use a notifier of their own,
in the sequence the repository's README shows.

**JobDefs** models a save as: exists? -> take the row of the id -> enter the
unique index -> commit -> read back, with the waits Postgres puts between
them, and a delete likewise; `Busy` is a lock wait given up, or a deadlock the
database breaks. `Leave` ends a request: its answer is sent, or the edge or its
connection is lost. Session slots are reused, so three sessions are three
requests *at a time*, not three in all.

Not an action anywhere: logging, wording (the near misses a command without a
definition is answered with are part of it), the check that a workflow exists,
whose result is only reported, and queries, except where a handler decides on
one or can fail in it.

---------------------------------------------------------------------------

## 3. What the runs show

| run | instance | distinct states | shows |
|---|---|---|---|
| JobStore_caps | 3 runs (2 of one suite), 2 test servers, all caps 1, 2 attempts, lease 2 ticks, 2 stamps | 40 k | row invariants and caps, LiveLeaseIsSafe, OldestFirst, the lifecycle refinement |
| PostgresStore_races | 4 runs of one suite, 2 sessions, suite cap 3, other caps 1 | 550 k | suite cap and backlog bound hold; running cap exceeded by at most 1 |
| PostgresStore_running_cap | 3 runs, no suite cap, running cap 1 | - | **violation** of RunningCap |
| PostgresStore_unlocked | 2 runs, 2 sessions, 2 test servers, no caps, so no advisory locks | 100 k | attempts bounded, live leases safe, lifecycle |
| Fleet_faults | 1 run, 2 test servers, lease of 3 heartbeats, every fault | 1.3 M | executions bounded by attempts; recorded results happened; a busy test server keeps its run unless no heartbeat arrives for a whole lease |
| Fleet_liveness | 2 runs, 2 test servers that may die for good, running cap 1, 2 stamps | 86 k | every queued run ends while somebody is left to run it; every step is the store's |
| Fleet_restart | 1 run, crash and restart mid-run | - | **violation** of HeldIsReleased |
| Dispatch_retries | 2 commands, 2 deliveries each, caps 1, crashes, busy store, lost answers of GitHub and of a commit, 3 configurations of which one may not serve | 890 k | one run per command, only for those entitled to it when it is recorded, true answers, "never started" only of dispatches GitHub has not acknowledged, every dispatch settles |
| Registry_enrolment | 2 hosts under one name, 2 edges, 2 keys per host, offline after 2 heartbeats, every fault | 66 k | enrolled hosts stay known, a host in contact is shown online, a host that is welcome gets in |
| JobDefs_saves | 3 requests at a time, 2 definitions, 2 triggers, every kind of body | 440 k | one definition per trigger, true answers, every request ends |
| Standalone_slack | 2 commands, 2 deliveries each, 4 ticks, throttle 2 ticks, Slack failing in every way | 800 k | one run per command, one message per notifier, edit rate, last word shown |
| Standalone_raises | the same | - | **violation** of ReportingNeverFailsRun |

### Bounds, and why they are enough

- *Runs and test servers.* Every property is about one or two rows, or about a
  cap; a cap of 1 with one more run that wants the slot is where a count can be
  wrong. The theorems of section 5 lift every safety property to any number. Two
  test servers are a holder and a rival.
- *Suite cap 3 in PostgresStore_races* leaves room for three runs that execute at
  once, so RunningCapWithinOne does not hold for lack of runs.
- *Stamps.* Two are enough for an order and a tie. Where the order of hand-outs
  is no property, one stamp makes every queued run the oldest, which allows
  every order.
- *Attempts* 2: the first hand-out and the last. *Leases* 1 to 3 ticks: expired,
  running, renewed. `Fleet_faults` uses 3 heartbeats where the default
  configuration has 4 (60 s and 15 s); the property compares the losses with
  the lease whatever its length.
- `MaxGone` = 1: at most one poll per test server is served for nobody; a
  second needs a second timeout before the first deadline.
- *Dispatch.* Two configurations that serve and disagree about who may run, and
  one that lacks callers and must not serve; one of the two commands leaves a
  flag out. The gate itself is proved for every configuration and text.
- *Registry.* Two hosts and one name is the case in which keys meet; a host
  alone under its name is the part of it in which the other never starts. Two
  edges are one decision overtaking another. `MaxKeys` = 2: a key and its
  successor. A row's age stops counting one past `OfflineAfter`.
- `MaxDeliveries` = 2: one delivery and its retry, in any interleaving; more
  deliveries meet the same row.
- `missed` stops counting at `LeaseTicks - 1`, the number the property asks for.
- *PostgresStore: Tick only while no transaction is open.* `now` is read before
  the transaction, and `lock_timeout` is far below a lease.
- *Standalone.* With both caps at 1 the second command is refused for good
  after the first is recorded (see section 6), so it takes part as a refusal.
  `MaxTicks` = 4 is two throttle periods.
- *JobDefs.* Three requests are two that wait for each other and one that comes
  between; two definitions and two triggers are what it takes to swap.
- Symmetry is used where the permuted values are interchangeable in every
  definition and no liveness property is checked.

### Fairness, and why the code justifies it

- `Fleet`: weak fairness of each test server's own steps and its heartbeats (a
  thread that can go on does), of time, and *strong* fairness of `ServeClaim`:
  the store can be busy at every single attempt of one poll, but not for ever.
  No fairness for faults. `EveryRunEnds` is checked without lost results: three
  lost tries leave the run with a healthy test server whose heartbeats renew it
  (the same defect as Fleet_restart shows).
- `Dispatch`: weak fairness of a background task's two steps; the call to
  GitHub has a timeout. `EveryDispatchSettles` makes an exception for a process
  that ended or a store that was busy when the failure had to be marked, because
  the code has no second try, and for a call that raised what is not an
  `HTTPError`; the property names all this as task "lost".
- `JobDefs`: weak fairness of each request's own steps: a handler that can go on
  does, and a wait that does not end is given up (lock_timeout,
  postgres_backend.py:206-216, or Postgres's deadlock detection).
- `Registry`: strong fairness of `Decide` (run_forever retries until it is let
  in) and of a `Write` that is heard (an edge that has decided writes, and not
  every reply is lost). No fairness for faults or the operator; the property
  asks only about hosts that are welcome from some time on.
- Everything else is safety.

---------------------------------------------------------------------------

## 4. Findings

Each is a run with `expect: violation`, and quotes the sentence it contradicts.

1. **The running cap leaks on Postgres** (`PostgresStore_running_cap`).
   `record_dispatch` counts under `_LOCK_ENQUEUE`, `claim` under `_LOCK_CLAIM`;
   one of each can take the last slot together. `RunningCapWithinOne` shows
   this is the worst of it.
2. **A restarted test server keeps a run it no longer knows of**
   (`Fleet_restart`). `renew` extends every row held under the id. The same
   happens after a lost claim reply and after a result given up.
3. **A broken connection to Slack ends the run** (`Standalone_raises`).
   `_call` does not catch what `urlopen` raises while waiting for or reading the
   answer (`ConnectionResetError`, `IncompleteRead`). On a test server the same
   exception leaves `execute` and ends the process.

Smaller divergences met while modelling, without a run of their own:

- A lost answer from GitHub is taken for a failed dispatch (github.py:134-143),
  and its row marked not_dispatched, which base.py:51-52 says "means it never
  started". NeverStartedIsTrue states what holds: no run GitHub *said* it had
  started is marked.
- The queueing handler asks who is online after the run is committed and outside
  any `except` (app.py:443): a busy store there is an HTTP 500 for a run that is
  queued, though app.py:428-431 says of a busy store that "a 500 here would make
  Slack show its generic failure". So is a connection lost at the commit, which
  `_translate` does not take for StoreBusy; of a dispatch that leaves a row that
  says running, with no task. AnswersAreTrue counts an HTTP 500 among the
  answers that may belong to a run.
- Only `httpx.HTTPError` is caught around the call to GitHub (github.py:134);
  anything else ends the background task and leaves its row running.
- What a suite prints is decoded as text (local.py:79-86); output that does not
  decode raises out of `run`, which says of itself that it must never raise into
  the task runner. `SuiteEnds` has it.
- A quote that is not closed makes shlex raise `ValueError` (parsing.py:221),
  which nobody catches: the answer is a 500, where gate.py and `SlackArgError`
  promise a message. Gate has it as "server error".
- Enrolment reads the row and upserts it in a second statement. Two first
  enrolments of one name at once are both accepted and the later write wins,
  where app.py:588-590 says a new key for an existing id must not work. The
  host whose row is overwritten is answered 401 from then on and does not enrol
  again until it is restarted (`stranded`); nor does one whose row went with
  the store, although test-server/config.py:88-90 says a test server survives
  an edge that restarts.
- A name that is known is decided by its row: deleting `<id>.pub` does not
  revoke it, as edge/README.md:310-311 and test-server/README.md:53-55 say, and
  no operation deletes a row.
- `put_job` (app.py:950) catches `StoreError` before its subclass `StoreBusy`:
  the 503 branch is never taken, a busy store is answered 422. The model
  answers 422.
- `put_job` (app.py:962) reads back what it saved; deleted in between, that is
  None and the answer is a 500 for a save that was committed. The model has it.
- Two concurrent first saves of one id on Postgres can both answer *created*.
- `max_queued_per_channel` is exceeded by requeued runs (base.py:133 says it
  bounds the backlog); `BacklogBound` states what holds.
- base.py:549 says mark_not_dispatched works "Only from QUEUED."; the code takes
  QUEUED or RUNNING without a runner, which its use needs.
- A notifier whose first post failed sends everything later as an edit of the
  empty id, so the summary is lost too.

---------------------------------------------------------------------------

## 5. What is proved

**JobTable_proofs** holds no theorem about a system, only what every statement
of JobTable keeps of a table (`Sound`, in two parts: `GoodRow` reads one row at
a time, the rest counts), and where it takes a run in the lifecycle. The proofs
of both backends, of Fleet and of Standalone rest on it.

**JobStore_proofs.** For any sets of runs and test servers, any caps, attempts
and lease: type correctness, Custody, DispatchedStaysOut, AttemptsBounded,
JobCap, RunningCap and BacklogBound are invariants; EndsOnce, LiveLeaseIsSafe
and OldestFirst hold of every step. Assumed: the set of runs is finite (counts
are cardinalities), caps and lease are naturals, attempts and lease positive.

The invariant is `Sound`, the conjunction of them all. None of the caps is
inductive alone: that a claim does not exceed the per-job cap needs that the
claimed row was active already; that a requeue does not exceed the running cap,
that it leaves the busy states; the backlog bound adds the running cap to the
queue cap and needs both. The proof of the step only puts the lemmas about the
statements together, one case per action of `Next`.

It then shows that JobStore implements JobLifecycle. `Sound` is needed so that
an expired row is one the lifecycle holds, that a requeued row has attempts left
exactly when the lifecycle says *waiting*, and that a row nobody holds has no
holder. Each action maps to a lifecycle step or a stutter.

**PostgresStore_proofs.** For any number of sessions, runs and test servers and
any caps: types, AttemptsBounded, LiveLeaseIsSafe, JobCap, BacklogBound,
RunningCapWithinOne, the row invariants of JobStore (CommittedRowsAlwaysSound),
and that the committed table implements JobLifecycle. Two invariants carry it. `Rows` needs no advisory lock: what an open transaction has
written is tied to the row it wrote over (inserted over none, reaped from an
expired lease, or claimed from a queued one), and that row cannot change while
it is locked, so a commit is still the step the call meant (`ClaimCommits`,
`InsertCommits`, `ReapCommitted`). One conjunct of it is that no two transactions
have written the same row (`OneWriterPerRow`). AttemptsBounded, LiveLeaseIsSafe,
the row invariants and the lifecycle follow from it alone. `Serialised` says what the advisory locks give, one insert and one
claim at a time, and each cap adds what an open transaction may still rely on
after its count: `JobRoom` and `BacklogRoom` for an insert past its check,
`HeldCap` for what any session sees held, and `RunningRoom`, which lets a
channel be at its cap in the table while a claim and a dispatch are both on
their way to the last slot; that is where the one run too many comes from.

**JobDefs_proofs.** For any definitions, triggers and requests in flight: types
(all that is stored is allowed and well shaped), OneJobPerTrigger,
AnswersAreTrue. OneJobPerTrigger is not inductive:
that two saves never commit the same trigger needs that no two open
transactions wrote the same row (`RowLocks`) and that a transaction in the
index has its trigger to itself (`IndexLocks`); that answers are true needs what
each request has committed so far (`Progress`). Every step without a commit is
an instance of one lemma (`StaysSound`), the two commits have one each.

**Fleet_proofs.** For any runs, test servers, labels, attempts, lease and
faults: types, ExecutionsBounded, RecordedIsReal, BusyIsNotDead, and that every
step is a step of the queue store (UsesStore). TypeOK is not inductive on its
own: a bound on `begun` is the bound on what was handed out. Nor is
RecordedIsReal, which needs that every result a test server is sending or that
is still on its way came of an execution (`ReportsAreReal`). BusyIsNotDead
needs `LeaseIsKept`: while a test server works on a run it holds, what is left of
the lease, the intervals it missed and the one that goes on add up to the whole
lease, or it missed all that fit in. ExecutionsBounded is inductive given
`Sound`: the count of those about to start a run goes up only with its attempts,
as one claim hands one run to one test server.

From UsesStore it follows, by citing JobStore_proofs, that the fleet implements
JobLifecycle and hands out older runs first. Assumed: besides what the store
assumes, that there are finitely many test servers (`IsFiniteSet(Runner)`; who is
about to start a run is counted).

**Dispatch_proofs**, first of the gate: for every configuration and request an
accepted run names listed values, and a process that serves without the
development switch accepts a run only from a caller it is meant for
(RunsAreEntitled); a refused sender learns nothing about its text; a flag that is
left out is never guessed. Then of the handler, for any commands,
configurations, definitions and number of deliveries: types, OneRunPerCommand,
AnswersAreTrue, NeverStartedIsTrue, OnlyEntitledRuns, and that every step is a
step of the queue store (UsesStore), so that, citing JobStore_proofs, its table
keeps the lifecycle and the running cap. None of the promises is inductive.
That a command starts one workflow needs that at most one delivery
of it has a task (`OneTask`), that a task has its row, recorded as a dispatch
and not yet marked (`TaskRows`), and that GitHub was called only by tasks that
went on (`Started`); that answers are true needs that a resolved delivery has
passed the gate (`Passed`), so that its row can still be recorded only once,
and what each delivery was told (`Words`). OnlyEntitledRuns takes
RunsAreEntitled, and the fact that the edge serves.

**Registry_proofs.** For any hosts, names, edges and faults: types, StaysKnown,
ContactIsOnline. StaysKnown is not inductive: an edge that has decided on a row
it read as the sender's own writes the same key again (`SameKeyAgain`), and
anything else it writes overtakes; ContactIsOnline needs that a row is no older
than the intervals its host has missed, one more while one goes on (`SeenLately`).

**Standalone_proofs.** For any commands, deliveries, caps, throttle and failures
of Slack: types, OneRunPerCommand, OneMessageEach, EditRateBounded,
LastWordShown, the caps, and that the table keeps the lifecycle. The invariant
says of every notifier how far its message has come, in step with whoever
speaks through it: the background task (`TaskSays`) and the tests of the suite
(`TestsSay`). What has been said once is not posted again (`Speaking`, without
which OneMessageEach is not inductive), and if Slack said ok to every call the
message is the last thing said (`Shows`). EditRateBounded is the weak end of
`Paced`: edits times the throttle, plus the time since the last one, is at most
the time gone by and one throttle more; a forced edit breaks that, and comes last. A run
begins only from a task that is waiting, and a task waits only once, because a
delivery that is accepted finds no row (`RowFirst`). In GitHub mode it begins
with the call, whether or not its answer arrives.

The invariants of Fleet and Standalone were model-checked on the instances of
`Fleet_faults` and `Standalone_slack` before they were proved.

**Only model-checked:** liveness (EveryRunEnds, EveryDispatchSettles,
EveryServerGetsIn, EveryRequestEnds), which depends on fairness and is beyond the prover. Every
safety property a passing run checks is a theorem as well. The three violations
are TLC's alone.

---------------------------------------------------------------------------

## 6. What is not modelled, and why

- Below the gate: what shlex and argparse make of a string, the age and the HMAC
  of a Slack request. A text is its flags, a request is signed or not.
- Identity: Ed25519 and the age of a signed request; a signature is whose key
  made it. The edge's own key, and the pin of it a test server may have.
- The standalone server's gate is the same function as the edge's; Standalone
  starts behind it.
- Configuration, entry points, containers: read once; values are CONSTANTS.
- Reporter messages of a test server: four independent posts by fresh
  notifiers; what a failing one does is finding 3.
- A dispatched run stays RUNNING for ever (base.py:505-508 documents it), so
  with a cap set it keeps its slot. The models do the same, and no property
  claims otherwise.

## 7. Plan

Done: JobTable, JobStore, JobLifecycle, PostgresStore, Fleet, Gate, Dispatch,
JobDefs, Registry, Standalone with SlackNotifier; proofs of every safety
property the runs check, and of the lifecycle for every caller of the store.

Next, in this order:

1. *Prove.* EndsOnce for PostgresStore, and what order of hand-outs it keeps when
   a row is locked; EndsOnce and LiveLeaseIsSafe for Fleet and Dispatch, by citing
   JobStore_proofs.
2. *Extend.* The reporter's messages and the exit codes of `execute` in Fleet,
   with what the channel shows against what the row says.
