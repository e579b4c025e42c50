------------------------- MODULE Standalone_proofs --------------------------
(***************************************************************************)
(* The standalone server keeps its promises for any commands, deliveries,  *)
(* caps and rate of edits, and whatever becomes of its calls to Slack.     *)
(*                                                                         *)
(* The invariant IInv says of every notifier how far its message has come, *)
(* as the one who speaks through it has: the background task of the run or *)
(* the tests of its suite.  Both say one thing first and edit it later.    *)
(***************************************************************************)
EXTENDS Standalone, JobTable_proofs

USE DEF ABSENT, QUEUED, CLAIMED, RUNNING, DONE, FAILED, ABANDONED, NOT_DISPATCHED,
        Row, JobState, Mode, ACTIVE_STATES, BUSY_STATES, TERMINAL_STATES
-----------------------------------------------------------------------------
(* A notifier has posted nothing or one message.                           *)
Message == {<<>>} \cup {<<t>> : t \in Text}

Notifier ==
  {n \in [ts : {NONE, 0, 1}, quiet : 0..THROTTLE, messages : Message, edits : Nat,
          heard : BOOLEAN] :
     n.ts = 1 => n.messages # <<>>}

(* It knows of a message it can edit, if Slack said ok to all it asked, and *)
(* if not, at least that it must not post again.                           *)
Speaking(n) == n.ts # NONE /\ (n.heard => n.ts = 1)

Shows(n, text) == n.heard => n.messages = <<text>>

(* Edits that are not forced are THROTTLE ticks apart, the first may come  *)
(* at once; one more is forced.                                            *)
Paced(n, c) == n.edits * THROTTLE + n.quiet <= THROTTLE + c
PacedAtEnd(n, c) == n.edits * THROTTLE <= 2 * THROTTLE + c
-----------------------------------------------------------------------------
(* Arithmetic of the rate.                                                 *)
LEMMA PaceOfEdit ==
  ASSUME NEW e \in Nat
  PROVE  e * THROTTLE \in Nat /\ (e + 1) * THROTTLE = e * THROTTLE + THROTTLE
BY ThrottleAssumption

LEMMA PaceAsRate ==
  ASSUME NEW e \in Nat, NEW c \in Nat, e * THROTTLE <= 2 * THROTTLE + c
  PROVE  e <= c \div THROTTLE + 2
<1>. DEFINE q == c \div THROTTLE
<1>1. q \in Nat /\ c < (q + 1) * THROTTLE
  BY ThrottleAssumption
<1>. HIDE DEF q
<1>2. (q + 1) * THROTTLE + 2 * THROTTLE = (q + 3) * THROTTLE
  BY <1>1, ThrottleAssumption
<1>3. e * THROTTLE < (q + 3) * THROTTLE
  BY <1>1, <1>2, ThrottleAssumption
<1>4. e < q + 3
  BY <1>1, <1>3, ThrottleAssumption
<1>. QED
  BY <1>1, <1>4 DEF q
-----------------------------------------------------------------------------
(* What the calls make of a notifier.                                      *)
LEMMA FreshNotifier ==
  /\ Fresh \in Notifier /\ Paced(Fresh, 0) /\ Quieter(Fresh) = Fresh
  /\ Fresh.ts = NONE /\ Fresh.heard = TRUE
<1>1. /\ Fresh.ts = NONE /\ Fresh.heard = TRUE /\ Fresh.quiet = THROTTLE
      /\ Fresh.edits = 0 /\ Fresh.messages = <<>>
  BY DEF Fresh
<1>2. THROTTLE \in 0..THROTTLE /\ 0 \in Nat /\ NONE # 1 /\ THROTTLE \in Nat
  BY ThrottleAssumption
<1>3. Fresh \in Notifier
  BY <1>2 DEF Fresh, Notifier, Message
<1>4. Paced(Fresh, 0)
  BY <1>1, <1>2 DEF Paced
<1>5. Quieter(Fresh) = Fresh
  <2>1. Quieter(Fresh) = [Fresh EXCEPT !.quiet = THROTTLE]
    BY <1>1, <1>2 DEF Quieter
  <2>. QED
    BY <2>1 DEF Fresh
<1>. QED
  BY <1>1, <1>3, <1>4, <1>5

(* The first thing that is said is posted.                                 *)
LEMMA PostedNotifier ==
  ASSUME NEW text \in Text, NEW c \in Possible(Fresh)
  PROVE  /\ Posted(Fresh, text, c) \in Notifier
         /\ Posted(Fresh, text, c).edits = 0 /\ Posted(Fresh, text, c).quiet = THROTTLE
         /\ c.answer # "raised" => Speaking(Posted(Fresh, text, c))
         /\ Shows(Posted(Fresh, text, c), text)
<1>1. c \in Call /\ (c.answer = "ok" => c.done)
  BY DEF Possible
<1>2. /\ Len(<<>>) = 0 /\ Append(<<>>, text) = <<text>>
      /\ <<text>> # <<>>
  OBVIOUS
<1>. DEFINE m == IF c.done THEN <<text>> ELSE <<>>
            t == CASE c.answer = "ok" -> 1 [] c.answer = "failed" -> 0
                   [] c.answer = "raised" -> NONE
            n == Posted(Fresh, text, c)
<1>3. c.answer \in {"ok", "failed", "raised"} /\ c.done \in BOOLEAN
  BY <1>1 DEF Call
<1>4. n = [ts |-> t, quiet |-> THROTTLE, messages |-> m, edits |-> 0,
           heard |-> TRUE /\ c.answer = "ok"]
  <2>1. Fresh.ts = NONE /\ Fresh.heard = TRUE /\ Fresh.messages = <<>>
    BY DEF Fresh
  <2>2. n = [Fresh EXCEPT !.messages = m, !.ts = t, !.heard = TRUE /\ c.answer = "ok"]
    <3>1. (IF c.done THEN Append(Fresh.messages, text) ELSE Fresh.messages) = m
      BY <1>2, <2>1
    <3>2. (CASE c.answer = "ok" -> Len(Fresh.messages) + 1
             [] c.answer = "failed" -> IF Fresh.ts = NONE THEN 0 ELSE Fresh.ts
             [] c.answer = "raised" -> Fresh.ts) = t
      BY <1>2, <1>3, <2>1
    <3>3. Told(Fresh, c) = (TRUE /\ c.answer = "ok")
      BY <2>1 DEF Told
    <3>. HIDE DEF m, t
    <3>. QED
      BY <3>1, <3>2, <3>3 DEF Posted
  <2>. QED
    BY <2>2 DEF Fresh
<1>5. /\ m \in Message /\ t \in {NONE, 0, 1}
      /\ t = 1 => m # <<>> /\ m = <<text>>
      /\ c.answer = "ok" <=> t = 1
      /\ c.answer # "raised" => t # NONE
  BY <1>1, <1>2, <1>3, ThrottleAssumption DEF Message
<1>. HIDE DEF m, t, n
<1>6. THROTTLE \in 0..THROTTLE /\ 0 \in Nat
  BY ThrottleAssumption
<1>7. n \in Notifier
  BY <1>4, <1>5, <1>6 DEF Notifier
<1>8. /\ n.edits = 0 /\ n.quiet = THROTTLE /\ n.ts = t /\ n.messages = m
      /\ n.heard <=> c.answer = "ok"
  BY <1>4
<1>. QED
  BY <1>5, <1>7, <1>8 DEF Speaking, Shows, n

(* What is said later is edited into the message, if there is one.         *)
LEMMA EditedNotifier ==
  ASSUME NEW n \in Notifier, Speaking(n), NEW text \in Text, NEW force \in BOOLEAN,
         ~Throttled(n, force), NEW c \in Possible(n)
  PROVE  /\ Updated(n, text, force, c) \in Notifier
         /\ Speaking(Updated(n, text, force, c))
         /\ Shows(Updated(n, text, force, c), text)
         /\ Updated(n, text, force, c).edits = n.edits + 1
         /\ Updated(n, text, force, c).quiet = 0
<1>1. c \in Call /\ (c.answer = "ok" => c.done)
  BY DEF Possible
<1>2. /\ n.ts \in {0, 1} /\ (n.heard => n.ts = 1)
      /\ n.messages \in Message /\ n.edits \in Nat /\ n.heard \in BOOLEAN
      /\ n.ts = 1 => n.messages # <<>>
  BY DEF Notifier, Speaking
<1>3. n.ts = 1 => [n.messages EXCEPT ![n.ts] = text] = <<text>>
  <2>. SUFFICES ASSUME n.ts = 1 PROVE [n.messages EXCEPT ![1] = text] = <<text>>
    OBVIOUS
  <2>1. PICK t \in Text : n.messages = <<t>>
    BY <1>2 DEF Message
  <2>. QED
    BY <2>1
<1>. DEFINE s == IF c.done /\ n.ts # 0 THEN <<text>> ELSE n.messages
            h == Told(n, c)
            m == Updated(n, text, force, c)
<1>4. m = Edited(n, text, c)
  BY <1>2, ThrottleAssumption DEF Updated
<1>5. m = [ts |-> n.ts, quiet |-> 0, messages |-> s, edits |-> n.edits + 1, heard |-> h]
  BY <1>2, <1>3, <1>4 DEF Edited, Notifier
<1>6. h \in BOOLEAN /\ (h => n.heard /\ c.answer = "ok")
  BY <1>1, <1>2 DEF Told
<1>7. /\ s \in Message /\ (n.ts = 1 => s # <<>>)
      /\ h => s = <<text>>
      /\ n.edits + 1 \in Nat /\ 0 \in 0..THROTTLE
  BY <1>1, <1>2, <1>6, ThrottleAssumption DEF Message
<1>. HIDE DEF s, h, m
<1>8. m \in Notifier
  BY <1>2, <1>5, <1>6, <1>7 DEF Notifier
<1>9. /\ m.ts = n.ts /\ m.heard = h /\ m.messages = s
      /\ m.edits = n.edits + 1 /\ m.quiet = 0
  BY <1>5
<1>. QED
  BY <1>2, <1>6, <1>7, <1>8, <1>9 DEF Speaking, Shows, m

(* Time does not change what is said.                                      *)
LEMMA QuieterNotifier ==
  ASSUME NEW n \in Notifier
  PROVE  /\ Quieter(n) \in Notifier
         /\ Quieter(n).ts = n.ts /\ Quieter(n).heard = n.heard
         /\ Quieter(n).messages = n.messages /\ Quieter(n).edits = n.edits
         /\ Quieter(n).quiet \in Nat /\ Quieter(n).quiet <= n.quiet + 1
<1>. DEFINE q == IF n.quiet < THROTTLE THEN n.quiet + 1 ELSE n.quiet
<1>1. n.quiet \in 0..THROTTLE
  BY DEF Notifier
<1>2. q \in 0..THROTTLE /\ q \in Nat /\ q <= n.quiet + 1
  BY <1>1, ThrottleAssumption
<1>3. Quieter(n) = [n EXCEPT !.quiet = q]
  BY DEF Quieter
<1>. HIDE DEF q
<1>. QED
  BY <1>2, <1>3 DEF Notifier

(* The rate a notifier keeps, call by call.                                *)
LEMMA PacedKept ==
  ASSUME NEW n \in Notifier, NEW c \in Nat
  PROVE  /\ n.edits = 0 => Paced(n, c)
         /\ Paced(n, c) => PacedAtEnd(n, c)
         /\ Paced(n, c) => Paced(Quieter(n), c + 1)
         /\ PacedAtEnd(n, c) => PacedAtEnd(Quieter(n), c + 1)
         /\ \A m \in Notifier :
              Paced(n, c) /\ m.edits = n.edits + 1 /\ m.quiet = 0 =>
                PacedAtEnd(m, c) /\ (n.quiet >= THROTTLE => Paced(m, c))
<1>1. n.edits \in Nat /\ n.quiet \in 0..THROTTLE /\ n.edits * THROTTLE \in Nat /\ THROTTLE \in Nat
  BY PaceOfEdit, ThrottleAssumption DEF Notifier
<1>2. Quieter(n).edits = n.edits /\ Quieter(n).quiet \in Nat /\ Quieter(n).quiet <= n.quiet + 1
  BY QuieterNotifier
<1>3. n.edits = 0 => Paced(n, c)
  BY <1>1 DEF Paced
<1>4. Paced(n, c) => PacedAtEnd(n, c)
  BY <1>1 DEF Paced, PacedAtEnd
<1>5. /\ Paced(n, c) => Paced(Quieter(n), c + 1)
      /\ PacedAtEnd(n, c) => PacedAtEnd(Quieter(n), c + 1)
  BY <1>1, <1>2 DEF Paced, PacedAtEnd
<1>6. ASSUME NEW m \in Notifier, Paced(n, c), m.edits = n.edits + 1, m.quiet = 0
      PROVE  PacedAtEnd(m, c) /\ (n.quiet >= THROTTLE => Paced(m, c))
  <2>1. m.edits * THROTTLE = n.edits * THROTTLE + THROTTLE
    BY <1>1, <1>6, PaceOfEdit
  <2>. QED
    BY <1>1, <1>6, <2>1 DEF Paced, PacedAtEnd
<1>. QED
  BY <1>3, <1>4, <1>5, <1>6
-----------------------------------------------------------------------------
(* How far the message of the task and that of the tests have come, from   *)
(* the states r of the task and s of the suite, at the time c.             *)
TaskSays(r, n, c) ==
  /\ r.at \in {"none", "waiting", "telling"} => n = Fresh
  /\ r.at \in {"running", "reporting"} => Speaking(n)
  /\ r.at \in {"none", "waiting", "telling", "running", "reporting"} => Paced(n, c)
  /\ PacedAtEnd(n, c)
  /\ r.at = "returned" => Shows(n, r.end)

TestsSay(s, n, c) ==
  /\ s = "silent" => n = Fresh
  /\ s = "progress" => Speaking(n)
  /\ s \in {"silent", "progress"} => Paced(n, c)
  /\ PacedAtEnd(n, c)
  /\ s = "finished" => Shows(n, "summary")

Run == {None, Waiting, Running, Raised, Lost}
         \cup {Reporting(e) : e \in Ending} \cup {Telling(e) : e \in Ending}
         \cup {Returned(e) : e \in Ending}

Answer == {"unsent", "accepted", "duplicate", "job at capacity", "channel busy", "busy"}

Types ==
  /\ delivery \in [Delivery -> Answer]
  /\ run \in [JobId -> Run]
  /\ suite \in [JobId -> {"silent", "progress", "finished", "over"}]
  /\ slack \in [Speaker \X JobId -> Notifier]
  /\ begun \in [JobId -> Nat]
  /\ clock \in Nat

(* A row comes first, then the task, then the start of the run.            *)
RowFirst ==
  \A j \in JobId :
    /\ jobs[j].state = ABSENT => run[j] = None
    /\ run[j].at \in {"none", "waiting"} => begun[j] = 0
    /\ begun[j] <= 1

IInv ==
  /\ Sound(jobs)
  /\ Types
  /\ RowFirst
  /\ \A j \in JobId : TaskSays(run[j], slack[<<"task", j>>], clock)
  /\ \A j \in JobId : TestsSay(suite[j], slack[<<"tests", j>>], clock)
-----------------------------------------------------------------------------
LEMMA RunShapes ==
  ASSUME NEW r \in Run
  PROVE  /\ r.at \in {"none", "waiting", "running", "reporting", "telling", "returned",
                     "raised", "lost"}
         /\ r.at = "none" => r = None
         /\ r.at \in {"reporting", "telling", "returned"} => r.end \in Ending
BY DEF Run, None, Waiting, Running, Raised, Lost, Reporting, Telling, Returned

LEMMA RunTypes ==
  /\ None \in Run /\ Waiting \in Run /\ Running \in Run /\ Raised \in Run /\ Lost \in Run
  /\ \A e \in Ending : Reporting(e) \in Run /\ Telling(e) \in Run /\ Returned(e) \in Run
BY DEF Run

LEMMA RunFields ==
  /\ None.at = "none" /\ Waiting.at = "waiting" /\ Running.at = "running"
  /\ Raised.at = "raised" /\ Lost.at = "lost"
  /\ \A e : Reporting(e).at = "reporting" /\ Reporting(e).end = e
  /\ \A e : Telling(e).at = "telling" /\ Telling(e).end = e
  /\ \A e : Returned(e).at = "returned" /\ Returned(e).end = e
BY DEF None, Waiting, Running, Raised, Lost, Reporting, Telling, Returned

(* One notifier speaks, the others are silent.                             *)
LEMMA TaskSpoke ==
  ASSUME slack \in [Speaker \X JobId -> Notifier], NEW j \in JobId, NEW n \in Notifier,
         Says(<<"task", j>>, n)
  PROVE  /\ slack' \in [Speaker \X JobId -> Notifier]
         /\ slack'[<<"task", j>>] = n
         /\ \A k \in JobId \ {j} : slack'[<<"task", k>>] = slack[<<"task", k>>]
         /\ \A k \in JobId : slack'[<<"tests", k>>] = slack[<<"tests", k>>]
<1>1. \A k \in JobId : <<"task", k>> \in Speaker \X JobId /\ <<"tests", k>> \in Speaker \X JobId
  BY DEF Speaker
<1>2. \A k \in JobId : <<"tests", k>> # <<"task", j>> /\ (k # j => <<"task", k>> # <<"task", j>>)
  OBVIOUS
<1>3. slack' = [slack EXCEPT ![<<"task", j>>] = n]
  BY DEF Says
<1>. QED
  BY <1>1, <1>2, <1>3

LEMMA TestsSpoke ==
  ASSUME slack \in [Speaker \X JobId -> Notifier], NEW j \in JobId, NEW n \in Notifier,
         Says(<<"tests", j>>, n)
  PROVE  /\ slack' \in [Speaker \X JobId -> Notifier]
         /\ slack'[<<"tests", j>>] = n
         /\ \A k \in JobId \ {j} : slack'[<<"tests", k>>] = slack[<<"tests", k>>]
         /\ \A k \in JobId : slack'[<<"task", k>>] = slack[<<"task", k>>]
<1>1. \A k \in JobId : <<"task", k>> \in Speaker \X JobId /\ <<"tests", k>> \in Speaker \X JobId
  BY DEF Speaker
<1>2. \A k \in JobId : <<"task", k>> # <<"tests", j>> /\ (k # j => <<"tests", k>> # <<"tests", j>>)
  OBVIOUS
<1>3. slack' = [slack EXCEPT ![<<"tests", j>>] = n]
  BY DEF Says
<1>. QED
  BY <1>1, <1>2, <1>3

LEMMA InvTypes ==
  ASSUME IInv
  PROVE  /\ Types /\ SoundRows(jobs)
         /\ \A j \in JobId :
              /\ run[j] \in Run /\ begun[j] \in Nat
              /\ <<"task", j>> \in Speaker \X JobId /\ slack[<<"task", j>>] \in Notifier
              /\ <<"tests", j>> \in Speaker \X JobId /\ slack[<<"tests", j>>] \in Notifier
BY SoundHas DEF IInv, Types, Speaker

LEMMA SoundPrimed == Sound(jobs') => Sound(jobs)'
BY DEF Sound, Table, CustodyIn, DispatchedStaysOutIn, AttemptsBoundedIn, JobCapIn,
       RunningCapIn, BacklogBoundIn, Held, ActiveOf, BusyIn, BacklogIn, InState
-----------------------------------------------------------------------------
(* The invariant, action by action.                                        *)
LEMMA InitInv == Init => IInv
<1>. SUFFICES ASSUME Init
              PROVE  IInv
  OBVIOUS
<1>1. /\ \A j \in JobId : jobs[j] = NoRow /\ run[j] = None /\ suite[j] = "silent" /\ begun[j] = 0
      /\ clock = 0
  BY DEF Init, EmptyTable
<1>2. \A j \in JobId : slack[<<"task", j>>] = Fresh /\ slack[<<"tests", j>>] = Fresh
  BY DEF Init, Speaker
<1>3. Sound(jobs)
  <2>1. NoRow \in GoodRow
    BY LeaseAssumption DEF GoodRow, NoRow
  <2>2. SoundRows(jobs)
    BY <2>1 DEF SoundRows, Init, EmptyTable
  <2>3. InState(jobs, ACTIVE_STATES) = {} /\ InState(jobs, BUSY_STATES) = {}
    BY <1>1 DEF InState, NoRow
  <2>4. /\ \A j \in JobId : ActiveOf(jobs, j) = {}
        /\ \A c \in Channel : BusyIn(jobs, c) = {} /\ BacklogIn(jobs, c) = {}
    BY <1>1, <2>3 DEF ActiveOf, BusyIn, BacklogIn, InChannel, NoRow
  <2>5. JobCapIn(jobs) /\ RunningCapIn(jobs) /\ BacklogBoundIn(jobs)
    BY <2>4, FS_EmptySet, CapsAssumption DEF JobCapIn, RunningCapIn, BacklogBoundIn
  <2>. QED
    BY <2>2, <2>5, SoundHas
<1>4. Types
  <2>1. delivery \in [Delivery -> Answer]
    BY DEF Init, Answer
  <2>. QED
    BY <2>1, FreshNotifier, RunTypes DEF Init, Types
<1>5. RowFirst
  BY <1>1 DEF RowFirst
<1>6. Paced(Fresh, 0) /\ PacedAtEnd(Fresh, 0)
  BY FreshNotifier, PacedKept
<1>7. \A j \in JobId : TaskSays(run[j], slack[<<"task", j>>], clock)
  BY <1>1, <1>2, <1>6, RunFields DEF TaskSays
<1>8. \A j \in JobId : TestsSay(suite[j], slack[<<"tests", j>>], clock)
  BY <1>1, <1>2, <1>6 DEF TestsSay
<1>. QED
  BY <1>3, <1>4, <1>5, <1>7, <1>8 DEF IInv

(* A task is left only by a delivery that is recorded, when there was no   *)
(* row and so no task.                                                     *)
LEMMA HandleInv ==
  ASSUME IInv, NEW d \in Delivery, Handle(d)
  PROVE  IInv'
<1>. DEFINE j == d[1]
<1>0. j \in JobId
  BY DEF Delivery
<1>1. /\ UNCHANGED <<suite, slack, begun, clock>>
      /\ \E a \in Answer : delivery' = [delivery EXCEPT ![d] = a]
      /\ \/ /\ DispatchAccepted(jobs, j)
            /\ \E at \in Stamp : jobs' = Dispatched(jobs, j, at)
            /\ run' = [run EXCEPT ![j] = Waiting]
         \/ UNCHANGED <<jobs, run>>
  BY DEF Handle, Answer, Refusal
<1>. HIDE DEF j
<1>2. /\ Sound(jobs')
      /\ \A k \in JobId : jobs'[k].state = ABSENT => jobs[k].state = ABSENT /\ run'[k] = run[k]
      /\ run' \in [JobId -> Run]
      /\ \A k \in JobId : run'[k] = run[k] \/ (run[k] = None /\ run'[k] = Waiting)
  <2>1. CASE UNCHANGED <<jobs, run>>
    BY <2>1 DEF IInv, Types
  <2>2. ASSUME NEW at \in Stamp, DispatchAccepted(jobs, j), jobs' = Dispatched(jobs, j, at),
               run' = [run EXCEPT ![j] = Waiting]
        PROVE  <1>2
    <3>1. at \in Nat
      BY StampAssumption
    <3>2. Sound(jobs')
      BY <1>0, <2>2, <3>1, DispatchedSound DEF IInv
    <3>3. jobs'[j].state = RUNNING /\ \A k \in JobId \ {j} : jobs'[k] = jobs[k]
      BY <1>0, <2>2, InvTypes DEF SoundRows, Dispatched, Inserted
    <3>4. run[j] = None
      BY <1>0, <2>2 DEF DispatchAccepted, Duplicate, IInv, RowFirst
    <3>5. /\ run' \in [JobId -> Run] /\ run'[j] = Waiting
          /\ \A k \in JobId \ {j} : run'[k] = run[k]
      BY <1>0, <2>2, InvTypes, RunTypes DEF Types
    <3>. QED
      BY <1>0, <3>2, <3>3, <3>4, <3>5
  <2>. QED
    BY <1>1, <2>1, <2>2
<1>3. Types'
  BY <1>1, <1>2, InvTypes DEF Types
<1>4. RowFirst'
  BY <1>1, <1>2, RunFields DEF IInv, RowFirst
<1>5. (\A k \in JobId : TaskSays(run[k], slack[<<"task", k>>], clock))'
  BY <1>1, <1>2, RunFields DEF IInv, TaskSays
<1>6. (\A k \in JobId : TestsSay(suite[k], slack[<<"tests", k>>], clock))'
  BY <1>1 DEF IInv
<1>. QED
  BY <1>2, <1>3, <1>4, <1>5, <1>6, SoundPrimed DEF IInv

(* The task speaks, and goes on or is ended by the call: what it says last *)
(* is what it returns.                                                     *)
LEMMA TaskInv ==
  ASSUME IInv, NEW j \in JobId, run[j].at \in {"waiting", "telling", "running", "reporting"},
         NEW n \in Notifier, Says(<<"task", j>>, n),
         NEW r \in Run, run' = [run EXCEPT ![j] = r],
         r.at \in {"telling", "running", "reporting", "returned", "raised"},
         TaskSays(r, n, clock),
         \/ UNCHANGED begun
         \/ run[j].at = "waiting" /\ begun' = [begun EXCEPT ![j] = begun[j] + 1],
         UNCHANGED <<mode, jobs, delivery, suite, clock>>
  PROVE  IInv'
<1>0. Types
  BY InvTypes
<1>1. /\ slack' \in [Speaker \X JobId -> Notifier]
      /\ slack'[<<"task", j>>] = n
      /\ \A k \in JobId \ {j} : slack'[<<"task", k>>] = slack[<<"task", k>>]
      /\ \A k \in JobId : slack'[<<"tests", k>>] = slack[<<"tests", k>>]
  BY <1>0, TaskSpoke DEF Types
<1>2. /\ run' \in [JobId -> Run] /\ run'[j] = r
      /\ \A k \in JobId \ {j} : run'[k] = run[k]
  BY <1>0 DEF Types
<1>3. /\ begun' \in [JobId -> Nat] /\ begun'[j] <= 1
      /\ \A k \in JobId \ {j} : begun'[k] = begun[k]
  <2>1. begun[j] <= 1 /\ (run[j].at = "waiting" => begun[j] = 0)
    BY DEF IInv, RowFirst
  <2>. QED
    BY <1>0, <2>1 DEF Types
<1>4. Sound(jobs)'
  BY SoundPrimed DEF IInv
<1>5. Types'
  BY <1>0, <1>1, <1>2, <1>3 DEF Types
<1>6. RowFirst'
  <2>1. jobs[j].state # ABSENT
    BY RunFields DEF IInv, RowFirst
  <2>. QED
    BY <1>2, <1>3, <2>1 DEF IInv, RowFirst
<1>7. (\A k \in JobId : TaskSays(run[k], slack[<<"task", k>>], clock))'
  <2>. SUFFICES ASSUME NEW k \in JobId
                PROVE  TaskSays(run'[k], slack'[<<"task", k>>], clock)
    BY DEF TaskSays
  <2>1. CASE k = j
    BY <1>1, <1>2, <2>1
  <2>2. CASE k # j
    BY <1>1, <1>2, <2>2 DEF IInv
  <2>. QED
    BY <2>1, <2>2
<1>8. (\A k \in JobId : TestsSay(suite[k], slack[<<"tests", k>>], clock))'
  BY <1>1 DEF IInv, TestsSay
<1>. QED
  BY <1>4, <1>5, <1>6, <1>7, <1>8 DEF IInv

(* The task goes on in silence.                                            *)
LEMMA TaskMovesInv ==
  ASSUME IInv, NEW j \in JobId, run[j].at \in {"waiting", "running"},
         NEW r \in Run, run' = [run EXCEPT ![j] = r],
         r.at \in {"telling", "reporting", "raised"},
         r.at = "telling" => run[j].at = "waiting",
         r.at = "reporting" => run[j].at = "running",
         \/ UNCHANGED begun
         \/ run[j].at = "waiting" /\ begun' = [begun EXCEPT ![j] = begun[j] + 1],
         UNCHANGED <<mode, jobs, delivery, suite, slack, clock>>
  PROVE  IInv'
<1>. DEFINE n == slack[<<"task", j>>]
<1>1. n \in Notifier /\ Says(<<"task", j>>, n)
  BY InvTypes DEF Types, Says
<1>2. TaskSays(r, n, clock)
  <2>1. TaskSays(run[j], n, clock)
    BY DEF IInv
  <2>. HIDE DEF n
  <2>. QED
    BY <2>1 DEF TaskSays
<1>. HIDE DEF n
<1>. QED
  BY <1>1, <1>2, TaskInv

(* The first thing a task says: how the run ended, or that it starts.      *)
LEMMA TaskPostsInv ==
  ASSUME IInv, NEW j \in JobId, run[j].at \in {"waiting", "telling"},
         NEW c \in Calls(<<"task", j>>), NEW text \in Text,
         Says(<<"task", j>>, Posted(slack[<<"task", j>>], text, c)),
         NEW r \in Run, Then(j, c, r),
         r.at \in {"running", "reporting"} \/ (text \in Ending /\ r = Returned(text)),
         \/ UNCHANGED begun
         \/ run[j].at = "waiting" /\ begun' = [begun EXCEPT ![j] = begun[j] + 1],
         UNCHANGED <<mode, jobs, delivery, suite, clock>>
  PROVE  IInv'
<1>. DEFINE n == Posted(Fresh, text, c)
<1>1. slack[<<"task", j>>] = Fresh /\ clock \in Nat
  BY InvTypes DEF IInv, TaskSays, Types
<1>2. c \in Possible(Fresh)
  BY <1>1 DEF Calls
<1>3. /\ n \in Notifier /\ n.edits = 0 /\ n.quiet = THROTTLE
      /\ c.answer # "raised" => Speaking(n)
      /\ Shows(n, text)
  BY <1>2, PostedNotifier
<1>4. Says(<<"task", j>>, n)
  BY <1>1
<1>. HIDE DEF n
<1>5. Paced(n, clock) /\ PacedAtEnd(n, clock)
  BY <1>1, <1>3, PacedKept
<1>. DEFINE s == IF c.answer = "raised" THEN Raised ELSE r
<1>6. /\ s \in Run /\ s.at \in {"running", "reporting", "returned", "raised"}
      /\ run' = [run EXCEPT ![j] = s]
      /\ TaskSays(s, n, clock)
  BY <1>3, <1>5, RunFields, RunTypes DEF Then, TaskSays
<1>. HIDE DEF s
<1>. QED
  BY <1>1, <1>3, <1>4, <1>6, TaskInv

LEMMA TurnDownInv ==
  ASSUME IInv, NEW j \in JobId, TurnDown(j)
  PROVE  IInv'
<1>1. PICK c \in Calls(<<"task", j>>), end \in {"refused", "no suite"} :
        /\ Says(<<"task", j>>, Posted(slack[<<"task", j>>], end, c))
        /\ Then(j, c, Returned(end))
  BY DEF TurnDown
<1>2. end \in Ending /\ end \in Text
  BY DEF Ending, Text
<1>3. Returned(end) \in Run
  BY <1>2, RunTypes
<1>4. run[j].at = "waiting"
  BY RunFields DEF TurnDown
<1>. QED
  BY <1>1, <1>2, <1>3, <1>4, TaskPostsInv DEF TurnDown

LEMMA StartInv ==
  ASSUME IInv, NEW j \in JobId, Start(j)
  PROVE  IInv'
<1>1. PICK c \in Calls(<<"task", j>>), starts \in BOOLEAN :
        /\ Says(<<"task", j>>, Posted(slack[<<"task", j>>], "starting", c))
        /\ Then(j, c, IF starts THEN Running ELSE Reporting("could not start"))
        /\ \/ UNCHANGED begun
           \/ begun' = [begun EXCEPT ![j] = begun[j] + 1]
  BY DEF Start
<1>. DEFINE r == IF starts THEN Running ELSE Reporting("could not start")
<1>2. "starting" \in Text /\ "could not start" \in Ending
  BY DEF Ending, Text
<1>3. r \in Run /\ r.at \in {"running", "reporting"}
  BY <1>2, RunTypes, RunFields
<1>4. Then(j, c, r)
  BY <1>1
<1>5. run[j].at = "waiting"
  BY RunFields DEF Start
<1>. HIDE DEF r
<1>. QED
  BY <1>1, <1>2, <1>3, <1>4, <1>5, TaskPostsInv DEF Start

(* GitHub is called once, before anything is said of it.                   *)
LEMMA CallGitHubInv ==
  ASSUME IInv, NEW j \in JobId, CallGitHub(j)
  PROVE  IInv'
<1>1. run[j].at = "waiting" /\ UNCHANGED <<mode, jobs, delivery, suite, slack, clock>>
  BY RunFields DEF CallGitHub
<1>2. PICK r \in {Telling("queued"), Telling("not dispatched"), Raised} :
        run' = [run EXCEPT ![j] = r]
  BY DEF CallGitHub
<1>3. r \in Run /\ r.at \in {"telling", "raised"}
  <2>1. "queued" \in Ending /\ "not dispatched" \in Ending
    BY DEF Ending
  <2>. QED
    BY <2>1, RunTypes, RunFields
<1>4. \/ UNCHANGED begun
      \/ begun' = [begun EXCEPT ![j] = begun[j] + 1]
  BY DEF CallGitHub
<1>. QED
  BY <1>1, <1>2, <1>3, <1>4, TaskMovesInv

LEMMA TellInv ==
  ASSUME IInv, NEW j \in JobId, Tell(j)
  PROVE  IInv'
<1>. DEFINE end == run[j].end
<1>1. PICK c \in Calls(<<"task", j>>) :
        /\ Says(<<"task", j>>, Posted(slack[<<"task", j>>], end, c))
        /\ Then(j, c, Returned(end))
  BY DEF Tell
<1>2. /\ run[j].at = "telling" /\ end \in Ending /\ end \in Text
      /\ UNCHANGED <<mode, jobs, delivery, suite, begun, clock>>
  BY InvTypes, RunShapes DEF Tell, Text
<1>. HIDE DEF end
<1>3. Returned(end) \in Run
  BY <1>2, RunTypes
<1>. QED
  BY <1>1, <1>2, <1>3, TaskPostsInv

(* The end is said by an edit that is never held back.                     *)
LEMMA ReportInv ==
  ASSUME IInv, NEW j \in JobId, Report(j)
  PROVE  IInv'
<1>. DEFINE n == slack[<<"task", j>>]
            end == run[j].end
<1>1. PICK c \in Calls(<<"task", j>>) :
        /\ Says(<<"task", j>>, Updated(n, end, TRUE, c))
        /\ Then(j, c, Returned(end))
  BY DEF Report
<1>2. /\ run[j].at = "reporting" /\ end \in Ending /\ end \in Text
      /\ n \in Notifier /\ Speaking(n) /\ Paced(n, clock) /\ clock \in Nat
      /\ UNCHANGED <<mode, jobs, delivery, suite, begun, clock>>
  BY InvTypes, RunShapes DEF Report, IInv, TaskSays, Types, Text
<1>3. c \in Possible(n) /\ ~Throttled(n, TRUE)
  BY DEF Calls, Throttled
<1>. HIDE DEF n, end
<1>. DEFINE m == Updated(n, end, TRUE, c)
<1>4. m \in Notifier /\ Shows(m, end) /\ m.edits = n.edits + 1 /\ m.quiet = 0
  BY <1>2, <1>3, EditedNotifier
<1>5. Says(<<"task", j>>, m)
  BY <1>1
<1>. HIDE DEF m
<1>6. PacedAtEnd(m, clock)
  BY <1>2, <1>4, PacedKept
<1>. DEFINE s == IF c.answer = "raised" THEN Raised ELSE Returned(end)
<1>7. /\ s \in Run /\ s.at \in {"returned", "raised"} /\ (s.at = "returned" => s.end = end)
      /\ run' = [run EXCEPT ![j] = s]
  BY <1>1, <1>2, RunFields, RunTypes DEF Then
<1>8. TaskSays(s, m, clock)
  BY <1>4, <1>6, <1>7 DEF TaskSays
<1>. HIDE DEF s
<1>. QED
  BY <1>2, <1>4, <1>5, <1>7, <1>8, TaskInv

LEMMA SuiteEndsInv ==
  ASSUME IInv, NEW j \in JobId, SuiteEnds(j)
  PROVE  IInv'
<1>1. run[j].at = "running" /\ UNCHANGED <<mode, jobs, delivery, suite, slack, begun, clock>>
  BY RunFields DEF SuiteEnds
<1>2. PICK r \in {Raised} \cup {Reporting(e) : e \in {"passed", "failed", "killed"}} :
        run' = [run EXCEPT ![j] = r]
  BY DEF SuiteEnds
<1>3. r \in Run /\ r.at \in {"reporting", "raised"}
  BY RunTypes, RunFields DEF Ending
<1>. QED
  BY <1>1, <1>2, <1>3, TaskMovesInv
-----------------------------------------------------------------------------
(* The tests of a suite speak.                                             *)
LEMMA TestsInv ==
  ASSUME IInv, NEW j \in JobId, NEW n \in Notifier, Says(<<"tests", j>>, n),
         NEW s \in {"progress", "finished", "over"}, suite' = [suite EXCEPT ![j] = s],
         TestsSay(s, n, clock),
         UNCHANGED <<mode, jobs, delivery, run, begun, clock>>
  PROVE  IInv'
<1>0. Types
  BY InvTypes
<1>1. /\ slack' \in [Speaker \X JobId -> Notifier]
      /\ slack'[<<"tests", j>>] = n
      /\ \A k \in JobId \ {j} : slack'[<<"tests", k>>] = slack[<<"tests", k>>]
      /\ \A k \in JobId : slack'[<<"task", k>>] = slack[<<"task", k>>]
  BY <1>0, TestsSpoke DEF Types
<1>2. /\ suite' \in [JobId -> {"silent", "progress", "finished", "over"}] /\ suite'[j] = s
      /\ \A k \in JobId \ {j} : suite'[k] = suite[k]
  BY <1>0 DEF Types
<1>3. Sound(jobs)'
  BY SoundPrimed DEF IInv
<1>4. Types'
  BY <1>0, <1>1, <1>2 DEF Types
<1>5. RowFirst'
  BY DEF IInv, RowFirst
<1>6. (\A k \in JobId : TaskSays(run[k], slack[<<"task", k>>], clock))'
  BY <1>1 DEF IInv, TaskSays
<1>7. (\A k \in JobId : TestsSay(suite[k], slack[<<"tests", k>>], clock))'
  <2>. SUFFICES ASSUME NEW k \in JobId
                PROVE  TestsSay(suite'[k], slack'[<<"tests", k>>], clock)
    BY DEF TestsSay
  <2>1. CASE k = j
    BY <1>1, <1>2, <2>1
  <2>2. CASE k # j
    BY <1>1, <1>2, <2>2 DEF IInv
  <2>. QED
    BY <2>1, <2>2
<1>. QED
  BY <1>3, <1>4, <1>5, <1>6, <1>7 DEF IInv

(* What the tests say before they finish, and the summary: the first of    *)
(* these is posted, whichever it is, the others are edits.                 *)
LEMMA TestsSaid ==
  ASSUME IInv, NEW j \in JobId, suite[j] \in {"silent", "progress"},
         NEW c \in Calls(<<"tests", j>>), NEW text \in Text, NEW force \in BOOLEAN,
         ~Throttled(slack[<<"tests", j>>], force)
  PROVE  LET m == Updated(slack[<<"tests", j>>], text, force, c)
         IN  /\ m \in Notifier
             /\ Shows(m, text)
             /\ c.answer # "raised" => Speaking(m)
             /\ PacedAtEnd(m, clock)
             /\ ~force => Paced(m, clock)
             /\ suite[j] = "silent" => m = Posted(slack[<<"tests", j>>], text, c)
<1>. DEFINE n == slack[<<"tests", j>>]
            m == Updated(n, text, force, c)
<1>1. n \in Notifier /\ TestsSay(suite[j], n, clock) /\ clock \in Nat /\ c \in Possible(n)
  BY InvTypes DEF IInv, Types, Calls
<1>. HIDE DEF n
<1>2. CASE suite[j] = "silent"
  <2>1. n = Fresh /\ n.ts = NONE
    BY <1>1, <1>2, FreshNotifier DEF TestsSay
  <2>2. m = Posted(Fresh, text, c)
    BY <2>1 DEF Updated
  <2>3. /\ m \in Notifier /\ m.edits = 0 /\ Shows(m, text)
        /\ c.answer # "raised" => Speaking(m)
    BY <1>1, <2>1, <2>2, PostedNotifier
  <2>4. Paced(m, clock) /\ PacedAtEnd(m, clock)
    BY <1>1, <2>3, PacedKept
  <2>. QED
    BY <2>1, <2>2, <2>3, <2>4 DEF n
<1>3. CASE suite[j] = "progress"
  <2>1. Speaking(n) /\ Paced(n, clock) /\ ~Throttled(n, force)
    BY <1>1, <1>3 DEF TestsSay, n
  <2>2. /\ m \in Notifier /\ Speaking(m) /\ Shows(m, text)
        /\ m.edits = n.edits + 1 /\ m.quiet = 0
    BY <1>1, <2>1, EditedNotifier
  <2>3. ~force => n.quiet >= THROTTLE
    <3>1. n.quiet \in 0..THROTTLE
      BY <1>1 DEF Notifier
    <3>. QED
      BY <2>1, <3>1, ThrottleAssumption DEF Throttled, Speaking
  <2>4. PacedAtEnd(m, clock) /\ (~force => Paced(m, clock))
    BY <1>1, <2>1, <2>2, <2>3, PacedKept
  <2>. QED
    BY <1>3, <2>2, <2>4 DEF n
<1>. QED
  BY <1>2, <1>3

LEMMA TestsStepsInv ==
  ASSUME IInv, NEW j \in JobId, TestsStart(j) \/ TestsProgress(j) \/ TestsFinish(j)
  PROVE  IInv'
<1>. DEFINE n == slack[<<"tests", j>>]
<1>1. UNCHANGED <<mode, jobs, delivery, run, begun, clock>> /\ suite[j] \in {"silent", "progress"}
  BY DEF TestsStart, TestsProgress, TestsFinish
<1>2. "starting" \in Text /\ "progress" \in Text /\ "summary" \in Text
  BY DEF Text
<1>3. ASSUME NEW c \in Calls(<<"tests", j>>), NEW text \in Text,
             ~Throttled(n, FALSE), Says(<<"tests", j>>, Updated(n, text, FALSE, c)),
             suite' = [suite EXCEPT ![j] = IF c.answer = "raised" THEN "over" ELSE "progress"]
      PROVE  IInv'
  <2>. DEFINE m == Updated(n, text, FALSE, c)
              s == IF c.answer = "raised" THEN "over" ELSE "progress"
  <2>1. /\ m \in Notifier
        /\ c.answer # "raised" => Speaking(m)
        /\ PacedAtEnd(m, clock) /\ Paced(m, clock)
    BY <1>1, <1>3, TestsSaid
  <2>2. Says(<<"tests", j>>, m) /\ suite' = [suite EXCEPT ![j] = s]
    BY <1>3
  <2>. HIDE DEF m
  <2>3. s \in {"progress", "over"} /\ TestsSay(s, m, clock)
    BY <2>1 DEF TestsSay
  <2>. HIDE DEF s
  <2>. QED
    BY <1>1, <2>1, <2>2, <2>3, TestsInv
<1>4. CASE TestsStart(j)
  <2>1. PICK c \in Calls(<<"tests", j>>) :
          /\ Says(<<"tests", j>>, Posted(n, "starting", c))
          /\ suite' = [suite EXCEPT ![j] = IF c.answer = "raised" THEN "over" ELSE "progress"]
    BY <1>4 DEF TestsStart
  <2>2. suite[j] = "silent" /\ n = Fresh
    BY <1>4 DEF TestsStart, IInv, TestsSay
  <2>3. ~Throttled(n, FALSE)
    BY <2>2, FreshNotifier DEF Throttled
  <2>4. Updated(n, "starting", FALSE, c) = Posted(n, "starting", c)
    BY <2>2, FreshNotifier DEF Updated
  <2>. QED
    BY <1>2, <1>3, <2>1, <2>3, <2>4
<1>5. CASE TestsProgress(j)
  BY <1>2, <1>3, <1>5 DEF TestsProgress
<1>6. CASE TestsFinish(j)
  <2>1. PICK c \in Calls(<<"tests", j>>) : Says(<<"tests", j>>, Updated(n, "summary", TRUE, c))
    BY <1>6 DEF TestsFinish
  <2>. DEFINE m == Updated(n, "summary", TRUE, c)
  <2>2. ~Throttled(n, TRUE)
    BY DEF Throttled
  <2>3. m \in Notifier /\ Shows(m, "summary") /\ PacedAtEnd(m, clock)
    BY <1>1, <1>2, <2>2, TestsSaid
  <2>4. Says(<<"tests", j>>, m) /\ suite' = [suite EXCEPT ![j] = "finished"]
    BY <1>6, <2>1 DEF TestsFinish
  <2>. HIDE DEF m
  <2>5. TestsSay("finished", m, clock)
    BY <2>3 DEF TestsSay
  <2>. QED
    BY <1>1, <2>3, <2>4, <2>5, TestsInv
<1>. QED
  BY <1>4, <1>5, <1>6
-----------------------------------------------------------------------------
LEMMA CrashInv ==
  ASSUME IInv, Crash
  PROVE  IInv'
<1>1. /\ UNCHANGED <<mode, jobs, delivery, suite, slack, begun, clock>>
      /\ run' = [j \in JobId |->
           IF run[j].at \in {"waiting", "running", "reporting", "telling"} THEN Lost ELSE run[j]]
  BY DEF Crash
<1>2. /\ run' \in [JobId -> Run]
      /\ \A j \in JobId : run'[j] = run[j] \/ (run'[j] = Lost /\ run[j] # None)
  BY <1>1, InvTypes, RunTypes, RunFields DEF Types
<1>3. Sound(jobs)'
  BY <1>1, SoundPrimed DEF IInv
<1>4. Types'
  BY <1>1, <1>2, InvTypes DEF Types
<1>5. RowFirst'
  BY <1>1, <1>2, RunFields DEF IInv, RowFirst
<1>6. (\A k \in JobId : TaskSays(run[k], slack[<<"task", k>>], clock))'
  BY <1>1, <1>2, RunFields DEF IInv, TaskSays
<1>7. (\A k \in JobId : TestsSay(suite[k], slack[<<"tests", k>>], clock))'
  BY <1>1 DEF IInv
<1>. QED
  BY <1>3, <1>4, <1>5, <1>6, <1>7 DEF IInv

(* Time lets the next edit come nearer, by no more than has gone by.       *)
LEMMA QuieterSays ==
  ASSUME NEW n \in Notifier, NEW c \in Nat
  PROVE  /\ \A r : TaskSays(r, n, c) => TaskSays(r, Quieter(n), c + 1)
         /\ \A s : TestsSay(s, n, c) => TestsSay(s, Quieter(n), c + 1)
<1>1. /\ n = Fresh => Quieter(n) = Fresh
      /\ Speaking(n) => Speaking(Quieter(n))
      /\ \A text : Shows(n, text) => Shows(Quieter(n), text)
  BY FreshNotifier, QuieterNotifier DEF Speaking, Shows
<1>2. /\ Paced(n, c) => Paced(Quieter(n), c + 1)
      /\ PacedAtEnd(n, c) => PacedAtEnd(Quieter(n), c + 1)
  BY PacedKept
<1>. QED
  BY <1>1, <1>2 DEF TaskSays, TestsSay

LEMMA TickInv ==
  ASSUME IInv, Tick
  PROVE  IInv'
<1>0. Types /\ clock \in Nat
  BY InvTypes DEF Types
<1>1. /\ clock' = clock + 1 /\ UNCHANGED <<mode, jobs, delivery, run, suite, begun>>
      /\ slack' = [n \in Speaker \X JobId |-> Quieter(slack[n])]
  BY DEF Tick
<1>2. slack' \in [Speaker \X JobId -> Notifier]
  BY <1>0, <1>1, QuieterNotifier DEF Types
<1>3. \A k \in JobId : /\ slack'[<<"task", k>>] = Quieter(slack[<<"task", k>>])
                       /\ slack'[<<"tests", k>>] = Quieter(slack[<<"tests", k>>])
  BY <1>1, InvTypes
<1>4. Sound(jobs)'
  BY <1>1, SoundPrimed DEF IInv
<1>5. Types'
  BY <1>0, <1>1, <1>2 DEF Types
<1>6. RowFirst'
  BY <1>1 DEF IInv, RowFirst
<1>7. ASSUME NEW k \in JobId
      PROVE  /\ TaskSays(run'[k], slack'[<<"task", k>>], clock')
             /\ TestsSay(suite'[k], slack'[<<"tests", k>>], clock')
  <2>1. /\ TaskSays(run[k], slack[<<"task", k>>], clock)
        /\ TestsSay(suite[k], slack[<<"tests", k>>], clock)
        /\ slack[<<"task", k>>] \in Notifier /\ slack[<<"tests", k>>] \in Notifier
    BY InvTypes DEF IInv
  <2>. QED
    BY <1>0, <1>1, <1>3, <2>1, QuieterSays
<1>. QED
  BY <1>4, <1>5, <1>6, <1>7 DEF IInv, TaskSays, TestsSay

LEMMA NextInv == IInv /\ [Next]_vars => IInv'
<1>. SUFFICES ASSUME IInv, [Next]_vars
              PROVE  IInv'
  OBVIOUS
<1>1. ASSUME NEW d \in Delivery, Handle(d) PROVE IInv'
  BY <1>1, HandleInv
<1>2. ASSUME NEW j \in JobId, TurnDown(j) PROVE IInv'
  BY <1>2, TurnDownInv
<1>3. ASSUME NEW j \in JobId, Start(j) PROVE IInv'
  BY <1>3, StartInv
<1>4. ASSUME NEW j \in JobId, SuiteEnds(j) PROVE IInv'
  BY <1>4, SuiteEndsInv
<1>5. ASSUME NEW j \in JobId, Report(j) PROVE IInv'
  BY <1>5, ReportInv
<1>6. ASSUME NEW j \in JobId, CallGitHub(j) PROVE IInv'
  BY <1>6, CallGitHubInv
<1>11. ASSUME NEW j \in JobId, Tell(j) PROVE IInv'
  BY <1>11, TellInv
<1>7. ASSUME NEW j \in JobId, TestsStart(j) \/ TestsProgress(j) \/ TestsFinish(j) PROVE IInv'
  BY <1>7, TestsStepsInv
<1>8. CASE Crash
  BY <1>8, CrashInv
<1>9. CASE Tick
  BY <1>9, TickInv
<1>10. CASE UNCHANGED vars
  BY <1>10, SoundPrimed DEF vars, IInv, Types, RowFirst, TaskSays, TestsSay
<1>. QED
  BY <1>1, <1>2, <1>3, <1>4, <1>5, <1>6, <1>7, <1>8, <1>9, <1>10, <1>11 DEF Next

(* IInv holds in every reachable state of the server.                      *)
THEOREM AlwaysInv == Spec => []IInv
BY InitInv, NextInv, PTL DEF Spec
-----------------------------------------------------------------------------
(* The state keeps its types.                                              *)
THEOREM TypeCorrect == Spec => []TypeOK
<1>1. ASSUME IInv, NEW n \in Notifier
      PROVE  /\ n.ts \in {NONE, 0} \cup DOMAIN n.messages
             /\ \A i \in DOMAIN n.messages : n.messages[i] \in Text
             /\ n.quiet \in 0..THROTTLE
  <2>1. /\ n.ts \in {NONE, 0, 1} /\ n.quiet \in 0..THROTTLE
        /\ n.messages = <<>> \/ \E t \in Text : n.messages = <<t>>
        /\ n.ts = 1 => n.messages # <<>>
    BY DEF Notifier, Message
  <2>2. DOMAIN <<>> = {}
    OBVIOUS
  <2>3. \A t \in Text : DOMAIN <<t>> = {1} /\ <<t>>[1] = t
    OBVIOUS
  <2>. QED
    BY <2>1, <2>2, <2>3
<1>2. ASSUME IInv PROVE TypeOK
  <2>1. \A who \in Speaker \X JobId : slack[who] \in Notifier
    BY <1>2 DEF IInv, Types
  <2>2. jobs \in Table
    BY <1>2 DEF IInv, Sound
  <2>. QED
    BY <1>1, <1>2, <2>1, <2>2 DEF IInv, Types, TypeOK, Run, Answer
<1>. QED
  BY <1>2, AlwaysInv, PTL

(* A command's run is started at most once, and not without its row: the   *)
(* call that starts it is not made again, whatever comes of it.            *)
THEOREM OneRunPerCommandAlways == Spec => []OneRunPerCommand
<1>1. IInv => OneRunPerCommand
  BY RunFields DEF IInv, RowFirst, OneRunPerCommand
<1>. QED
  BY <1>1, AlwaysInv, PTL

(* A notifier is one message, whatever of its calls is refused, lost or    *)
(* ends with an exception.                                                 *)
THEOREM OneMessageEachAlways == Spec => []OneMessageEach
<1>1. ASSUME IInv, NEW who \in Speaker \X JobId
      PROVE  Len(slack[who].messages) <= 1
  <2>1. slack[who].messages \in Message
    BY <1>1 DEF IInv, Types, Notifier
  <2>2. Len(<<>>) = 0 /\ \A t \in Text : Len(<<t>>) = 1
    OBVIOUS
  <2>. QED
    BY <2>1, <2>2 DEF Message
<1>2. IInv => OneMessageEach
  BY <1>1 DEF OneMessageEach
<1>. QED
  BY <1>2, AlwaysInv, PTL

(* The edits keep to the rate, the forced one at the end besides.          *)
THEOREM EditRateAlwaysBounded == Spec => []EditRateBounded
<1>1. ASSUME IInv, NEW who \in Speaker \X JobId
      PROVE  slack[who].edits <= clock \div THROTTLE + 2
  <2>1. slack[who].edits \in Nat /\ clock \in Nat
    BY <1>1 DEF IInv, Types, Notifier
  <2>2. PICK j \in JobId : who = <<"task", j>> \/ who = <<"tests", j>>
    BY DEF Speaker
  <2>3. PacedAtEnd(slack[who], clock)
    BY <1>1, <2>2 DEF IInv, TaskSays, TestsSay
  <2>. QED
    BY <2>1, <2>3, PaceAsRate DEF PacedAtEnd
<1>2. IInv => EditRateBounded
  BY <1>1 DEF EditRateBounded
<1>. QED
  BY <1>2, AlwaysInv, PTL

(* If Slack said ok to every call the message shows how the run ended, and *)
(* that of its tests the summary.                                          *)
THEOREM LastWordAlwaysShown == Spec => []LastWordShown
<1>1. IInv => LastWordShown
  BY DEF IInv, TaskSays, TestsSay, Shows, LastWordShown
<1>. QED
  BY <1>1, AlwaysInv, PTL

(* The caps hold of the table of the standalone server, whose runs are     *)
(* all dispatched.                                                         *)
THEOREM CapsAlwaysHold == Spec => [](JobCapIn(jobs) /\ RunningCapIn(jobs))
<1>1. IInv => JobCapIn(jobs) /\ RunningCapIn(jobs)
  BY DEF IInv, Sound
<1>. QED
  BY <1>1, AlwaysInv, PTL
-----------------------------------------------------------------------------
(* What JobStore_proofs proves of the store holds of this table.           *)
StoreProofs == INSTANCE JobStore_proofs

LEMMA StoreAssumptions == StoreProofs!IsFiniteSet(JobId)
BY JobAssumption DEF IsFiniteSet, StoreProofs!IsFiniteSet

(* The one call that changes this table is record_dispatch.                *)
LEMMA SameStatements ==
  ASSUME NEW T, NEW j, NEW at
  PROVE  /\ StoreProofs!DispatchAccepted(T, j) <=> DispatchAccepted(T, j)
         /\ StoreProofs!Dispatched(T, j, at) = Dispatched(T, j, at)
         /\ StoreProofs!EmptyTable = EmptyTable
<1>1. StoreProofs!DispatchAccepted(T, j) <=> DispatchAccepted(T, j)
  BY DEF DispatchAccepted, StoreProofs!DispatchAccepted, Duplicate,
         StoreProofs!Duplicate, JobAtCapacity, StoreProofs!JobAtCapacity, ChannelBusy,
         StoreProofs!ChannelBusy, ActiveOf, StoreProofs!ActiveOf, SameJob,
         StoreProofs!SameJob, BusyIn, StoreProofs!BusyIn, InChannel,
         StoreProofs!InChannel, InState, StoreProofs!InState, AtCap, StoreProofs!AtCap,
         Cardinality, StoreProofs!Cardinality, ACTIVE_STATES, StoreProofs!ACTIVE_STATES,
         BUSY_STATES, StoreProofs!BUSY_STATES, ABSENT, StoreProofs!ABSENT, QUEUED,
         StoreProofs!QUEUED, CLAIMED, StoreProofs!CLAIMED, RUNNING, StoreProofs!RUNNING
<1>2. StoreProofs!Dispatched(T, j, at) = Dispatched(T, j, at)
  BY DEF Dispatched, StoreProofs!Dispatched, Inserted, StoreProofs!Inserted, RUNNING,
         StoreProofs!RUNNING
<1>3. StoreProofs!EmptyTable = EmptyTable
  BY DEF EmptyTable, StoreProofs!EmptyTable, NoRow, StoreProofs!NoRow, ABSENT,
         StoreProofs!ABSENT
<1>. QED
  BY <1>1, <1>2, <1>3

LEMMA StoreStep ==
  ASSUME [Next]_vars
  PROVE  [StoreProofs!Next]_jobs
<1>1. ASSUME NEW d \in Delivery, Handle(d) PROVE [StoreProofs!Next]_jobs
  <2>1. d[1] \in JobId
    BY DEF Delivery
  <2>2. StoreProofs!RecordDispatch(d[1]) \/ UNCHANGED jobs
    BY <1>1, SameStatements DEF Handle, StoreProofs!RecordDispatch
  <2>. QED
    BY <2>1, <2>2 DEF StoreProofs!Next
<1>2. CASE UNCHANGED jobs
  BY <1>2
<1>. QED
  BY <1>1, <1>2 DEF Next, TurnDown, Start, SuiteEnds, Report, CallGitHub, Tell, TestsStart,
     TestsProgress, TestsFinish, Crash, Tick, vars

(* The standalone server is one of the store's callers, and its runs only  *)
(* ever move along the lifecycle: each is accepted once, in whichever mode *)
(* it is started, and none is handed to a test server.                     *)
THEOREM LifecycleAlwaysKept == Spec => StoreProofs!KeepsLifecycle
<1>1. Init => StoreProofs!Init
  BY SameStatements DEF Init, StoreProofs!Init
<1>2. [Next]_vars => [StoreProofs!Next]_jobs
  BY StoreStep
<1>3. Spec => StoreProofs!Spec
  BY <1>1, <1>2, PTL DEF Spec, StoreProofs!Spec
<1>4. StoreProofs!Spec => StoreProofs!KeepsLifecycle
  BY StoreAssumptions, JobAssumption, CapsAssumption, LeaseAssumption, StampAssumption,
     NullAssumption, StoreProofs!ImplementsLifecycle
<1>. QED
  BY <1>3, <1>4, PTL
=============================================================================
