------------------------------ MODULE JobDefs -------------------------------
(***************************************************************************)
(* Job definitions: the `job_defs` table and the requests of the admin     *)
(* door that save and delete them (put_job, delete_job).                   *)
(*                                                                         *)
(* Requests of several edges use one Postgres.  A save is a transaction of *)
(* two statements: does the id exist, then an INSERT that becomes an       *)
(* UPDATE if it does.  The second statement first takes the row of its id, *)
(* waiting for a transaction that has written it, and then enters the      *)
(* unique index on triggers, waiting for a transaction that has entered or *)
(* may yet free the trigger.  On SQLite nothing comes between these steps. *)
(***************************************************************************)

CONSTANTS
  DefId,                  \* ids of definitions
  Session,                \* requests in flight, over all edges
  Product, Scope, Server, \* the deployment's allowlist
  Asked,                  \* triggers that bodies of save requests name
  Body,                   \* bodies of save requests
  NULL                    \* a body that is not an object

Trigger == Product \X Scope \X Server

ActionKind == {"gh-action", "test-server"}

Language == {"python", "node"}

DEFAULT_WORKFLOW ==
  [l \in Language |-> IF l = "python" THEN "runtests-python.yml" ELSE "runtests-node.yml"]

(* `complete` stands for the texts that have to be there and be short.     *)
ASSUME BodyAssumption ==
  \A b \in Body : b # NULL =>
    /\ DOMAIN b = {"trigger", "action", "language", "target", "complete"}
    /\ b.trigger \in Asked

VARIABLES
  defs,     \* the committed table
  request,  \* what each request is doing
  applied   \* history: what the request of each session has committed

vars == <<defs, request, applied>>

NoDef == [trigger |-> <<>>, action |-> "none", target |-> ""]

Exists(d) == defs[d] # NoDef

Idle == [pc |-> "idle"]
Saving(d, body) == [pc |-> "exists?", id |-> d, body |-> body, existed |-> FALSE]
ReadingBack(r) == [pc |-> "read back", id |-> r.id, existed |-> r.existed]
Deleting(d) == [pc |-> "delete", id |-> d]
Answered(reply) == [pc |-> "answered", reply |-> reply]

SaveSteps == {"exists?", "take row", "enter index", "commit save"}
DeleteSteps == {"delete", "commit delete"}

Free(s) == request[s].pc = "idle"
Open(s) == request[s].pc \notin {"idle", "answered"}

Becomes(s, r) == request' = [request EXCEPT ![s] = r]
GoTo(s, pc) == request' = [request EXCEPT ![s].pc = pc]

Init ==
  /\ defs = [d \in DefId |-> NoDef]
  /\ request = [s \in Session |-> Idle]
  /\ applied = [s \in Session |-> "nothing"]
-----------------------------------------------------------------------------
(* The target a definition gets: as given, or by its language; an unknown  *)
(* language has none.                                                      *)
Target(body) ==
  IF body.target # "" THEN body.target
  ELSE IF body.language \in Language THEN DEFAULT_WORKFLOW[body.language]
  ELSE ""

(* Mutant: any action is taken.                                            *)
WellShapedAnyAction(body) ==
  body.complete /\ Target(body) # "" /\ body.language \in Language

(* validate_job_def.                                                       *)
WellShaped(body) ==
  /\ body.complete
  /\ body.action \in ActionKind
  /\ Target(body) # ""
  /\ body.language \in Language

(* put_job, up to the store: parsed, allowed, well shaped.                 *)
Put(s, d, body) ==
  /\ Free(s)
  /\ Becomes(s, IF body = NULL THEN Answered("400")
                ELSE IF body.trigger \notin Trigger \/ ~WellShaped(body) THEN Answered("422")
                ELSE Saving(d, body))
  /\ UNCHANGED <<defs, applied>>

(* SELECT 1 FROM job_defs WHERE id = ...                                   *)
Look(s) ==
  /\ request[s].pc = "exists?"
  /\ Becomes(s, [request[s] EXCEPT !.pc = "take row", !.existed = Exists(request[s].id)])
  /\ UNCHANGED <<defs, applied>>

(* The rows an open transaction has written.                               *)
Writes(o) ==
  IF request[o].pc \in {"enter index", "commit save", "commit delete"}
  THEN {request[o].id} ELSE {}

RowIsFree(s, d) == \A o \in Session \ {s} : d \notin Writes(o)

TakeRow(s) ==
  /\ request[s].pc = "take row"
  /\ RowIsFree(s, request[s].id)
  /\ GoTo(s, "enter index")
  /\ UNCHANGED <<defs, applied>>

(* Mutant: the index is looked up without waiting for anybody.             *)
NotWaitedFor(s, t) == TRUE

(* No open transaction has entered the trigger t or may yet free it.       *)
TriggerIsSettled(s, t) ==
  \A o \in Session \ {s} :
    /\ request[o].pc = "commit save" => request[o].body.trigger # t
    /\ \A d \in Writes(o) : Exists(d) => defs[d].trigger # t

ClaimedByOther(d, t) == \E e \in DefId \ {d} : Exists(e) /\ defs[e].trigger = t

(* The unique index decides.                                               *)
EnterIndex(s) ==
  LET d == request[s].id
      t == request[s].body.trigger
  IN  /\ request[s].pc = "enter index"
      /\ TriggerIsSettled(s, t)
      /\ IF ClaimedByOther(d, t) THEN Becomes(s, Answered("409")) ELSE GoTo(s, "commit save")
      /\ UNCHANGED <<defs, applied>>

Saved(body) ==
  [trigger |-> body.trigger, action |-> body.action, target |-> Target(body)]

CommitSave(s) ==
  /\ request[s].pc = "commit save"
  /\ defs' = [defs EXCEPT ![request[s].id] = Saved(request[s].body)]
  /\ applied' = [applied EXCEPT ![s] = "saved"]
  /\ Becomes(s, ReadingBack(request[s]))

(* The answer shows the definition as it is now; if there is none any more *)
(* the handler fails.                                                      *)
ReadBack(s) ==
  /\ request[s].pc = "read back"
  /\ Becomes(s, Answered(IF ~Exists(request[s].id) THEN "500"
                         ELSE IF request[s].existed THEN "200" ELSE "201"))
  /\ UNCHANGED <<defs, applied>>
-----------------------------------------------------------------------------
(* delete_job.                                                             *)
Delete(s, d) ==
  /\ Free(s)
  /\ Becomes(s, Deleting(d))
  /\ UNCHANGED <<defs, applied>>

(* Mutant: what is reported was read without waiting for the row.          *)
DeleteRowAtOnce(s) ==
  LET d == request[s].id
  IN  /\ request[s].pc = "delete"
      /\ IF Exists(d) THEN GoTo(s, "commit delete") ELSE Becomes(s, Answered("not there"))
      /\ UNCHANGED <<defs, applied>>

DeleteRow(s) ==
  LET d == request[s].id
  IN  /\ request[s].pc = "delete"
      /\ RowIsFree(s, d)
      /\ IF Exists(d) THEN GoTo(s, "commit delete") ELSE Becomes(s, Answered("not there"))
      /\ UNCHANGED <<defs, applied>>

CommitDelete(s) ==
  /\ request[s].pc = "commit delete"
  /\ defs' = [defs EXCEPT ![request[s].id] = NoDef]
  /\ applied' = [applied EXCEPT ![s] = IF Exists(request[s].id) THEN "deleted" ELSE "nothing"]
  /\ Becomes(s, Answered("deleted"))

(* Mutant: a save that met a busy store is tried again.                    *)
BusyIsRetried(s) ==
  /\ request[s].pc \in SaveSteps \cup DeleteSteps \cup {"read back"}
  /\ IF request[s].pc \in SaveSteps THEN GoTo(s, "exists?") ELSE Becomes(s, Answered("500"))
  /\ UNCHANGED <<defs, applied>>

(* StoreBusy: a wait for a lock that took too long (lock_timeout), or a    *)
(* deadlock.  Of a save it is caught as the StoreError it is a kind of; of *)
(* a delete, and of reading back what was saved, it is not caught.         *)
Busy(s) ==
  /\ request[s].pc \in SaveSteps \cup DeleteSteps \cup {"read back"}
  /\ Becomes(s, Answered(IF request[s].pc \in SaveSteps THEN "422" ELSE "500"))
  /\ UNCHANGED <<defs, applied>>

(* The request is over: its answer is sent, or the edge ends or its        *)
(* connection to the database is lost and nobody is answered.              *)
Leave(s) ==
  /\ ~Free(s)
  /\ Becomes(s, Idle)
  /\ applied' = [applied EXCEPT ![s] = "nothing"]
  /\ UNCHANGED defs
-----------------------------------------------------------------------------
(* What the handler of a request does next.                                *)
Step(s) ==
  \/ Look(s) \/ TakeRow(s) \/ EnterIndex(s) \/ CommitSave(s) \/ ReadBack(s)
  \/ DeleteRow(s) \/ CommitDelete(s) \/ Busy(s)

Next ==
  \/ \E s \in Session, d \in DefId :
       Delete(s, d) \/ \E body \in Body : Put(s, d, body)
  \/ \E s \in Session : Step(s) \/ Leave(s)

(* A handler that can go on does, and the database gives up a wait that    *)
(* does not end.                                                           *)
Fairness == \A s \in Session : WF_vars(Step(s))

Spec == Init /\ [][Next]_vars /\ Fairness
-----------------------------------------------------------------------------
Workflow ==
  {DEFAULT_WORKFLOW[l] : l \in Language} \cup {b.target : b \in Body \ {NULL}}

Def == [trigger : Trigger, action : ActionKind, target : Workflow]

Valid == {b \in Body \ {NULL} : b.trigger \in Trigger /\ WellShaped(b)}

(* Statuses of saves, and what a delete reports.                           *)
Reply == {"200", "201", "400", "409", "422", "500", "deleted", "not there"}

Request ==
  {Idle}
    \cup [pc : SaveSteps, id : DefId, body : Valid, existed : BOOLEAN]
    \cup [pc : {"read back"}, id : DefId, existed : BOOLEAN]
    \cup [pc : DeleteSteps, id : DefId]
    \cup {Answered(r) : r \in Reply}

(* What is stored is a definition: allowed, well shaped and with a target  *)
(* for its language.                                                       *)
TypeOK ==
  /\ defs \in [DefId -> Def \cup {NoDef}]
  /\ \A d \in DefId : defs[d].target = "" => ~Exists(d)
  /\ request \in [Session -> Request]
  /\ applied \in [Session -> {"nothing", "saved", "deleted"}]

(* No trigger is ever claimed by two definitions, whatever is saved,       *)
(* deleted and swapped at the same time (A2.2.2: refused at save rather    *)
(* than resolved at match time by whichever row came back first).          *)
OneJobPerTrigger ==
  \A d, e \in DefId :
    Exists(d) /\ Exists(e) /\ defs[d].trigger = defs[e].trigger => d = e

(* An answer says what has happened to the table: a refused save changed   *)
(* nothing, an accepted one was committed, and of two deletes of one       *)
(* definition only the one that removed it says so (put_job, delete_job).  *)
AnswersAreTrue ==
  \A s \in Session :
    /\ request[s] \in {Answered("400"), Answered("409"), Answered("422"), Answered("not there")}
         => applied[s] = "nothing"
    /\ request[s] \in {Answered("200"), Answered("201")} => applied[s] = "saved"
    /\ request[s] = Answered("deleted") => applied[s] = "deleted"

(* Every request comes to an end, although saves can wait for each other   *)
(* in a circle: each has written a row and wants the trigger the other's   *)
(* row has (swapped triggers).  Only giving up the wait undoes that, and   *)
(* it must not lead back into it (lock_timeout, _translate, put_job).      *)
EveryRequestEnds == \A s \in Session : []<>~Open(s)
=============================================================================
