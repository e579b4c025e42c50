--------------------------- MODULE JobDefs_proofs ---------------------------
(***************************************************************************)
(* What holds of the job definitions for any definitions, triggers and     *)
(* requests in flight: the unique index keeps every trigger to one         *)
(* definition, and every answer is true.                                   *)
(*                                                                         *)
(* The index protects what is committed only because of two locks, which   *)
(* the invariant adds: no two transactions have written the same row, and  *)
(* a transaction that has entered the index has its trigger to itself.     *)
(***************************************************************************)
EXTENDS JobDefs, TLAPS

RowLocks ==
  \A s, o \in Session : s # o => Writes(s) \cap Writes(o) = {}

IndexLocks ==
  \A s \in Session : request[s].pc = "commit save" =>
    /\ ~ClaimedByOther(request[s].id, request[s].body.trigger)
    /\ \A o \in Session \ {s} :
         request[o].pc = "commit save" => request[o].body.trigger # request[s].body.trigger

(* What a request in flight has committed so far.                          *)
Progress ==
  \A s \in Session :
    /\ request[s].pc \in SaveSteps \cup DeleteSteps \cup {"idle"} => applied[s] = "nothing"
    /\ request[s].pc = "read back" => applied[s] = "saved"
    /\ request[s].pc = "commit delete" => Exists(request[s].id)

IInv ==
  /\ TypeOK /\ RowLocks /\ IndexLocks /\ OneJobPerTrigger
  /\ Progress /\ AnswersAreTrue

USE DEF SaveSteps, DeleteSteps
-----------------------------------------------------------------------------
(* A request in one of the steps of a save or a delete is what it says.    *)
SaveRecord == [pc : SaveSteps, id : DefId, body : Valid, existed : BOOLEAN]
ReadRecord == [pc : {"read back"}, id : DefId, existed : BOOLEAN]
DeleteRecord == [pc : DeleteSteps, id : DefId]

(* Every request is of one of these kinds, is idle or has been answered.   *)
LEMMA RequestKinds ==
  ASSUME NEW r \in Request
  PROVE  \/ r \in SaveRecord \/ r \in ReadRecord \/ r \in DeleteRecord
         \/ r.pc = "idle" \/ r.pc = "answered"
<1>1. CASE r = Idle
  BY <1>1 DEF Idle
<1>2. CASE \E x \in Reply : r = Answered(x)
  BY <1>2 DEF Answered
<1>3. CASE r \in SaveRecord \cup ReadRecord \cup DeleteRecord
  BY <1>3
<1>. QED
  BY <1>1, <1>2, <1>3 DEF Request, SaveRecord, ReadRecord, DeleteRecord

(* An answered request is neither idle nor in a step of a save or delete.  *)
LEMMA AnswerKinds ==
  /\ Idle \in Request /\ Idle.pc = "idle"
  /\ \A x \in Reply : Answered(x) \in Request
  /\ \A x : Answered(x).pc = "answered" /\ Answered(x).reply = x
BY DEF Idle, Answered, Request

(* Each of these kinds is a kind of request.                               *)
LEMMA RecordsAreRequests ==
  SaveRecord \subseteq Request /\ DeleteRecord \subseteq Request
BY DEF Request, SaveRecord, DeleteRecord

(* The step a request is in tells what else it carries.                    *)
LEMMA StepRecords ==
  ASSUME NEW r \in Request
  PROVE  /\ r.pc \in SaveSteps => r \in SaveRecord
         /\ r.pc \in DeleteSteps => r \in DeleteRecord
         /\ r.pc = "read back" => r \in ReadRecord
BY RequestKinds DEF SaveRecord, ReadRecord, DeleteRecord

(* The row a well-shaped body is saved as is a definition.                 *)
LEMMA SavedIsDef ==
  ASSUME TypeOK, NEW s \in Session, request[s].pc = "commit save"
  PROVE  /\ request[s].id \in DefId
         /\ Saved(request[s].body) \in Def /\ Saved(request[s].body) # NoDef /\ Saved(request[s].body).target # ""
         /\ Saved(request[s].body).trigger = request[s].body.trigger
<1>1. request[s] \in SaveRecord
  BY StepRecords DEF TypeOK
<1>. DEFINE body == request[s].body
<1>2. /\ body \in Body /\ body # NULL
      /\ body.trigger \in Trigger /\ body.action \in ActionKind
      /\ Target(body) # "" /\ body.language \in Language
  BY <1>1 DEF Valid, WellShaped, SaveRecord
<1>3. Target(body) \in Workflow
  BY <1>2 DEF Target, Workflow
<1>4. request[s].id \in DefId
  BY <1>1 DEF SaveRecord
<1>. QED
  BY <1>2, <1>3, <1>4 DEF Saved, Def, NoDef, ActionKind
-----------------------------------------------------------------------------
(* The empty table with no request in flight satisfies the invariant.      *)
THEOREM InitSound == Init => IInv
<1>. SUFFICES ASSUME Init PROVE IInv
  OBVIOUS
<1>1. \A s \in Session : request[s] = Idle /\ request[s].pc = "idle" /\ applied[s] = "nothing"
  BY AnswerKinds DEF Init
<1>2. \A d \in DefId : ~Exists(d)
  BY DEF Init, Exists
<1>3. TypeOK
  BY <1>1, <1>2, AnswerKinds DEF Init, TypeOK
<1>4. RowLocks /\ IndexLocks /\ OneJobPerTrigger /\ Progress
  BY <1>1, <1>2 DEF RowLocks, Writes, IndexLocks, OneJobPerTrigger, Progress
<1>5. AnswersAreTrue
  BY <1>1, AnswerKinds DEF AnswersAreTrue
<1>. QED
  BY <1>3, <1>4, <1>5 DEF IInv
-----------------------------------------------------------------------------
(* What a request may become by a step that leaves the table alone.        *)
Fits(s, r, a) ==
  /\ r \in Request
  /\ a \in {"nothing", "saved", "deleted"}
  /\ r.pc \in {"enter index", "commit save", "commit delete"} => RowIsFree(s, r.id)
  /\ r.pc = "commit save" =>
       TriggerIsSettled(s, r.body.trigger) /\ ~ClaimedByOther(r.id, r.body.trigger)
  /\ r.pc = "commit delete" => Exists(r.id)
  /\ r.pc \in SaveSteps \cup DeleteSteps \cup {"idle"} => a = "nothing"
  /\ r.pc = "read back" => a = "saved"
  /\ r.pc = "answered" /\ r.reply \in {"400", "409", "422", "not there"} => a = "nothing"
  /\ r.pc = "answered" /\ r.reply \in {"200", "201"} => a = "saved"
  /\ r.pc = "answered" => r.reply # "deleted"

(* A step that commits nothing and moves the request of s to r, without    *)
(* taking a row or a trigger that another transaction has, is sound.       *)
LEMMA StaysSound ==
  ASSUME IInv, NEW s \in Session, NEW r, NEW a, Fits(s, r, a),
         Becomes(s, r), UNCHANGED defs,
         applied' = [applied EXCEPT ![s] = a]
  PROVE  IInv'
<1>1. /\ request' \in [Session -> Request]
      /\ request'[s] = r
      /\ \A o \in Session \ {s} : request'[o] = request[o] /\ applied'[o] = applied[o]
  BY DEF IInv, TypeOK, Becomes, Fits
<1>2. applied'[s] = a /\ applied' \in [Session -> {"nothing", "saved", "deleted"}]
  BY DEF IInv, TypeOK, Fits
<1>3. TypeOK'
  BY <1>1, <1>2 DEF IInv, TypeOK, Exists
<1>4. RowLocks'
  <2>1. \A o \in Session \ {s} : Writes(o)' = Writes(o)
    BY <1>1 DEF Writes
  <2>2. \A o \in Session \ {s} : Writes(s)' \cap Writes(o) = {}
    BY <1>1 DEF Writes, RowIsFree, Fits
  <2>3. \A p, o \in Session : p # o /\ p # s /\ o # s => Writes(p)' \cap Writes(o)' = {}
    BY <2>1 DEF IInv, RowLocks
  <2>4. \A o \in Session : o # s => Writes(s)' \cap Writes(o)' = {}
    BY <2>1, <2>2
  <2>. QED
    BY <2>3, <2>4 DEF RowLocks
<1>5. IndexLocks'
  <2>1. \A d, t : ClaimedByOther(d, t)' <=> ClaimedByOther(d, t)
    BY DEF ClaimedByOther, Exists
  <2>2. ASSUME NEW p \in Session, NEW o \in Session \ {p},
               request'[p].pc = "commit save", request'[o].pc = "commit save"
        PROVE  request'[o].body.trigger # request'[p].body.trigger
    <3>1. CASE p = s
      <4>1. TriggerIsSettled(s, r.body.trigger) /\ request[o].pc = "commit save"
        BY <1>1, <2>2, <3>1 DEF Fits
      <4>. QED
        BY <1>1, <2>2, <3>1, <4>1 DEF TriggerIsSettled
    <3>2. CASE o = s
      <4>1. TriggerIsSettled(s, r.body.trigger) /\ request[p].pc = "commit save"
        BY <1>1, <2>2, <3>2 DEF Fits
      <4>. QED
        BY <1>1, <2>2, <3>2, <4>1 DEF TriggerIsSettled
    <3>3. CASE p # s /\ o # s
      BY <1>1, <2>2, <3>3 DEF IInv, IndexLocks
    <3>. QED
      BY <3>1, <3>2, <3>3
  <2>3. ASSUME NEW p \in Session, request'[p].pc = "commit save"
        PROVE  ~ClaimedByOther(request'[p].id, request'[p].body.trigger)
    BY <1>1, <2>3 DEF Fits, IInv, IndexLocks
  <2>4. ASSUME NEW p \in Session, request'[p].pc = "commit save"
        PROVE  ~ClaimedByOther(request[p].id, request[p].body.trigger)'
    BY <2>3, <2>4 DEF ClaimedByOther, Exists
  <2>. QED
    BY <2>2, <2>4 DEF IndexLocks
<1>6. OneJobPerTrigger'
  BY DEF IInv, OneJobPerTrigger, Exists
<1>7. Progress'
  BY <1>1, <1>2 DEF IInv, Progress, Exists, Fits
<1>8. AnswersAreTrue'
  <2>1. ASSUME NEW p \in Session
        PROVE  /\ request'[p] \in {Answered("400"), Answered("409"), Answered("422"), Answered("not there")}
                    => applied'[p] = "nothing"
               /\ request'[p] \in {Answered("200"), Answered("201")} => applied'[p] = "saved"
               /\ request'[p] = Answered("deleted") => applied'[p] = "deleted"
    <3>1. CASE p = s
      <4>1. r.pc = "answered" /\ r.reply \in {"400", "409", "422", "not there"} => a = "nothing"
        BY DEF Fits
      <4>2. r.pc = "answered" /\ r.reply \in {"200", "201"} => a = "saved"
        BY DEF Fits
      <4>3. r.pc = "answered" => r.reply # "deleted"
        BY DEF Fits
      <4>4. \A x : r = Answered(x) => r.pc = "answered" /\ r.reply = x
        BY AnswerKinds
      <4>. QED
        BY <1>1, <1>2, <3>1, <4>1, <4>2, <4>3, <4>4
    <3>2. CASE p # s
      BY <1>1, <3>2 DEF IInv, AnswersAreTrue
    <3>. QED
      BY <3>1, <3>2
  <2>. QED
    BY <2>1 DEF AnswersAreTrue
<1>. QED
  BY <1>3, <1>4, <1>5, <1>6, <1>7, <1>8 DEF IInv
-----------------------------------------------------------------------------
(* The step of a request that ends or goes on without committing.          *)
LEMMA NoCommitSound ==
  ASSUME IInv, NEW s \in Session,
         \/ \E d \in DefId : Delete(s, d)
         \/ \E d \in DefId, body \in Body : Put(s, d, body)
         \/ Look(s) \/ TakeRow(s) \/ EnterIndex(s) \/ ReadBack(s)
         \/ DeleteRow(s) \/ Busy(s) \/ Leave(s)
  PROVE  IInv'
<1>. USE DEF Free
<1>s. SUFFICES \E r, a : Fits(s, r, a) /\ Becomes(s, r) /\ applied' = [applied EXCEPT ![s] = a]
  BY StaysSound DEF Delete, Put, Look, TakeRow, EnterIndex, ReadBack, DeleteRow, Busy, Leave
<1>t. /\ request \in [Session -> Request]
      /\ applied \in [Session -> {"nothing", "saved", "deleted"}]
      /\ applied = [applied EXCEPT ![s] = applied[s]]
  BY DEF IInv, TypeOK
<1>p. /\ request[s].pc \in SaveSteps \cup DeleteSteps \cup {"idle"} => applied[s] = "nothing"
      /\ request[s].pc = "read back" => applied[s] = "saved"
  BY DEF IInv, Progress
<1>1. ASSUME NEW d \in DefId, Delete(s, d) PROVE Fits(s, Deleting(d), "nothing")
  BY DEF Deleting, Request, Fits
<1>2. ASSUME NEW d \in DefId, NEW body \in Body,
             body # NULL, body.trigger \in Trigger, WellShaped(body)
      PROVE  Fits(s, Saving(d, body), "nothing")
  BY <1>2 DEF Saving, Request, Valid, Fits
<1>3. ASSUME NEW reply \in {"400", "409", "422", "500", "not there"}
      PROVE  Fits(s, Answered(reply), "nothing")
  BY AnswerKinds DEF Fits, Reply
<1>4. ASSUME NEW reply \in {"500", "200", "201"} PROVE Fits(s, Answered(reply), "saved")
  BY AnswerKinds DEF Fits, Reply
<1>5. Fits(s, Idle, "nothing")
  BY <1>t, AnswerKinds DEF Fits
<1>6. CASE \E d \in DefId : Delete(s, d)
  BY <1>1, <1>6, <1>t, <1>p DEF Delete
<1>7. CASE \E d \in DefId, body \in Body : Put(s, d, body)
  BY <1>2, <1>3, <1>7, <1>t, <1>p DEF Put
<1>8. CASE Look(s)
  <2>. DEFINE r == [request[s] EXCEPT !.pc = "take row", !.existed = Exists(request[s].id)]
  <2>1. r \in Request /\ r.pc = "take row"
    <3>1. request[s] \in SaveRecord
      BY <1>8, <1>t, StepRecords DEF Look
    <3>2. r \in SaveRecord
      BY <3>1 DEF SaveRecord, Exists
    <3>. QED
      BY <3>1, <3>2, RecordsAreRequests DEF SaveRecord
  <2>2. Fits(s, r, applied[s])
    BY <1>8, <1>p, <2>1 DEF Look, Fits
  <2>. QED
    BY <1>8, <1>t, <2>2 DEF Look
<1>9. CASE TakeRow(s)
  <2>. DEFINE r == [request[s] EXCEPT !.pc = "enter index"]
  <2>1. r \in Request /\ r.pc = "enter index" /\ r.id = request[s].id
    <3>1. request[s] \in SaveRecord
      BY <1>9, <1>t, StepRecords DEF TakeRow
    <3>2. r \in SaveRecord
      BY <3>1 DEF SaveRecord
    <3>. QED
      BY <3>1, <3>2, RecordsAreRequests DEF SaveRecord
  <2>2. Fits(s, r, applied[s])
    BY <1>9, <1>p, <2>1 DEF TakeRow, Fits
  <2>. QED
    BY <1>9, <1>t, <2>2 DEF TakeRow, GoTo, Becomes
<1>10. CASE EnterIndex(s)
  <2>. DEFINE r == [request[s] EXCEPT !.pc = "commit save"]
  <2>1. /\ r \in Request /\ r.pc = "commit save"
        /\ r.id = request[s].id /\ r.body = request[s].body
    <3>1. request[s] \in SaveRecord
      BY <1>10, <1>t, StepRecords DEF EnterIndex
    <3>2. r \in SaveRecord
      BY <3>1 DEF SaveRecord
    <3>. QED
      BY <3>1, <3>2, RecordsAreRequests DEF SaveRecord
  <2>2. RowIsFree(s, request[s].id)
    BY <1>10 DEF EnterIndex, IInv, RowLocks, RowIsFree, Writes
  <2>3. CASE ClaimedByOther(request[s].id, request[s].body.trigger)
    BY <1>3, <1>10, <1>t, <1>p, <2>3 DEF EnterIndex
  <2>4. CASE ~ClaimedByOther(request[s].id, request[s].body.trigger)
    <3>1. Fits(s, r, applied[s])
      BY <1>10, <1>p, <2>1, <2>2, <2>4 DEF EnterIndex, Fits
    <3>. QED
      BY <1>10, <1>t, <2>4, <3>1 DEF EnterIndex, GoTo, Becomes
  <2>. QED
    BY <2>3, <2>4
<1>11. CASE ReadBack(s)
  BY <1>4, <1>11, <1>t, <1>p DEF ReadBack
<1>12. CASE DeleteRow(s)
  <2>. DEFINE r == [request[s] EXCEPT !.pc = "commit delete"]
  <2>1. r \in Request /\ r.pc = "commit delete" /\ r.id = request[s].id
    <3>1. request[s] \in DeleteRecord
      BY <1>12, <1>t, StepRecords DEF DeleteRow
    <3>2. r \in DeleteRecord
      BY <3>1 DEF DeleteRecord
    <3>. QED
      BY <3>1, <3>2, RecordsAreRequests DEF DeleteRecord
  <2>2. CASE ~Exists(request[s].id)
    BY <1>3, <1>12, <1>t, <1>p, <2>2 DEF DeleteRow
  <2>3. CASE Exists(request[s].id)
    <3>1. Fits(s, r, applied[s])
      BY <1>12, <1>p, <2>1, <2>3 DEF DeleteRow, Fits
    <3>. QED
      BY <1>12, <1>t, <2>3, <3>1 DEF DeleteRow, GoTo, Becomes
  <2>. QED
    BY <2>2, <2>3
<1>13. CASE Busy(s)
  BY <1>3, <1>4, <1>13, <1>t, <1>p DEF Busy
<1>14. CASE Leave(s)
  BY <1>5, <1>14 DEF Leave
<1>. QED
  BY <1>6, <1>7, <1>8, <1>9, <1>10, <1>11, <1>12, <1>13, <1>14
-----------------------------------------------------------------------------
(* A save commits: its trigger is claimed by no other definition, and no   *)
(* other transaction has written its row.                                  *)
LEMMA CommitSaveSound ==
  ASSUME IInv, NEW s \in Session, CommitSave(s)
  PROVE  IInv'
<1>. DEFINE d == request[s].id
            t == request[s].body.trigger
<1>1. /\ d \in DefId
      /\ Saved(request[s].body) \in Def /\ Saved(request[s].body) # NoDef /\ Saved(request[s].body).target # "" /\ Saved(request[s].body).trigger = t
  BY SavedIsDef DEF IInv, CommitSave
<1>2. /\ request \in [Session -> Request] /\ request[s].pc = "commit save"
      /\ request[s] \in SaveRecord
      /\ applied \in [Session -> {"nothing", "saved", "deleted"}]
  BY StepRecords DEF IInv, TypeOK, CommitSave
<1>3. ReadingBack(request[s]) \in Request /\ ReadingBack(request[s]).pc = "read back"
  BY <1>2 DEF ReadingBack, SaveRecord, Request
<1>4. /\ request' \in [Session -> Request]
      /\ request'[s].pc = "read back"
      /\ applied' \in [Session -> {"nothing", "saved", "deleted"}]
      /\ applied'[s] = "saved"
      /\ \A o \in Session \ {s} : request'[o] = request[o] /\ applied'[o] = applied[o]
  BY <1>2, <1>3 DEF CommitSave, Becomes
<1>5. \A e \in DefId : defs'[e] = IF e = d THEN Saved(request[s].body) ELSE defs[e]
  BY <1>1 DEF CommitSave, IInv, TypeOK
<1>6. TypeOK'
  <2>1. defs' \in [DefId -> Def \cup {NoDef}]
    BY <1>1 DEF CommitSave, IInv, TypeOK
  <2>2. \A e \in DefId : defs'[e].target = "" => ~Exists(e)'
    BY <1>1, <1>5 DEF IInv, TypeOK, Exists
  <2>. QED
    BY <1>4, <2>1, <2>2 DEF TypeOK
<1>7. RowLocks'
  <2>1. Writes(s)' = {} /\ \A o \in Session \ {s} : Writes(o)' = Writes(o)
    BY <1>4 DEF Writes
  <2>. QED
    BY <2>1 DEF IInv, RowLocks
<1>8. \A o \in Session \ {s} : d \notin Writes(o)
  BY <1>2 DEF IInv, RowLocks, Writes
<1>9. /\ \A e \in DefId \ {d} : Exists(e) => defs[e].trigger # t
      /\ \A o \in Session \ {s} :
           request[o].pc = "commit save" => request[o].body.trigger # t
  BY <1>2 DEF IInv, IndexLocks, ClaimedByOther
<1>10. IndexLocks'
  <2>1. ASSUME NEW p \in Session, request'[p].pc = "commit save"
        PROVE  ClaimedByOther(request[p].id, request[p].body.trigger)' => FALSE
    <3>1. p # s /\ request'[p] = request[p] /\ request[p].pc = "commit save"
      BY <1>4, <2>1
    <3>2. ~ClaimedByOther(request[p].id, request[p].body.trigger)
      BY <3>1 DEF IInv, IndexLocks
    <3>. QED
      BY <1>1, <1>5, <1>9, <3>1, <3>2 DEF ClaimedByOther, Exists
  <2>2. ASSUME NEW p \in Session, NEW o \in Session \ {p},
               request'[p].pc = "commit save", request'[o].pc = "commit save"
        PROVE  request'[o].body.trigger # request'[p].body.trigger
    BY <1>4, <2>2 DEF IInv, IndexLocks
  <2>. QED
    BY <2>1, <2>2 DEF IndexLocks
<1>11. OneJobPerTrigger'
  <2>1. SUFFICES ASSUME NEW e \in DefId, NEW f \in DefId, Exists(e)', Exists(f)',
                        defs'[e].trigger = defs'[f].trigger
                 PROVE  e = f
    BY DEF OneJobPerTrigger
  <2>2. CASE e # d /\ f # d
    BY <1>5, <2>1, <2>2 DEF IInv, OneJobPerTrigger, Exists
  <2>3. CASE e = d \/ f = d
    BY <1>1, <1>5, <1>9, <2>1, <2>3 DEF Exists
  <2>. QED
    BY <2>2, <2>3
<1>12. Progress'
  <2>1. ASSUME NEW o \in Session, request'[o].pc = "commit delete" PROVE Exists(request[o].id)'
    <3>1. o # s /\ request'[o] = request[o] /\ request[o].pc = "commit delete"
      BY <1>4, <2>1
    <3>2. Exists(request[o].id)
      BY <3>1 DEF IInv, Progress
    <3>3. request[o] \in DeleteRecord
      BY <1>2, <3>1, StepRecords
    <3>4. request[o].id \in DefId
      BY <3>3 DEF DeleteRecord
    <3>. QED
      BY <1>1, <1>5, <3>1, <3>2, <3>4 DEF Exists
  <2>. QED
    BY <1>4, <2>1 DEF IInv, Progress
<1>13. AnswersAreTrue'
  <2>1. \A x : request'[s] # Answered(x)
    BY <1>4, AnswerKinds
  <2>. QED
    BY <1>4, <2>1 DEF IInv, AnswersAreTrue
<1>. QED
  BY <1>6, <1>7, <1>10, <1>11, <1>12, <1>13 DEF IInv

(* A delete commits: the definition was there, and is no more.             *)
LEMMA CommitDeleteSound ==
  ASSUME IInv, NEW s \in Session, CommitDelete(s)
  PROVE  IInv'
<1>. DEFINE d == request[s].id
<1>1. /\ request \in [Session -> Request] /\ request[s].pc = "commit delete"
      /\ request[s] \in DeleteRecord /\ d \in DefId
      /\ applied \in [Session -> {"nothing", "saved", "deleted"}]
  <2>1. /\ request \in [Session -> Request] /\ request[s].pc = "commit delete"
        /\ applied \in [Session -> {"nothing", "saved", "deleted"}]
    BY DEF IInv, TypeOK, CommitDelete
  <2>2. request[s] \in DeleteRecord
    BY <2>1, StepRecords
  <2>. QED
    BY <2>1, <2>2 DEF DeleteRecord
<1>2. Exists(d)
  BY <1>1 DEF IInv, Progress
<1>3. /\ request' \in [Session -> Request]
      /\ request'[s] = Answered("deleted")
      /\ applied' \in [Session -> {"nothing", "saved", "deleted"}]
      /\ applied'[s] = "deleted"
      /\ \A o \in Session \ {s} : request'[o] = request[o] /\ applied'[o] = applied[o]
  BY <1>1, <1>2, AnswerKinds DEF CommitDelete, Becomes, Reply
<1>4. request'[s].pc = "answered" /\ request'[s].reply = "deleted"
  BY <1>3, AnswerKinds
<1>5. \A e \in DefId : defs'[e] = IF e = d THEN NoDef ELSE defs[e]
  BY <1>1 DEF CommitDelete, IInv, TypeOK
<1>6. TypeOK'
  <2>1. defs' \in [DefId -> Def \cup {NoDef}]
    BY DEF CommitDelete, IInv, TypeOK
  <2>2. \A e \in DefId : defs'[e].target = "" => ~Exists(e)'
    BY <1>5 DEF IInv, TypeOK, Exists
  <2>. QED
    BY <1>3, <2>1, <2>2 DEF TypeOK
<1>7. Writes(s)' = {} /\ \A o \in Session \ {s} : Writes(o)' = Writes(o) /\ d \notin Writes(o)
  BY <1>1, <1>3, <1>4 DEF Writes, IInv, RowLocks
<1>8. RowLocks'
  BY <1>7 DEF IInv, RowLocks
<1>9. IndexLocks'
  <2>1. ASSUME NEW p \in Session, request'[p].pc = "commit save"
        PROVE  ClaimedByOther(request[p].id, request[p].body.trigger)' => FALSE
    <3>1. p # s /\ request'[p] = request[p] /\ request[p].pc = "commit save"
      BY <1>3, <1>4, <2>1
    <3>2. ~ClaimedByOther(request[p].id, request[p].body.trigger)
      BY <3>1 DEF IInv, IndexLocks
    <3>. QED
      BY <1>5, <3>1, <3>2 DEF ClaimedByOther, Exists
  <2>2. ASSUME NEW p \in Session, NEW o \in Session \ {p},
               request'[p].pc = "commit save", request'[o].pc = "commit save"
        PROVE  request'[o].body.trigger # request'[p].body.trigger
    BY <1>3, <1>4, <2>2 DEF IInv, IndexLocks
  <2>. QED
    BY <2>1, <2>2 DEF IndexLocks
<1>10. OneJobPerTrigger'
  BY <1>5 DEF IInv, OneJobPerTrigger, Exists
<1>11. Progress'
  <2>1. ASSUME NEW o \in Session, o # s, request[o].pc = "commit delete" PROVE request[o].id # d
    BY <1>7, <2>1 DEF Writes
  <2>2. ASSUME NEW o \in Session, request'[o].pc = "commit delete" PROVE Exists(request[o].id)'
    <3>1. o # s /\ request'[o] = request[o] /\ request[o].pc = "commit delete"
      BY <1>3, <1>4, <2>2
    <3>2. Exists(request[o].id) /\ request[o].id # d
      BY <2>1, <3>1 DEF IInv, Progress
    <3>3. request[o] \in DeleteRecord
      BY <1>1, <3>1, StepRecords
    <3>4. request[o].id \in DefId
      BY <3>3 DEF DeleteRecord
    <3>. QED
      BY <1>5, <3>1, <3>2, <3>4 DEF Exists
  <2>. QED
    BY <1>3, <1>4, <2>2 DEF IInv, Progress
<1>12. AnswersAreTrue'
  <2>1. \A x : request'[s] = Answered(x) => x = "deleted"
    BY <1>4, AnswerKinds
  <2>. QED
    BY <1>3, <2>1 DEF IInv, AnswersAreTrue
<1>. QED
  BY <1>6, <1>8, <1>9, <1>10, <1>11, <1>12 DEF IInv
-----------------------------------------------------------------------------
(* Every step keeps the invariant.                                         *)
THEOREM NextSound == IInv /\ [Next]_vars => IInv'
<1>. SUFFICES ASSUME IInv, [Next]_vars PROVE IInv'
  OBVIOUS
<1>1. ASSUME NEW s \in Session, CommitSave(s) PROVE IInv'
  BY <1>1, CommitSaveSound
<1>2. ASSUME NEW s \in Session, CommitDelete(s) PROVE IInv'
  BY <1>2, CommitDeleteSound
<1>3. CASE UNCHANGED <<defs, request, applied>>
  BY <1>3 DEF IInv, TypeOK, RowLocks, Writes, IndexLocks, ClaimedByOther, Exists,
              OneJobPerTrigger, Progress, AnswersAreTrue
<1>. QED
  BY <1>1, <1>2, <1>3, NoCommitSound DEF Next, Step, vars

(* The invariant holds of every reachable state.                           *)
THEOREM AlwaysSound == Spec => []IInv
BY InitSound, NextSound, PTL DEF Spec

(* The table holds allowed, well-shaped definitions only, and requests are *)
(* where put_job and delete_job can be.                                    *)
THEOREM TypeCorrect == Spec => []TypeOK
<1>1. IInv => TypeOK
  BY DEF IInv
<1>. QED
  BY <1>1, AlwaysSound, PTL

(* No trigger is ever claimed by two definitions, for any number of        *)
(* requests in flight: a transaction that has entered the unique index     *)
(* (save_job_def) keeps its trigger to itself until it commits.            *)
THEOREM OneJobPerTriggerAlways == Spec => []OneJobPerTrigger
<1>1. IInv => OneJobPerTrigger
  BY DEF IInv
<1>. QED
  BY <1>1, AlwaysSound, PTL

(* Every answer of put_job and delete_job says what was committed.         *)
THEOREM AnswersAreAlwaysTrue == Spec => []AnswersAreTrue
<1>1. IInv => AnswersAreTrue
  BY DEF IInv
<1>. QED
  BY <1>1, AlwaysSound, PTL
=============================================================================
