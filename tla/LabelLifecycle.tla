--------------------------- MODULE LabelLifecycle ---------------------------
(***************************************************************************)
(* label-svc: the rows of the labels table, the label:process task of each *)
(* row, the asynq handler that runs the AI pipeline and the operator calls *)
(* that race with it.                                                      *)
(*                                                                         *)
(* Every step is one statement on the database or on Redis, because other  *)
(* steps and crashes happen between any two of them.  No update of the     *)
(* labels table but Confirm and Delete looks at the status it overwrites.  *)
(*                                                                         *)
(* A call about a row that does not exist changes nothing, so an action    *)
(* that would only do that is left out.                                    *)
(***************************************************************************)
EXTENDS AsynqTask

CONSTANTS
  Labels,     \* label ids
  Fields,     \* names of the label's translated fields
  MaxOutages  \* bound on crashes and restarts of label-svc

ASSUME LabelAssumption == MaxOutages \in Nat

VARIABLES
  status,      \* labels.status, "absent" before INSERT, "deleted" after DELETE
  uploading,   \* an Upload call has inserted the row and not enqueued yet
  fields,      \* labels.fields_translated
  confirmedAt, \* labels.confirmed_at IS NOT NULL
  audit,       \* actions of the label's rows in label_audit_log
  auditing,    \* a detached goroutine still has to append "field_edited"
  task,        \* the label's label:process task
  worker,      \* where the handler of that task is
  late,        \* a statement of a handler given up, not carried out yet
  outages,     \* crashes and restarts so far
  promised,    \* history: edits that a ready row held
  overlap      \* history: a delivery began while a statement was late

vars == <<status, uploading, fields, confirmedAt, audit, auditing, task,
          worker, late, outages, promised, overlap>>

rowVars == <<status, uploading, fields, confirmedAt, audit, auditing, promised>>

queueVars == <<task, worker, late, outages, overlap>>

-----------------------------------------------------------------------------
(* The data.                                                               *)

Statuses == {"absent", "draft", "processing", "ready", "confirmed", "error",
             "deleted"}

(* A jsonb column: an object, of which edited holds the keys whose value   *)
(* is the operator's; or SQL NULL, the JSON null that json.Marshal gives a *)
(* nil map, or an array, which hold no field.                              *)
Jsonb == [shape : {"object"}, edited : SUBSET Fields]
           \union [shape : {"sqlnull", "null", "array"}, edited : {{}}]

SqlNull == [shape |-> "sqlnull", edited |-> {}]

AIOutput == {[shape |-> s, edited |-> {}] : s \in {"object", "null"}}

(* v || e of PostgreSQL for an object e with the keys e: NULL stays NULL,  *)
(* objects merge, and any other operand makes both sides array elements.   *)
Concat(v, e) ==
  CASE v.shape = "sqlnull" -> v
    [] v.shape = "object"  -> [v EXCEPT !.edited = @ \union e]
    [] OTHER               -> [shape |-> "array", edited |-> {}]

AuditActions == {"field_edited", "confirmed"}

(* The handler's program counter; "nack" and "ack" are the moments between *)
(* its return and asynq's own write to Redis.                              *)
WorkerStates == {"idle", "mark", "vision", "translate", "validate", "store",
                 "ack", "nack"}

(* What a handler may be executing at a position: the statement that sets  *)
(* a status, or none.                                                      *)
InFlight(pc) ==
  CASE pc = "mark"                    -> {"none", "processing"}
    [] pc \in {"vision", "translate"} -> {"none", "error"}
    [] pc = "store"                   -> {"none", "ready"}
    [] OTHER                          -> {}

LateStatements == {"none", "processing", "error", "ready"}

TypeOK ==
  /\ status \in [Labels -> Statuses]
  /\ uploading \in [Labels -> BOOLEAN]
  /\ fields \in [Labels -> Jsonb]
  /\ confirmedAt \in [Labels -> BOOLEAN]
  /\ audit \in [Labels -> SUBSET AuditActions]
  /\ auditing \in [Labels -> BOOLEAN]
  /\ task \in [Labels -> Task]
  /\ worker \in [Labels -> WorkerStates]
  /\ late \in [Labels -> LateStatements]
  /\ outages \in 0..MaxOutages
  /\ promised \in [Labels -> SUBSET Fields]
  /\ overlap \in [Labels -> BOOLEAN]

Exists(l) == status[l] \notin {"absent", "deleted"}

Init ==
  /\ status = [l \in Labels |-> "absent"]
  /\ uploading = [l \in Labels |-> FALSE]
  /\ fields = [l \in Labels |-> SqlNull]
  /\ confirmedAt = [l \in Labels |-> FALSE]
  /\ audit = [l \in Labels |-> {}]
  /\ auditing = [l \in Labels |-> FALSE]
  /\ task = [l \in Labels |-> NoTask]
  /\ worker = [l \in Labels |-> "idle"]
  /\ late = [l \in Labels |-> "none"]
  /\ outages = 0
  /\ promised = [l \in Labels |-> {}]
  /\ overlap = [l \in Labels |-> FALSE]

-----------------------------------------------------------------------------
(* Upload: INSERT the draft, then enqueue its task.  The draft is listed   *)
(* in between, and may be edited or deleted before it has a task.          *)

Upload(l) ==
  /\ status[l] = "absent"
  /\ status' = [status EXCEPT ![l] = "draft"]
  /\ uploading' = [uploading EXCEPT ![l] = TRUE]
  /\ UNCHANGED <<fields, confirmedAt, audit, auditing, promised, queueVars>>

(* A failed enqueue is only logged.                                        *)
Enqueue(l) ==
  /\ uploading[l]
  /\ uploading' = [uploading EXCEPT ![l] = FALSE]
  /\ \E t \in {Enqueued, NoTask} : task' = [task EXCEPT ![l] = t]
  /\ UNCHANGED <<status, fields, confirmedAt, audit, auditing, promised,
                 worker, late, outages, overlap>>

-----------------------------------------------------------------------------
(* The queue.                                                              *)

Dequeue(l) ==
  /\ task[l].state = "pending"
  /\ task' = [task EXCEPT ![l] = Leased(task[l])]
  /\ worker' = [worker EXCEPT ![l] = "mark"]
  /\ overlap' = [overlap EXCEPT ![l] = @ \/ late[l] # "none"]
  /\ UNCHANGED <<rowVars, late, outages>>

(* print-svc and notification-svc serve the queue "default" of the same    *)
(* Redis and have no handler for label:process: the attempt fails there.   *)
WrongServer(l) ==
  /\ task[l].state = "pending"
  /\ task' = [task EXCEPT ![l] = Failed(task[l])]
  /\ UNCHANGED <<rowVars, worker, late, outages, overlap>>

Ack(l) ==
  /\ worker[l] = "ack"
  /\ worker' = [worker EXCEPT ![l] = "idle"]
  /\ task' = [task EXCEPT ![l] = Acked(task[l])]
  /\ UNCHANGED <<rowVars, late, outages, overlap>>

Nack(l) ==
  /\ worker[l] = "nack"
  /\ worker' = [worker EXCEPT ![l] = "idle"]
  /\ task' = [task EXCEPT ![l] = Failed(task[l])]
  /\ UNCHANGED <<rowVars, late, outages, overlap>>

(* What may be outstanding after the handler is given up: its context is   *)
(* cancelled or its process dead, so that it starts no other statement,    *)
(* but the one it was executing may still be carried out.  Of two such     *)
(* statements about one label, only one is followed.                       *)
LeftBehind(l) == {late[l]} \union InFlight(worker[l])

(* The worker of a task died, or lost its lease or ran out of its deadline *)
(* with the handler still at work.                                         *)
LeaseExpires(l) ==
  /\ task[l].state = "active"
  /\ task' = [task EXCEPT ![l] = Failed(task[l])]
  /\ worker' = [worker EXCEPT ![l] = "idle"]
  /\ \E s \in LeftBehind(l) : late' = [late EXCEPT ![l] = s]
  /\ UNCHANGED <<rowVars, outages, overlap>>

(* Every handler goes, and every detached goroutine with it.               *)
Outage ==
  /\ outages < MaxOutages
  /\ outages' = outages + 1
  /\ worker' = [l \in Labels |-> "idle"]
  /\ late' \in [Labels -> LateStatements]
  /\ \A l \in Labels : late'[l] \in LeftBehind(l)
  /\ auditing' = [l \in Labels |-> FALSE]
  /\ UNCHANGED <<status, fields, confirmedAt, audit, promised, overlap>>

(* The process dies, in an Upload too.                                     *)
Crash ==
  /\ Outage
  /\ uploading' = [l \in Labels |-> FALSE]
  /\ UNCHANGED task

(* SIGTERM: gRPC lets its calls finish; asynq gives the handlers a few     *)
(* seconds, then requeues what still runs; nothing waits for goroutines.   *)
Restart ==
  /\ Outage
  /\ task' = [l \in Labels |-> IF worker[l] = "idle" THEN task[l]
                               ELSE Requeued(task[l])]
  /\ UNCHANGED uploading

-----------------------------------------------------------------------------
(* ProcessLabel, the handler.  A statement that returns an error may have  *)
(* taken effect or not; the guard of each step is the handler's position.  *)

(* labels.SetStatus: an unconditional UPDATE, a no-op without the row.     *)
SetStatus(l, s) ==
  status' = [status EXCEPT ![l] = IF Exists(l) THEN s ELSE @]

Goto(l, pc) == worker' = [worker EXCEPT ![l] = pc]

(* A mutant: the handler goes to the agents without marking the row.       *)
MarkSkipped(l) ==
  /\ worker[l] = "mark"
  /\ Goto(l, "vision")
  /\ UNCHANGED <<rowVars, task, late, outages, overlap>>

MarkProcessing(l) ==
  /\ worker[l] = "mark"
  /\ \/ SetStatus(l, "processing") /\ Goto(l, "vision")
     \/ SetStatus(l, "processing") /\ Goto(l, "nack")
     \/ UNCHANGED status /\ Goto(l, "nack")
  /\ UNCHANGED <<uploading, fields, confirmedAt, audit, auditing, promised,
                 task, late, outages, overlap>>

AgentAnswers(l) ==
  /\ \/ worker[l] = "vision" /\ Goto(l, "translate")
     \/ worker[l] = "translate" /\ Goto(l, "validate")
  /\ UNCHANGED <<rowVars, task, late, outages, overlap>>

(* A mutant: the error of the agent is swallowed and the task acknowledged. *)
AgentFailsSilently(l) ==
  /\ worker[l] \in {"vision", "translate"}
  /\ SetStatus(l, "error") \/ UNCHANGED status
  /\ Goto(l, "ack")
  /\ UNCHANGED <<uploading, fields, confirmedAt, audit, auditing, promised,
                 task, late, outages, overlap>>

(* The vision or the translation agent returns an error or times out: the  *)
(* row gets "error", and that write's own error is ignored (it does fail   *)
(* when the task's deadline is what stopped the agent).                    *)
AgentFails(l) ==
  /\ worker[l] \in {"vision", "translate"}
  /\ SetStatus(l, "error") \/ UNCHANGED status
  /\ Goto(l, "nack")
  /\ UNCHANGED <<uploading, fields, confirmedAt, audit, auditing, promised,
                 task, late, outages, overlap>>

(* A failed validation only costs the score: either way the handler goes on. *)
Validate(l) ==
  /\ worker[l] = "validate"
  /\ Goto(l, "store")
  /\ UNCHANGED <<rowVars, task, late, outages, overlap>>

(* labels.SetAIResult: status, fields and score in one unconditional       *)
(* UPDATE; confirmed_at stays as it was.                                   *)
SetAIResult(l) ==
  /\ SetStatus(l, "ready")
  /\ \E v \in AIOutput :
       fields' = [fields EXCEPT ![l] = IF Exists(l) THEN v ELSE @]

StoreResult(l) ==
  /\ worker[l] = "store"
  /\ \/ SetAIResult(l) /\ Goto(l, "ack")
     \/ SetAIResult(l) /\ Goto(l, "nack")
     \/ UNCHANGED <<status, fields>> /\ Goto(l, "nack")
  /\ UNCHANGED <<uploading, confirmedAt, audit, auditing, promised, task, late,
                 outages, overlap>>

(* The statement of a handler given up long ago is carried out.            *)
LateWrite(l) ==
  /\ \/ late[l] = "ready" /\ SetAIResult(l)
     \/ /\ late[l] \in {"processing", "error"}
        /\ SetStatus(l, late[l]) /\ UNCHANGED fields
  /\ late' = [late EXCEPT ![l] = "none"]
  /\ UNCHANGED <<uploading, confirmedAt, audit, auditing, promised, task,
                 worker, outages, overlap>>

-----------------------------------------------------------------------------
(* Operator calls.                                                         *)

(* UpdateFields: no look at the status; the audit entry is left to a       *)
(* goroutine nobody waits for.                                             *)
UpdateFields(l, e) ==
  /\ Exists(l)
  /\ fields' = [fields EXCEPT ![l] = Concat(@, e)]
  /\ auditing' = [auditing EXCEPT ![l] = TRUE]
  /\ promised' = [promised EXCEPT
                    ![l] = IF status[l] = "ready"
                           THEN @ \union (e \intersect fields'[l].edited)
                           ELSE @]
  /\ UNCHANGED <<status, uploading, confirmedAt, audit, queueVars>>

(* The detached AppendAuditLog; its error is ignored.                      *)
AppendAuditLog(l) ==
  /\ auditing[l]
  /\ auditing' = [auditing EXCEPT ![l] = FALSE]
  /\ \/ Exists(l) /\ audit' = [audit EXCEPT ![l] = @ \union {"field_edited"}]
     \/ UNCHANGED audit
  /\ UNCHANGED <<status, uploading, fields, confirmedAt, promised, queueVars>>

(* Mutants of Confirm: without its status guard, and without its           *)
(* transaction (the audit entry may be lost).                              *)
ConfirmUnguarded(l) ==
  /\ Exists(l)
  /\ status' = [status EXCEPT ![l] = "confirmed"]
  /\ confirmedAt' = [confirmedAt EXCEPT ![l] = TRUE]
  /\ audit' = [audit EXCEPT ![l] = @ \union {"confirmed"}]
  /\ UNCHANGED <<uploading, fields, auditing, promised, queueVars>>

ConfirmNotAtomic(l) ==
  /\ Exists(l)
  /\ status' = [status EXCEPT ![l] = IF @ = "ready" THEN "confirmed" ELSE @]
  /\ confirmedAt' = [confirmedAt EXCEPT ![l] = @ \/ status[l] = "ready"]
  /\ \/ audit' = [audit EXCEPT ![l] = @ \union {"confirmed"}]
     \/ UNCHANGED audit
  /\ UNCHANGED <<uploading, fields, auditing, promised, queueVars>>

(* Confirm: one transaction that updates the row if it is ready and        *)
(* inserts the audit entry in any case.  Without a row the foreign key of  *)
(* the entry rolls it back.                                                *)
Confirm(l) ==
  /\ Exists(l)
  /\ status' = [status EXCEPT ![l] = IF @ = "ready" THEN "confirmed" ELSE @]
  /\ confirmedAt' = [confirmedAt EXCEPT ![l] = @ \/ status[l] = "ready"]
  /\ audit' = [audit EXCEPT ![l] = @ \union {"confirmed"}]
  /\ UNCHANGED <<uploading, fields, auditing, promised, queueVars>>

(* A mutant: Delete without its status guard.                              *)
DeleteUnguarded(l) ==
  /\ Exists(l)
  /\ status' = [status EXCEPT ![l] = "deleted"]
  /\ fields' = [fields EXCEPT ![l] = SqlNull]
  /\ confirmedAt' = [confirmedAt EXCEPT ![l] = FALSE]
  /\ audit' = [audit EXCEPT ![l] = {}]
  /\ promised' = [promised EXCEPT ![l] = {}]
  /\ UNCHANGED <<uploading, auditing, queueVars>>

(* Delete: a hard DELETE whose foreign key takes the audit log along.      *)
Delete(l) ==
  /\ Exists(l)
  /\ status[l] # "confirmed"
  /\ status' = [status EXCEPT ![l] = "deleted"]
  /\ fields' = [fields EXCEPT ![l] = SqlNull]
  /\ confirmedAt' = [confirmedAt EXCEPT ![l] = FALSE]
  /\ audit' = [audit EXCEPT ![l] = {}]
  /\ promised' = [promised EXCEPT ![l] = {}]
  /\ UNCHANGED <<uploading, auditing, queueVars>>

-----------------------------------------------------------------------------
Queue(l) == Dequeue(l) \/ Ack(l) \/ Nack(l) \/ LeaseExpires(l)

Handler(l) ==
  MarkProcessing(l) \/ AgentAnswers(l) \/ AgentFails(l) \/ Validate(l)
    \/ StoreResult(l)

Operator(l) ==
  \/ Upload(l)
  \/ Enqueue(l)
  \/ \E e \in SUBSET Fields : UpdateFields(l, e)
  \/ Confirm(l)
  \/ Delete(l)

Next ==
  \/ \E l \in Labels : Queue(l) \/ Handler(l) \/ Operator(l)
                         \/ WrongServer(l) \/ AppendAuditLog(l) \/ LateWrite(l)
  \/ Crash
  \/ Restart

Spec == Init /\ [][Next]_vars

(* asynq keeps delivering and recovering, and a handler that runs goes on  *)
(* (every agent call ends, at the latest with the task's deadline).  No    *)
(* operator has to do anything, and the agents may fail every time.        *)
Fairness == \A l \in Labels : WF_vars(Queue(l)) /\ WF_vars(Handler(l))

FairSpec == Spec /\ Fairness

-----------------------------------------------------------------------------
(* Safety.                                                                 *)

(* Between marking a row and storing its result the handler sees the row   *)
(* in "processing" or not at all: no edit, confirmation or delivery moves  *)
(* the status under the pipeline, although no write of the worker checks   *)
(* it.  This is what keeps SetAIResult from landing on a confirmed row.    *)
(* It holds until a delivery begins with an earlier one's statement late.  *)
PipelineOwnsRow ==
  \A l \in Labels :
    worker[l] \in {"vision", "translate", "validate", "store"}
      => status[l] \in {"processing", "deleted"} \/ overlap[l]

(* When asynq has removed the task the label is through: no interleaving   *)
(* of failures, redeliveries and operator calls leaves a row in draft,     *)
(* processing or error behind a task that counts as done.                  *)
CompletedMeansProcessed ==
  \A l \in Labels :
    task[l].state = "completed"
      => status[l] \in {"ready", "confirmed", "deleted"} \/ overlap[l]

(* confirmed_at and the audit entry stand or fall together: whoever reads  *)
(* a confirmation date finds who confirmed, after any crash.               *)
ConfirmationIsAudited ==
  \A l \in Labels : confirmedAt[l] => "confirmed" \in audit[l]

(* Nothing is confirmed that the pipeline has not finished at least once:  *)
(* a row with a confirmation date has an AI result.                        *)
ConfirmedHasResult ==
  \A l \in Labels :
    confirmedAt[l] \/ status[l] \in {"ready", "confirmed"}
      => fields[l].shape # "sqlnull"

(* The handler that asynq waits for has the lease of its task.  It is not  *)
(* the only one that may still write: see late.                            *)
HandlerHoldsTask ==
  \A l \in Labels : worker[l] # "idle" => task[l].state = "active"

(* The handler returns nil only when its result is in the row.             *)
AckMeansProcessed ==
  \A l \in Labels :
    worker[l] = "ack"
      => status[l] \in {"ready", "confirmed", "deleted"} \/ overlap[l]

(* A statement that is late, but not behind the next delivery, finds the   *)
(* row as its handler left it and a task that is not done.                 *)
LateFindsItsRow ==
  \A l \in Labels :
    late[l] # "none" /\ ~ overlap[l] =>
      /\ worker[l] = "idle"
      /\ task[l].state \in {"active", "pending", "archived"}
      /\ late[l] \in {"error", "ready"} => status[l] \in {"processing", "deleted"}

(* No task exists before its row does, and none before Upload enqueues it; *)
(* without one the row stays a draft.                                      *)
NoTaskBefore ==
  \A l \in Labels :
    /\ status[l] = "absent" => ~ uploading[l]
    /\ task[l].state = "none" =>
         status[l] \in {"absent", "draft", "deleted"} /\ late[l] = "none"
    /\ status[l] = "absent" \/ uploading[l] =>
         task[l].state = "none" /\ task[l].retried = 0

(* asynq archives a task when no retry is left, and not before.            *)
ArchivedIsSpent ==
  \A l \in Labels : task[l].state = "archived" => task[l].retried = MaxRetry

(* The inductive invariant: the handler's hold on its task ties the queue  *)
(* to the handler, and the handler's position ties both to the row.        *)
IInv ==
  /\ TypeOK
  /\ PipelineOwnsRow
  /\ CompletedMeansProcessed
  /\ ConfirmationIsAudited
  /\ ConfirmedHasResult
  /\ HandlerHoldsTask
  /\ AckMeansProcessed
  /\ LateFindsItsRow
  /\ NoTaskBefore
  /\ ArchivedIsSpent

(* An edit the row holds is overwritten only while the row shows           *)
(* "processing" or is deleted, never silently on a ready or confirmed one, *)
(* until a delivery begins with an earlier one's statement late.           *)
EditsLostOnlyInProcessing ==
  [][\A l \in Labels :
       ~ (fields[l].edited \subseteq fields'[l].edited)
         => status[l] = "processing" \/ status'[l] = "deleted" \/ overlap[l]]_vars

(* Once the queue has dropped the task (done or archived) and no statement *)
(* is late, a confirmed label is final, however its deliveries overlapped: *)
(* only another delivery, or what one left behind, takes it back.          *)
ConfirmedIsFinalAfterAck ==
  [][\A l \in Labels :
       task[l].state \in {"completed", "archived"} /\ late[l] = "none" =>
         (status[l] = "confirmed" => status'[l] = "confirmed")]_vars

(* The status column implements the abstract promise, which knows nothing  *)
(* of the queue and the handlers, and ends when two deliveries overlap.    *)
Promise == INSTANCE LabelPromise WITH
  status <- [l \in Labels |-> IF overlap[l] THEN "forfeited" ELSE status[l]]
ImplementsPromise == Promise!Spec

(* Row and task together are work that is attempted at least once: a       *)
(* result appears, and is taken back, only while the task is alive, the    *)
(* task is done only with a result or without a row, and asynq gives up    *)
(* only when the retries are spent.  An archived task is given up when the *)
(* last statement of its last attempt is not late any more.                *)
WorkPhase(t, s) == IF t.state = "archived" /\ s # "none" THEN "owed" ELSE Phase(t)

Outcome(s, over) ==
  CASE over -> "forfeited"
    [] ~ over /\ s = "deleted" -> "withdrawn"
    [] ~ over /\ s \in {"ready", "confirmed"} -> "there"
    [] OTHER -> "missing"

Attempted == INSTANCE AttemptedWork WITH
  Works <- Labels, Budget <- MaxRetry,
  phase <- [l \in Labels |-> WorkPhase(task[l], late[l])],
  retries <- [l \in Labels |-> task[l].retried],
  outcome <- [l \in Labels |-> Outcome(status[l], overlap[l])]
ImplementsAttempts == Attempted!Spec

-----------------------------------------------------------------------------
(* Liveness, under FairSpec.                                               *)

(* A row that shows "processing" moves on, unless asynq gave its task up   *)
(* or a late statement of an overlapped delivery may have set it.          *)
NoEndlessProcessing ==
  \A l \in Labels :
    status[l] = "processing"
      ~> (status[l] # "processing" \/ task[l].state = "archived" \/ overlap[l])

(* Every enqueued label is settled in the end: through the pipeline, gone, *)
(* or left to asynq's archive; it does not move between states for ever,   *)
(* unless its deliveries overlapped.                                       *)
EnqueuedSettles ==
  \A l \in Labels :
    task[l].state = "pending"
      ~> [](\/ task[l].state = "archived" \/ overlap[l]
            \/ status[l] \in {"ready", "confirmed", "deleted"})

-----------------------------------------------------------------------------
(* What the documents and comments say, and the code does not do.          *)

(* "eticheta marcata ca finalizata (status: confirmed)": a confirmed label *)
(* stays confirmed, if not even two deliveries of it overlap.              *)
ConfirmedIsFinal ==
  [][\A l \in Labels :
       status[l] = "confirmed" /\ ~ overlap[l] => status'[l] = "confirmed"]_vars

(* "Confirm marks a label as confirmed and records the timestamp": an      *)
(* audit entry "confirmed" stands on a label with a confirmation date.     *)
AuditTellsTheTruth ==
  \A l \in Labels : "confirmed" \in audit[l] => confirmedAt[l]

(* "UpdateFields applies operator edits to translated fields": what the    *)
(* operator changed on a ready label, and the row then held, is in the     *)
(* label that is confirmed.                                                *)
ConfirmedKeepsEdits ==
  \A l \in Labels :
    status[l] = "confirmed" /\ ~ overlap[l]
      => promised[l] \subseteq fields[l].edited

=============================================================================
