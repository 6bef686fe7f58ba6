------------------------ MODULE LabelLifecycleProofs ------------------------
(***************************************************************************)
(* Proofs about LabelLifecycle, for any set of labels and of fields, any   *)
(* retry budget and any number of outages.                                 *)
(***************************************************************************)
EXTENDS LabelLifecycle, Integers, TLAPS

-----------------------------------------------------------------------------
(* The queue's operators keep a task a task.                               *)
LEMMA TaskTypes ==
  /\ NoTask \in Task
  /\ Enqueued \in Task
  /\ \A t \in Task : /\ Leased(t) \in Task
                     /\ Acked(t) \in Task
                     /\ Requeued(t) \in Task
                     /\ Failed(t) \in Task
  BY MaxRetryAssumption
  DEF NoTask, Enqueued, Task, TaskStates, Leased, Acked, Requeued, Failed

(* A failed task waits again or, without a retry left, is archived; it is  *)
(* never done or running.                                                  *)
LEMMA FailedState ==
  ASSUME NEW t \in Task
  PROVE  /\ Failed(t).state \in {"pending", "archived"}
         /\ Failed(t).state = "archived" => Failed(t).retried = MaxRetry
  BY MaxRetryAssumption DEF Failed, Task, TaskStates

(* Merging an edit into a jsonb column gives a jsonb column, and never the *)
(* SQL NULL unless it was one.                                             *)
LEMMA ConcatType ==
  ASSUME NEW v \in Jsonb, NEW e \in SUBSET Fields
  PROVE  /\ Concat(v, e) \in Jsonb
         /\ v.shape # "sqlnull" => Concat(v, e).shape # "sqlnull"
  BY DEF Concat, Jsonb

(* What a handler that is given up may leave behind.                       *)
LEMMA LeftBehindType ==
  ASSUME TypeOK, NEW l \in Labels
  PROVE  LeftBehind(l) \subseteq LateStatements
  BY DEF LeftBehind, InFlight, LateStatements, TypeOK, WorkerStates

-----------------------------------------------------------------------------
(* Every reachable state has the types of TypeOK.                          *)
LEMMA InitType == Init => TypeOK
  BY TaskTypes, LabelAssumption, MaxRetryAssumption
  DEF Init, TypeOK, Statuses, Jsonb, SqlNull, AuditActions, WorkerStates,
      LateStatements

LEMMA NextType == TypeOK /\ [Next]_vars => TypeOK'
<1> SUFFICES ASSUME TypeOK, [Next]_vars PROVE TypeOK'
  OBVIOUS
<1> USE DEF TypeOK, rowVars, queueVars
<1>1. CASE UNCHANGED vars
  BY <1>1 DEF vars
<1>2. ASSUME NEW l \in Labels, Queue(l) PROVE TypeOK'
  <2>1. CASE Dequeue(l)
    BY <2>1, TaskTypes DEF Dequeue, WorkerStates
  <2>2. CASE Ack(l) \/ Nack(l)
    BY <2>2, TaskTypes DEF Ack, Nack, WorkerStates
  <2>3. CASE LeaseExpires(l)
    BY <2>3, TaskTypes, LeftBehindType DEF LeaseExpires, WorkerStates
  <2> QED BY <1>2, <2>1, <2>2, <2>3 DEF Queue
<1>3. ASSUME NEW l \in Labels, Handler(l) PROVE TypeOK'
  <2>1. CASE MarkProcessing(l)
    BY <2>1 DEF MarkProcessing, SetStatus, Goto, Statuses, WorkerStates
  <2>2. CASE AgentAnswers(l)
    BY <2>2 DEF AgentAnswers, Goto, WorkerStates
  <2>3. CASE AgentFails(l)
    BY <2>3 DEF AgentFails, SetStatus, Goto, Statuses, WorkerStates
  <2>4. CASE Validate(l)
    BY <2>4 DEF Validate, Goto, WorkerStates
  <2>5. CASE StoreResult(l)
    BY <2>5
    DEF StoreResult, SetAIResult, SetStatus, Goto, Statuses, WorkerStates,
        AIOutput, Jsonb
  <2> QED BY <1>3, <2>1, <2>2, <2>3, <2>4, <2>5 DEF Handler
<1>4. ASSUME NEW l \in Labels, Operator(l) PROVE TypeOK'
  <2>1. CASE Upload(l)
    BY <2>1 DEF Upload, Statuses
  <2>5. CASE Enqueue(l)
    <3>1. PICK t \in Task : task' = [task EXCEPT ![l] = t]
      BY <2>5, TaskTypes DEF Enqueue
    <3> QED BY <2>5, <3>1 DEF Enqueue
  <2>2. ASSUME NEW e \in SUBSET Fields, UpdateFields(l, e) PROVE TypeOK'
    BY <2>2, ConcatType DEF UpdateFields
  <2>3. CASE Confirm(l)
    BY <2>3 DEF Confirm, Statuses, AuditActions
  <2>4. CASE Delete(l)
    BY <2>4 DEF Delete, Statuses, SqlNull, Jsonb
  <2> QED BY <1>4, <2>1, <2>2, <2>3, <2>4, <2>5 DEF Operator
<1>5. ASSUME NEW l \in Labels, WrongServer(l) PROVE TypeOK'
  BY <1>5, TaskTypes DEF WrongServer
<1>6. ASSUME NEW l \in Labels, AppendAuditLog(l) PROVE TypeOK'
  BY <1>6 DEF AppendAuditLog, AuditActions
<1>7. ASSUME NEW l \in Labels, LateWrite(l) PROVE TypeOK'
  BY <1>7
  DEF LateWrite, SetAIResult, SetStatus, Statuses, AIOutput, Jsonb,
      LateStatements
<1>8. CASE Crash
  BY <1>8, LabelAssumption DEF Crash, Outage, WorkerStates
<1>9. CASE Restart
  BY <1>9, LabelAssumption, TaskTypes DEF Restart, Outage, WorkerStates
<1> QED
  BY <1>1, <1>2, <1>3, <1>4, <1>5, <1>6, <1>7, <1>8, <1>9 DEF Next

(* The rows, tasks and handlers of label-svc always have their types.      *)
THEOREM TypeCorrect == Spec => []TypeOK
<1>1. Init => TypeOK BY InitType
<1>2. TypeOK /\ [Next]_vars => TypeOK' BY NextType
<1> QED BY <1>1, <1>2, PTL DEF Spec

-----------------------------------------------------------------------------
(* The inductive invariant, one fact for each group of actions.            *)
LEMMA InitInv == Init => IInv
  BY InitType
  DEF Init, IInv, NoTask, PipelineOwnsRow, CompletedMeansProcessed, ConfirmationIsAudited,
      ConfirmedHasResult, HandlerHoldsTask, AckMeansProcessed,
      LateFindsItsRow, NoTaskBefore,
      ArchivedIsSpent

(* The queue moves tasks and handlers together and leaves the rows alone;  *)
(* a delivery either finds nothing late or is an overlap.                  *)
LEMMA QueueInv ==
  ASSUME IInv, TypeOK', NEW l \in Labels, Queue(l) \/ WrongServer(l)
  PROVE  IInv'
<1> USE DEF IInv, TypeOK, rowVars, Task
<1>1. UNCHANGED rowVars
  BY DEF Queue, Dequeue, Ack, Nack, LeaseExpires, WrongServer
<1>2. ConfirmationIsAudited' /\ ConfirmedHasResult'
  BY <1>1 DEF ConfirmationIsAudited, ConfirmedHasResult
<1>3. CASE Dequeue(l)
  <2>1. /\ task[l].state = "pending" /\ task'[l].state = "active"
        /\ \A k \in Labels \ {l} :
             UNCHANGED <<task[k], worker[k], overlap[k]>>
        /\ worker'[l] = "mark" /\ UNCHANGED late
        /\ late[l] # "none" => overlap'[l]
    BY <1>3 DEF Dequeue, Leased
  <2>2. PipelineOwnsRow' /\ AckMeansProcessed' /\ CompletedMeansProcessed'
    BY <1>1, <2>1
    DEF PipelineOwnsRow, AckMeansProcessed, CompletedMeansProcessed
  <2>3. HandlerHoldsTask' /\ NoTaskBefore' /\ ArchivedIsSpent'
    <3>1. HandlerHoldsTask'
      BY <2>1 DEF HandlerHoldsTask
    <3>2. NoTaskBefore'
      <4>1. task' = [task EXCEPT ![l] = Leased(task[l])]
        BY <1>3 DEF Dequeue
      <4>2. \A k \in Labels : task'[k] = IF k = l THEN Leased(task[l]) ELSE task[k]
        BY <4>1
      <4>3. NoTaskBefore /\ UNCHANGED <<status, uploading, late>>
        BY <1>1, <2>1
      <4> HIDE DEF IInv, TypeOK, Task
      <4> QED BY <2>1, <4>2, <4>3 DEF NoTaskBefore
    <3>3. ArchivedIsSpent'
      BY <2>1 DEF ArchivedIsSpent
    <3> QED BY <3>1, <3>2, <3>3
  <2>4. LateFindsItsRow'
    BY <1>1, <2>1 DEF LateFindsItsRow
  <2> QED BY <1>2, <2>2, <2>3, <2>4
<1>4. CASE Ack(l)
  BY <1>1, <1>2, <1>4
  DEF Ack, Acked, PipelineOwnsRow, CompletedMeansProcessed,
      HandlerHoldsTask, AckMeansProcessed, LateFindsItsRow, NoTaskBefore,
      ArchivedIsSpent
<1>5. CASE Nack(l) \/ LeaseExpires(l) \/ WrongServer(l)
  <2>1. /\ task[l].state \in {"active", "pending"}
        /\ task'[l].state \in {"pending", "archived"}
        /\ task'[l].state = "archived" => task'[l].retried = MaxRetry
        /\ \A k \in Labels \ {l} : task'[k] = task[k] /\ late'[k] = late[k]
        /\ \A k \in Labels : worker'[k] \in {worker[k], "idle"}
        /\ worker'[l] = "idle" /\ UNCHANGED overlap
    BY <1>5, FailedState
    DEF Nack, LeaseExpires, WrongServer, HandlerHoldsTask
  <2>2. late'[l] \in {"none", late[l]} \/ late'[l] \in InFlight(worker[l])
    BY <1>5 DEF Nack, LeaseExpires, WrongServer, LeftBehind
  <2>3. PipelineOwnsRow' /\ AckMeansProcessed'
    BY <1>1, <2>1 DEF PipelineOwnsRow, AckMeansProcessed
  <2>4. /\ CompletedMeansProcessed' /\ HandlerHoldsTask'
        /\ NoTaskBefore' /\ ArchivedIsSpent'
    <3>1. CompletedMeansProcessed' /\ HandlerHoldsTask'
      BY <1>1, <2>1 DEF CompletedMeansProcessed, HandlerHoldsTask
    <3>2. NoTaskBefore'
      BY <1>1, <2>1 DEF NoTaskBefore
    <3>3. ArchivedIsSpent'
      BY <2>1 DEF ArchivedIsSpent
    <3> QED BY <3>1, <3>2, <3>3
  <2>5. ASSUME late'[l] \in {"error", "ready"}, ~ overlap[l]
        PROVE  status[l] \in {"processing", "deleted"}
    BY <2>2, <2>5 DEF InFlight, WorkerStates, PipelineOwnsRow, LateFindsItsRow
  <2>6. LateFindsItsRow'
    BY <1>1, <2>1, <2>5 DEF LateFindsItsRow
  <2> QED BY <1>2, <2>3, <2>4, <2>6
<1> QED BY <1>3, <1>4, <1>5 DEF Queue

(* The handler holds its task and, without an overlap, nothing of another  *)
(* delivery is late: what it writes depends only on how far it has come.   *)
LEMMA HandlerInv ==
  ASSUME IInv, TypeOK', NEW l \in Labels, Handler(l)
  PROVE  IInv'
<1> USE DEF IInv, TypeOK, Goto, Exists, SetStatus, Statuses
<1>1. /\ task[l].state = "active" /\ worker[l] # "idle"
      /\ status[l] # "absent" /\ UNCHANGED <<task, late, overlap, uploading>>
  BY DEF HandlerHoldsTask, NoTaskBefore, Handler, MarkProcessing,
         AgentAnswers, AgentFails, Validate, StoreResult, rowVars
<1>2. late[l] = "none" \/ overlap[l]
  BY <1>1 DEF LateFindsItsRow
<1>3. CASE MarkProcessing(l)
  BY <1>1, <1>2, <1>3
  DEF MarkProcessing, PipelineOwnsRow, CompletedMeansProcessed, ConfirmationIsAudited,
      ConfirmedHasResult, HandlerHoldsTask, AckMeansProcessed,
      LateFindsItsRow, NoTaskBefore,
      ArchivedIsSpent
<1>4. CASE AgentAnswers(l) \/ Validate(l)
  BY <1>1, <1>2, <1>4
  DEF AgentAnswers, Validate, rowVars, PipelineOwnsRow, CompletedMeansProcessed, ConfirmationIsAudited,
      ConfirmedHasResult, HandlerHoldsTask, AckMeansProcessed,
      LateFindsItsRow, NoTaskBefore,
      ArchivedIsSpent
<1>5. CASE AgentFails(l)
  BY <1>1, <1>2, <1>5
  DEF AgentFails, PipelineOwnsRow, CompletedMeansProcessed, ConfirmationIsAudited,
      ConfirmedHasResult, HandlerHoldsTask, AckMeansProcessed,
      LateFindsItsRow, NoTaskBefore,
      ArchivedIsSpent
<1>6. CASE StoreResult(l)
  BY <1>1, <1>2, <1>6
  DEF StoreResult, SetAIResult, AIOutput, PipelineOwnsRow, CompletedMeansProcessed, ConfirmationIsAudited,
      ConfirmedHasResult, HandlerHoldsTask, AckMeansProcessed,
      LateFindsItsRow, NoTaskBefore,
      ArchivedIsSpent
<1> QED BY <1>3, <1>4, <1>5, <1>6 DEF Handler

(* A late statement that no delivery has overtaken finds no handler, and   *)
(* the row in the state it was meant for.                                  *)
LEMMA LateInv ==
  ASSUME IInv, TypeOK', NEW l \in Labels, LateWrite(l)
  PROVE  IInv'
<1> USE DEF IInv, TypeOK, Exists, SetStatus, Statuses
<1>1. /\ late[l] # "none" /\ late' = [late EXCEPT ![l] = "none"]
      /\ UNCHANGED <<task, worker, overlap, uploading, confirmedAt, audit>>
      /\ \A k \in Labels \ {l} : status'[k] = status[k] /\ fields'[k] = fields[k]
  BY DEF LateWrite, SetAIResult
<1>2. \/ status'[l] = status[l] /\ fields'[l] = fields[l]
      \/ /\ status[l] \notin {"absent", "deleted"}
         /\ status'[l] = "ready" /\ fields'[l].shape # "sqlnull"
      \/ /\ status[l] \notin {"absent", "deleted"}
         /\ status'[l] \in {"processing", "error"} /\ fields'[l] = fields[l]
  BY DEF LateWrite, SetAIResult, AIOutput
<1>3. overlap[l] \/ (worker[l] = "idle" /\ task[l].state # "completed")
  BY <1>1 DEF LateFindsItsRow
<1>4. /\ ConfirmationIsAudited' /\ HandlerHoldsTask'
      /\ NoTaskBefore' /\ ArchivedIsSpent'
  BY <1>1, <1>2
  DEF ConfirmationIsAudited, HandlerHoldsTask, NoTaskBefore, ArchivedIsSpent
<1>5. ConfirmedHasResult'
  BY <1>1, <1>2 DEF ConfirmedHasResult
<1>6. PipelineOwnsRow' /\ AckMeansProcessed' /\ CompletedMeansProcessed'
  BY <1>1, <1>3
  DEF PipelineOwnsRow, AckMeansProcessed, CompletedMeansProcessed
<1>7. LateFindsItsRow'
  BY <1>1 DEF LateFindsItsRow
<1> QED BY <1>4, <1>5, <1>6, <1>7

(* An operator never moves a row that shows "processing" except by         *)
(* deleting it, and no call invents a result.                              *)
LEMMA OperatorInv ==
  ASSUME IInv, TypeOK', NEW l \in Labels, Operator(l) \/ AppendAuditLog(l)
  PROVE  IInv'
<1> USE DEF IInv, TypeOK, Exists, queueVars
<1>1. CASE Upload(l)
  BY <1>1
  DEF Upload, PipelineOwnsRow, CompletedMeansProcessed, ConfirmationIsAudited,
      ConfirmedHasResult, HandlerHoldsTask, AckMeansProcessed,
      LateFindsItsRow, NoTaskBefore,
      ArchivedIsSpent
<1>2. CASE Enqueue(l)
  <2>1. /\ task[l].state = "none"
        /\ task'[l].state \in {"none", "pending"}
        /\ \A k \in Labels \ {l} : task'[k] = task[k]
    BY <1>2 DEF Enqueue, Enqueued, NoTask, NoTaskBefore
  <2>2. status[l] # "absent"
    BY <1>2 DEF Enqueue, NoTaskBefore
  <2> QED
    BY <1>2, <2>1, <2>2
    DEF Enqueue, PipelineOwnsRow, CompletedMeansProcessed, ConfirmationIsAudited,
      ConfirmedHasResult, HandlerHoldsTask, AckMeansProcessed,
      LateFindsItsRow, NoTaskBefore,
      ArchivedIsSpent
<1>3. ASSUME NEW e \in SUBSET Fields, UpdateFields(l, e) PROVE IInv'
  <2>1. fields[l].shape # "sqlnull" => fields'[l].shape # "sqlnull"
    BY <1>3, ConcatType DEF UpdateFields
  <2> QED
    BY <1>3, <2>1
    DEF UpdateFields, PipelineOwnsRow, CompletedMeansProcessed, ConfirmationIsAudited,
      ConfirmedHasResult, HandlerHoldsTask, AckMeansProcessed,
      LateFindsItsRow, NoTaskBefore,
      ArchivedIsSpent
<1>4. CASE Confirm(l)
  BY <1>4
  DEF Confirm, PipelineOwnsRow, CompletedMeansProcessed, ConfirmationIsAudited,
      ConfirmedHasResult, HandlerHoldsTask, AckMeansProcessed,
      LateFindsItsRow, NoTaskBefore,
      ArchivedIsSpent
<1>5. CASE Delete(l)
  BY <1>5
  DEF Delete, PipelineOwnsRow, CompletedMeansProcessed, ConfirmationIsAudited,
      ConfirmedHasResult, HandlerHoldsTask, AckMeansProcessed,
      LateFindsItsRow, NoTaskBefore,
      ArchivedIsSpent
<1>6. CASE AppendAuditLog(l)
  BY <1>6
  DEF AppendAuditLog, PipelineOwnsRow, CompletedMeansProcessed, ConfirmationIsAudited,
      ConfirmedHasResult, HandlerHoldsTask, AckMeansProcessed,
      LateFindsItsRow, NoTaskBefore,
      ArchivedIsSpent
<1> QED BY <1>1, <1>2, <1>3, <1>4, <1>5, <1>6 DEF Operator

(* An outage leaves no handler, so it leaves no claim about one, and of    *)
(* each at most the statement it was executing.                            *)
LEMMA OutageInv ==
  ASSUME IInv, TypeOK', Crash \/ Restart
  PROVE  IInv'
<1> USE DEF IInv, TypeOK, Task
<1>1. /\ UNCHANGED <<status, fields, confirmedAt, audit, overlap>>
      /\ \A l \in Labels :
           /\ worker'[l] = "idle"
           /\ uploading'[l] => uploading[l]
           /\ task'[l] = task[l] \/ (worker[l] # "idle" /\ task'[l] = Requeued(task[l]))
           /\ late'[l] \in LeftBehind(l)
  BY DEF Crash, Restart, Outage
<1>2. \A l \in Labels :
        /\ task'[l].retried = task[l].retried
        /\ \/ task'[l].state = task[l].state
           \/ task[l].state = "active" /\ task'[l].state = "pending"
  BY <1>1 DEF Requeued, HandlerHoldsTask
<1>3. /\ PipelineOwnsRow' /\ ConfirmationIsAudited' /\ ConfirmedHasResult'
      /\ HandlerHoldsTask' /\ AckMeansProcessed'
  BY <1>1
  DEF PipelineOwnsRow, ConfirmationIsAudited, ConfirmedHasResult,
      HandlerHoldsTask, AckMeansProcessed
<1>4. CompletedMeansProcessed' /\ NoTaskBefore' /\ ArchivedIsSpent'
  <2>1. CompletedMeansProcessed' /\ ArchivedIsSpent'
    BY <1>1, <1>2 DEF CompletedMeansProcessed, ArchivedIsSpent
  <2>2. \A l \in Labels : worker[l] = "idle" => late'[l] = late[l]
    BY <1>1 DEF LeftBehind, InFlight
  <2>3. ASSUME NEW l \in Labels
        PROVE  /\ status'[l] = "absent" => ~ uploading'[l]
               /\ task'[l].state = "none" =>
                    /\ status'[l] \in {"absent", "draft", "deleted"}
                    /\ late'[l] = "none"
               /\ status'[l] = "absent" \/ uploading'[l] =>
                    task'[l].state = "none" /\ task'[l].retried = 0
    <3>1. NoTaskBefore /\ HandlerHoldsTask
      OBVIOUS
    <3>2. /\ status' = status
          /\ uploading'[l] => uploading[l]
          /\ task'[l].retried = task[l].retried
          /\ \/ task'[l].state = task[l].state
             \/ task[l].state = "active" /\ task'[l].state = "pending"
      BY <1>1, <1>2
    <3>3. task[l].state = "none" => late'[l] = late[l]
      BY <2>2, <3>1 DEF HandlerHoldsTask
    <3> HIDE DEF IInv, TypeOK, Task
    <3> QED BY <3>1, <3>2, <3>3 DEF NoTaskBefore
  <2>4. NoTaskBefore'
    BY <2>3 DEF NoTaskBefore
  <2> QED BY <2>1, <2>4
<1>5. ASSUME NEW l \in Labels, late'[l] # "none", ~ overlap[l]
      PROVE  /\ task'[l].state \in {"active", "pending", "archived"}
             /\ late'[l] \in {"error", "ready"}
                  => status[l] \in {"processing", "deleted"}
  <2>1. late'[l] = late[l] \/ late'[l] \in InFlight(worker[l])
    BY <1>1, <1>5 DEF LeftBehind
  <2>2. CASE late'[l] = late[l]
    BY <1>2, <1>5, <2>2 DEF LateFindsItsRow
  <2>3. CASE late'[l] \in InFlight(worker[l])
    BY <1>2, <1>5, <2>3
    DEF InFlight, WorkerStates, HandlerHoldsTask, PipelineOwnsRow
  <2> QED BY <2>1, <2>2, <2>3
<1>6. LateFindsItsRow'
  BY <1>1, <1>5 DEF LateFindsItsRow
<1> QED BY <1>3, <1>4, <1>6

LEMMA NextInv == IInv /\ [Next]_vars => IInv'
<1> SUFFICES ASSUME IInv, [Next]_vars PROVE IInv'
  OBVIOUS
<1>1. TypeOK'
  BY NextType DEF IInv
<1>2. CASE UNCHANGED vars
  BY <1>1, <1>2
  DEF vars, IInv, PipelineOwnsRow, CompletedMeansProcessed, ConfirmationIsAudited,
      ConfirmedHasResult, HandlerHoldsTask, AckMeansProcessed,
      LateFindsItsRow, NoTaskBefore,
      ArchivedIsSpent
<1>3. CASE Next
  BY <1>1, <1>3, QueueInv, HandlerInv, LateInv, OperatorInv, OutageInv
  DEF Next
<1> QED BY <1>2, <1>3

(* What keeps the rows, the tasks and the handlers consistent, in all.     *)
THEOREM SpecInv == Spec => []IInv
<1>1. Init => IInv BY InitInv
<1>2. IInv /\ [Next]_vars => IInv' BY NextInv
<1> QED BY <1>1, <1>2, PTL DEF Spec

-----------------------------------------------------------------------------
(* Safety.                                                                 *)

(* The pipeline's row is in "processing" or gone, whatever operators and   *)
(* redeliveries do, as long as no two deliveries overlap.                  *)
THEOREM PipelineOwnsRowHolds == Spec => []PipelineOwnsRow
<1>1. IInv => PipelineOwnsRow BY DEF IInv
<1> QED BY <1>1, SpecInv, PTL

(* A task that asynq counts as done has left a processed label behind.     *)
THEOREM CompletedMeansProcessedHolds == Spec => []CompletedMeansProcessed
<1>1. IInv => CompletedMeansProcessed BY DEF IInv
<1> QED BY <1>1, SpecInv, PTL

(* A confirmation date never stands without its audit entry.               *)
THEOREM ConfirmationIsAuditedHolds == Spec => []ConfirmationIsAudited
<1>1. IInv => ConfirmationIsAudited BY DEF IInv
<1> QED BY <1>1, SpecInv, PTL

(* Nothing is confirmed without an AI result.                              *)
THEOREM ConfirmedHasResultHolds == Spec => []ConfirmedHasResult
<1>1. IInv => ConfirmedHasResult BY DEF IInv
<1> QED BY <1>1, SpecInv, PTL

-----------------------------------------------------------------------------
(* Action properties.                                                      *)

(* The statements of a live handler come while its task is leased, and     *)
(* those of one that was given up while they are late.                     *)
LEMMA WorkerWritesWhileActive ==
  ASSUME IInv, NEW k \in Labels, Handler(k)
  PROVE  /\ task[k].state = "active"
         /\ \A l \in Labels \ {k} : status'[l] = status[l]
  BY DEF IInv, TypeOK, HandlerHoldsTask, Handler, MarkProcessing,
         AgentAnswers, AgentFails, Validate, StoreResult, SetAIResult,
         SetStatus, rowVars

(* A confirmation is final once the queue has dropped the task and nothing *)
(* is late: operators cannot take it back, and no handler is left that     *)
(* could, even if deliveries overlapped before.                            *)
THEOREM ConfirmedIsFinalAfterAckHolds == Spec => ConfirmedIsFinalAfterAck
<1> DEFINE Final ==
      \A l \in Labels :
        task[l].state \in {"completed", "archived"} /\ late[l] = "none" =>
          (status[l] = "confirmed" => status'[l] = "confirmed")
<1>1. IInv /\ [Next]_vars => [Final]_vars
  <2> SUFFICES ASSUME IInv, Next PROVE Final
    OBVIOUS
  <2>1. ASSUME NEW k \in Labels, Handler(k) PROVE Final
    BY <2>1, WorkerWritesWhileActive
  <2>2. ASSUME NEW k \in Labels,
               Queue(k) \/ WrongServer(k) \/ AppendAuditLog(k)
        PROVE  Final
    BY <2>2
    DEF Queue, Dequeue, Ack, Nack, LeaseExpires, WrongServer,
        AppendAuditLog, rowVars
  <2>3. ASSUME NEW k \in Labels, Operator(k) PROVE Final
    BY <2>3
    DEF Operator, Upload, Enqueue, UpdateFields, Confirm, Delete, IInv,
        TypeOK
  <2>4. ASSUME NEW k \in Labels, LateWrite(k) PROVE Final
    BY <2>4 DEF LateWrite, SetAIResult, SetStatus, IInv, TypeOK
  <2>5. CASE Crash \/ Restart
    BY <2>5 DEF Crash, Restart, Outage
  <2> QED BY <2>1, <2>2, <2>3, <2>4, <2>5 DEF Next
<1> QED BY <1>1, SpecInv, PTL DEF Spec, ConfirmedIsFinalAfterAck

(* Only the result of a running pipeline, on a row that shows              *)
(* "processing", and a deletion ever drop an operator's edit that is in    *)
(* the row, as long as no two deliveries overlap.                          *)
THEOREM EditsLostOnlyInProcessingHolds == Spec => EditsLostOnlyInProcessing
<1> DEFINE Kept ==
      \A l \in Labels :
        ~ (fields[l].edited \subseteq fields'[l].edited)
          => status[l] = "processing" \/ status'[l] = "deleted" \/ overlap[l]
<1>1. IInv /\ [Next]_vars => [Kept]_vars
  <2> SUFFICES ASSUME IInv, Next PROVE Kept
    OBVIOUS
  <2>1. ASSUME NEW k \in Labels, StoreResult(k) PROVE Kept
    BY <2>1
    DEF StoreResult, SetAIResult, SetStatus, Exists, IInv, TypeOK,
        PipelineOwnsRow
  <2>2. ASSUME NEW k \in Labels,
               \/ MarkProcessing(k) \/ AgentAnswers(k) \/ AgentFails(k)
               \/ Validate(k) \/ Queue(k) \/ WrongServer(k)
               \/ AppendAuditLog(k) \/ Upload(k) \/ Enqueue(k) \/ Confirm(k)
        PROVE  Kept
    BY <2>2
    DEF MarkProcessing, AgentAnswers, AgentFails, Validate, Queue, Dequeue,
        Ack, Nack, LeaseExpires, WrongServer, AppendAuditLog, Upload,
        Enqueue, Confirm, rowVars
  <2>3. ASSUME NEW k \in Labels, NEW e \in SUBSET Fields, UpdateFields(k, e)
        PROVE  Kept
    BY <2>3 DEF UpdateFields, Concat, IInv, TypeOK, Jsonb
  <2>4. ASSUME NEW k \in Labels, Delete(k) PROVE Kept
    BY <2>4 DEF Delete, IInv, TypeOK
  <2>5. ASSUME NEW k \in Labels, LateWrite(k) PROVE Kept
    BY <2>5
    DEF LateWrite, SetAIResult, SetStatus, Exists, IInv, TypeOK,
        LateFindsItsRow
  <2>6. CASE Crash \/ Restart
    BY <2>6 DEF Crash, Restart, Outage
  <2> QED
    BY <2>1, <2>2, <2>3, <2>4, <2>5, <2>6 DEF Next, Handler, Operator
<1> QED BY <1>1, SpecInv, PTL DEF Spec, EditsLostOnlyInProcessing

-----------------------------------------------------------------------------
(* Refinement: the status column keeps the abstract promise until two      *)
(* deliveries overlap.                                                     *)
THEOREM Refinement == Spec => ImplementsPromise
<1> DEFINE st == [l \in Labels |-> IF overlap[l] THEN "forfeited" ELSE status[l]]
<1>1. Init => Promise!Init
  BY DEF Init, Promise!Init
<1>2. IInv /\ [Next]_vars => [Promise!Next]_st
  <2> SUFFICES ASSUME IInv, Next PROVE Promise!Next \/ UNCHANGED st
    BY DEF vars
  <2> USE DEF IInv, TypeOK, Promise!Becomes
  <2>1. ASSUME NEW l \in Labels, UNCHANGED overlap,
               \A k \in Labels \ {l} : status'[k] = status[k],
               \/ status'[l] = status[l] \/ overlap[l]
               \/ status[l] = "absent" /\ status'[l] = "draft"
               \/ Exists(l) /\ status'[l] = "processing"
               \/ status[l] = "processing" /\ status'[l] \in {"ready", "error"}
               \/ status[l] = "ready" /\ status'[l] = "confirmed"
               \/ /\ Exists(l) /\ status[l] # "confirmed"
                  /\ status'[l] = "deleted"
        PROVE  Promise!Next \/ UNCHANGED st
    <3>1. CASE status'[l] = status[l] \/ overlap[l]
      BY <2>1, <3>1
    <3>2. CASE ~ overlap[l]
      <4>1. st[l] = status[l] /\ st' = [st EXCEPT ![l] = status'[l]]
        BY <2>1, <3>2
      <4>2. \/ UNCHANGED st \/ Promise!Create(l) \/ Promise!Begin(l)
            \/ Promise!Succeed(l) \/ Promise!GiveUp(l)
            \/ Promise!Confirm(l) \/ Promise!Discard(l)
        BY <2>1, <3>2, <4>1
        DEF Exists, Statuses, Promise!Live, Promise!Create, Promise!Begin,
            Promise!Succeed, Promise!GiveUp, Promise!Confirm, Promise!Discard
      <4> QED BY <4>2 DEF Promise!Next
    <3> QED BY <3>1, <3>2
  <2>2. ASSUME NEW l \in Labels, Handler(l)
        PROVE  Promise!Next \/ UNCHANGED st
    <3>1. /\ UNCHANGED overlap
          /\ \A k \in Labels \ {l} : status'[k] = status[k]
      BY <2>2, WorkerWritesWhileActive
      DEF Handler, MarkProcessing, AgentAnswers, AgentFails, Validate,
          StoreResult
    <3>2. \/ status'[l] = status[l] \/ overlap[l]
          \/ Exists(l) /\ status'[l] = "processing"
          \/ status[l] = "processing" /\ status'[l] \in {"ready", "error"}
      BY <2>2
      DEF Handler, MarkProcessing, AgentAnswers, AgentFails, Validate,
          StoreResult, SetAIResult, SetStatus, Exists, PipelineOwnsRow,
          rowVars
    <3> QED BY <2>1, <3>1, <3>2
  <2>3. ASSUME NEW l \in Labels, LateWrite(l)
        PROVE  Promise!Next \/ UNCHANGED st
    <3>1. /\ UNCHANGED overlap
          /\ \A k \in Labels \ {l} : status'[k] = status[k]
      BY <2>3 DEF LateWrite, SetAIResult, SetStatus
    <3>2. \/ status'[l] = status[l] \/ overlap[l]
          \/ Exists(l) /\ status'[l] = "processing"
          \/ status[l] = "processing" /\ status'[l] \in {"ready", "error"}
      BY <2>3
      DEF LateWrite, SetAIResult, SetStatus, Exists, LateFindsItsRow
    <3> QED BY <2>1, <3>1, <3>2
  <2>4. ASSUME NEW l \in Labels, Operator(l)
        PROVE  Promise!Next \/ UNCHANGED st
    <3>1. /\ UNCHANGED overlap
          /\ \A k \in Labels \ {l} : status'[k] = status[k]
      BY <2>4
      DEF Operator, Upload, Enqueue, UpdateFields, Confirm, Delete,
          queueVars
    <3>2. \/ status'[l] = status[l]
          \/ status[l] = "absent" /\ status'[l] = "draft"
          \/ status[l] = "ready" /\ status'[l] = "confirmed"
          \/ /\ Exists(l) /\ status[l] # "confirmed"
             /\ status'[l] = "deleted"
      BY <2>4
      DEF Operator, Upload, Enqueue, UpdateFields, Confirm, Delete
    <3> QED BY <2>1, <3>1, <3>2
  <2>5. ASSUME NEW l \in Labels, Dequeue(l)
        PROVE  Promise!Next \/ UNCHANGED st
    <3>1. UNCHANGED status /\ overlap' = [overlap EXCEPT ![l] = overlap'[l]]
      BY <2>5 DEF Dequeue, rowVars
    <3>2. CASE overlap'[l] = overlap[l]
      BY <3>1, <3>2
    <3>3. CASE ~ overlap[l] /\ overlap'[l]
      <4>1. st[l] # "forfeited" /\ st' = [st EXCEPT ![l] = "forfeited"]
        BY <3>1, <3>3 DEF Statuses
      <4> QED BY <4>1 DEF Promise!Forfeit, Promise!Next
    <3> QED BY <2>5, <3>2, <3>3 DEF Dequeue
  <2>6. ASSUME NEW l \in Labels,
               \/ Ack(l) \/ Nack(l) \/ LeaseExpires(l) \/ WrongServer(l)
               \/ AppendAuditLog(l)
        PROVE  UNCHANGED st
    BY <2>6
    DEF Ack, Nack, LeaseExpires, WrongServer, AppendAuditLog, rowVars,
        queueVars
  <2>7. CASE Crash \/ Restart
    BY <2>7 DEF Crash, Restart, Outage
  <2> QED
    BY <2>2, <2>3, <2>4, <2>5, <2>6, <2>7 DEF Next, Queue
<1> QED
  BY <1>1, <1>2, SpecInv, PTL DEF Spec, ImplementsPromise, Promise!Spec

-----------------------------------------------------------------------------
(* Refinement: row and task are work that is attempted at least once.      *)

(* What the queue's operators do to the phase of a task and its retries.   *)
LEMMA TaskPhases ==
  /\ Phase(NoTask) = "none" /\ NoTask.retried = 0
  /\ Phase(Enqueued) = "owed" /\ Enqueued.retried = 0
  /\ \A t \in Task :
       /\ Phase(Leased(t)) = "owed" /\ Leased(t).retried = t.retried
       /\ Phase(Requeued(t)) = "owed" /\ Requeued(t).retried = t.retried
       /\ Phase(Acked(t)) = "closed" /\ Acked(t).retried = t.retried
       /\ Phase(t) = "owed" <=> t.state \in {"pending", "active"}
       /\ Phase(t) = "none" <=> t.state = "none"
  BY DEF Phase, NoTask, Enqueued, Leased, Acked, Requeued, Task, TaskStates

LEMMA FailedPhase ==
  ASSUME NEW t \in Task
  PROVE  \/ /\ Phase(Failed(t)) = "owed" /\ t.retried < MaxRetry
            /\ Failed(t).retried = t.retried + 1
         \/ /\ Phase(Failed(t)) = "abandoned" /\ t.retried = MaxRetry
            /\ Failed(t).retried = t.retried
  BY MaxRetryAssumption DEF Phase, Failed, Task, TaskStates

(* A late statement keeps archived work owed, and nothing else.            *)
LEMMA WorkPhases ==
  ASSUME NEW t \in Task, NEW s \in LateStatements
  PROVE  /\ t.state # "archived" => WorkPhase(t, s) = Phase(t)
         /\ s = "none" => WorkPhase(t, s) = Phase(t)
         /\ s # "none" /\ t.state = "archived" => WorkPhase(t, s) = "owed"
  BY DEF WorkPhase

(* The results come and go with the handler while the work is owed, the    *)
(* queue moves the work on, only the operator withdraws it, and only an    *)
(* overlap forfeits it.                                                    *)
THEOREM AttemptsRefinement == Spec => ImplementsAttempts
<1> DEFINE ph == [l \in Labels |-> WorkPhase(task[l], late[l])]
           rt == [l \in Labels |-> task[l].retried]
           out == [l \in Labels |-> Outcome(status[l], overlap[l])]
           Step == Attempted!Next \/ UNCHANGED <<ph, rt, out>>
<1>1. Init => Attempted!Init
  BY TaskPhases DEF Init, Outcome, WorkPhase, Attempted!Init
<1>2. IInv /\ [Next]_vars => [Attempted!Next]_<<ph, rt, out>>
  <2> SUFFICES ASSUME IInv, Next PROVE Step
    BY DEF vars
  <2> USE DEF IInv, TypeOK, Attempted!Becomes, Attempted!MoveTo
  <2>0. TypeOK'
    BY NextType
  <2>1. ASSUME NEW k \in Labels, Handler(k) PROVE Step
    <3>1. UNCHANGED <<ph, rt, overlap>> /\ ph[k] = "owed"
      <4>1. UNCHANGED <<task, late, overlap>> /\ task[k].state = "active"
        BY <2>1, WorkerWritesWhileActive
        DEF Handler, MarkProcessing, AgentAnswers, AgentFails, Validate,
            StoreResult
      <4>2. Phase(task[k]) = "owed"
        BY <4>1, TaskPhases
      <4> QED BY <4>1, <4>2, WorkPhases
    <3>2. out' = [out EXCEPT ![k] = Outcome(status'[k], overlap[k])]
      BY <2>1, <3>1, WorkerWritesWhileActive
    <3>3. \/ status'[k] = status[k]
          \/ Exists(k) /\ status'[k] \in {"processing", "error", "ready"}
      BY <2>1
      DEF Handler, MarkProcessing, AgentAnswers, AgentFails, Validate,
          StoreResult, SetAIResult, SetStatus, rowVars
    <3>4. \/ UNCHANGED out
          \/ /\ out[k] = "missing"
             /\ out' = [out EXCEPT ![k] = "there"]
          \/ /\ out[k] = "there"
             /\ out' = [out EXCEPT ![k] = "missing"]
      <4>1. \/ Outcome(status'[k], overlap[k]) = out[k]
            \/ /\ Outcome(status'[k], overlap[k]) \in {"missing", "there"}
               /\ out[k] \in {"missing", "there"}
        BY <3>3 DEF Outcome, Exists
      <4>2. CASE Outcome(status'[k], overlap[k]) = out[k]
        BY <3>2, <4>2
      <4> QED BY <3>2, <4>1, <4>2
    <3>5. \/ UNCHANGED <<ph, rt, out>>
          \/ Attempted!Produce(k) \/ Attempted!Redo(k)
      BY <3>1, <3>4 DEF Attempted!Produce, Attempted!Redo
    <3> QED BY <3>5 DEF Attempted!Next
  <2>2. ASSUME NEW k \in Labels, LateWrite(k) PROVE Step
    <3>1. /\ UNCHANGED <<task, overlap>>
          /\ late' = [late EXCEPT ![k] = "none"] /\ late[k] # "none"
          /\ \A l \in Labels \ {k} : status'[l] = status[l]
          /\ \/ status'[k] = status[k]
             \/ Exists(k) /\ status'[k] \in {"processing", "error", "ready"}
      BY <2>2 DEF LateWrite, SetAIResult, SetStatus
    <3>2. UNCHANGED rt
      BY <3>1
    <3>3. \/ UNCHANGED out
          \/ /\ ~ overlap[k]
             /\ out[k] \in {"missing", "there"}
             /\ \E o \in {"missing", "there"} : out' = [out EXCEPT ![k] = o]
      BY <3>1 DEF Outcome, Exists
    <3>4. CASE task[k].state = "archived"
      <4>1. ph[k] = "owed" /\ ph' = [ph EXCEPT ![k] = "abandoned"]
        <5>1. Phase(task[k]) = "abandoned"
          BY <3>4 DEF Phase
        <5>2. WorkPhase(task[k], late[k]) = "owed"
          BY <3>1, <3>4, WorkPhases
        <5>3. WorkPhase(task'[k], late'[k]) = "abandoned"
          BY <3>1, <3>4, <5>1, WorkPhases DEF LateStatements
        <5> QED BY <3>1, <5>2, <5>3
      <4>2. rt[k] = MaxRetry
        BY <3>4 DEF ArchivedIsSpent
      <4>3. Attempted!Abandon(k)
        BY <3>2, <3>3, <4>1, <4>2 DEF Attempted!Abandon
      <4> QED BY <4>3 DEF Attempted!Next
    <3>5. CASE task[k].state # "archived"
      <4>1. UNCHANGED ph
        <5>1. ph'[k] = ph[k]
          BY <3>1, <3>5, WorkPhases DEF LateStatements
        <5> QED BY <3>1, <5>1
      <4>2. CASE UNCHANGED out
        BY <3>2, <4>1, <4>2
      <4>3. CASE ~ UNCHANGED out
        <5>1. ~ overlap[k] /\ task[k].state \in {"active", "pending"}
          BY <3>1, <3>3, <3>5, <4>3 DEF LateFindsItsRow
        <5>2. ph[k] = "owed"
          BY <5>1, WorkPhases, TaskPhases
        <5>3. Attempted!Produce(k) \/ Attempted!Redo(k) \/ UNCHANGED out
          <6>1. PICK o \in {"missing", "there"} : out' = [out EXCEPT ![k] = o]
            BY <3>3, <4>3
          <6>2. out[k] \in {"missing", "there"}
            BY <3>3, <4>3
          <6>3. CASE out[k] = o
            BY <6>1, <6>3
          <6>4. CASE out[k] # o
            BY <3>2, <4>1, <5>2, <6>1, <6>2, <6>4
            DEF Attempted!Produce, Attempted!Redo
          <6> QED BY <6>3, <6>4
        <5> QED BY <3>2, <4>1, <5>3 DEF Attempted!Next
      <4> QED BY <4>2, <4>3
    <3> QED BY <3>4, <3>5
  <2>3. ASSUME NEW k \in Labels, Dequeue(k) PROVE Step
    <3>1. /\ UNCHANGED <<status, late>> /\ task[k].state = "pending"
          /\ task' = [task EXCEPT ![k] = Leased(task[k])]
          /\ overlap' = [overlap EXCEPT ![k] = overlap'[k]]
          /\ overlap[k] => overlap'[k]
      BY <2>3 DEF Dequeue, rowVars
    <3>2. UNCHANGED <<ph, rt>> /\ ph[k] = "owed"
      <4>1. /\ WorkPhase(task[k], late[k]) = "owed"
            /\ WorkPhase(task'[k], late'[k]) = "owed"
            /\ task'[k].retried = task[k].retried
        <5>1. task'[k] = Leased(task[k]) /\ task'[k] \in Task
          BY <2>0, <3>1
        <5>2. task'[k].state = "active"
          BY <5>1 DEF Leased, Task
        <5>3. Phase(task[k]) = "owed" /\ Phase(task'[k]) = "owed"
          BY <3>1, <5>1, TaskPhases
        <5>4. task'[k].retried = task[k].retried
          BY <5>1, TaskPhases
        <5> QED BY <3>1, <5>1, <5>2, <5>3, <5>4, WorkPhases
      <4> QED BY <3>1, <4>1
    <3>3. CASE overlap'[k] = overlap[k]
      BY <3>1, <3>2, <3>3
    <3>4. CASE ~ overlap[k] /\ overlap'[k]
      <4>1. out[k] # "forfeited" /\ out' = [out EXCEPT ![k] = "forfeited"]
        <5>1. out[k] # "forfeited"
          BY <3>4 DEF Outcome
        <5>2. Outcome(status'[k], overlap'[k]) = "forfeited"
          BY <3>4 DEF Outcome
        <5>3. \A l \in Labels \ {k} :
                Outcome(status'[l], overlap'[l]) = Outcome(status[l], overlap[l])
          BY <3>1
        <5>4. ASSUME NEW l \in Labels
              PROVE  Outcome(status'[l], overlap'[l])
                       = IF l = k THEN "forfeited" ELSE Outcome(status[l], overlap[l])
          BY <5>2, <5>3
        <5>5. out' = [l \in Labels |-> IF l = k THEN "forfeited"
                                      ELSE Outcome(status[l], overlap[l])]
          BY <5>4
        <5> QED BY <5>1, <5>5
      <4>2. Attempted!Forfeit(k)
        BY <3>2, <4>1 DEF Attempted!Forfeit
      <4> QED BY <4>2 DEF Attempted!Next
    <3>5. overlap[k] \in BOOLEAN /\ overlap'[k] \in BOOLEAN
      BY <2>0
    <3> QED BY <3>1, <3>3, <3>4, <3>5
  <2>4. ASSUME NEW k \in Labels, Ack(k) PROVE Step
    <3>1. /\ UNCHANGED <<status, late, overlap>> /\ task[k].state = "active"
          /\ task' = [task EXCEPT ![k] = Acked(task[k])]
      BY <2>4 DEF Ack, rowVars, HandlerHoldsTask
    <3>2. UNCHANGED out /\ out[k] # "missing"
      BY <2>4, <3>1 DEF Ack, AckMeansProcessed, Outcome
    <3>3. /\ WorkPhase(task[k], late[k]) = "owed"
          /\ WorkPhase(task'[k], late'[k]) = "closed"
          /\ task'[k].retried = task[k].retried
      <4>1. task'[k] = Acked(task[k]) /\ task'[k] \in Task
        BY <2>0, <3>1
      <4>2. task'[k].state = "completed"
        BY <4>1 DEF Acked, Task
      <4>3. Phase(task[k]) = "owed" /\ Phase(task'[k]) = "closed"
        BY <3>1, <4>1, TaskPhases
      <4>4. task'[k].retried = task[k].retried
        BY <4>1, TaskPhases
      <4> QED BY <3>1, <4>1, <4>2, <4>3, <4>4, WorkPhases
    <3>4. /\ ph[k] = "owed" /\ ph' = [ph EXCEPT ![k] = "closed"]
          /\ UNCHANGED rt
      BY <3>1, <3>3
    <3>5. Attempted!Close(k)
      BY <3>2, <3>4 DEF Attempted!Close
    <3> QED BY <3>5 DEF Attempted!Next
  <2>5. ASSUME NEW k \in Labels, Nack(k) \/ LeaseExpires(k) \/ WrongServer(k)
        PROVE  Step
    <3>1. /\ UNCHANGED <<status, overlap>>
          /\ task[k].state \in {"pending", "active"}
          /\ task' = [task EXCEPT ![k] = Failed(task[k])]
          /\ \A l \in Labels \ {k} : late'[l] = late[l]
      BY <2>5
      DEF Nack, LeaseExpires, WrongServer, rowVars, HandlerHoldsTask
    <3>2. UNCHANGED out
      BY <3>1
    <3>3. /\ WorkPhase(task[k], late[k]) = "owed"
          /\ task[k] \in Task /\ late'[k] \in LateStatements
          /\ task'[k] \in Task /\ task'[k] = Failed(task[k])
      BY <2>0, <3>1, TaskPhases, WorkPhases
    <3>4. \/ /\ task[k].retried < MaxRetry
             /\ WorkPhase(task'[k], late'[k]) = "owed"
             /\ task'[k].retried = task[k].retried + 1
          \/ /\ task[k].retried = MaxRetry
             /\ WorkPhase(task'[k], late'[k]) \in {"owed", "abandoned"}
             /\ task'[k].retried = task[k].retried
      <4>1. \/ /\ Phase(task'[k]) = "owed" /\ task[k].retried < MaxRetry
               /\ task'[k].retried = task[k].retried + 1
            \/ /\ Phase(task'[k]) = "abandoned" /\ task[k].retried = MaxRetry
               /\ task'[k].retried = task[k].retried
        BY <3>3, FailedPhase
      <4>2. Phase(task'[k]) = "owed" => WorkPhase(task'[k], late'[k]) = "owed"
        BY <3>3 DEF WorkPhase
      <4>3. Phase(task'[k]) = "abandoned"
              => WorkPhase(task'[k], late'[k]) \in {"owed", "abandoned"}
        BY <3>3 DEF WorkPhase
      <4> QED BY <4>1, <4>2, <4>3, Zenon
    <3>5. CASE task'[k].retried = task[k].retried + 1
      <4>1. /\ task[k].retried < MaxRetry
            /\ WorkPhase(task'[k], late'[k]) = WorkPhase(task[k], late[k])
        BY <3>3, <3>4, <3>5 DEF Task
      <4>2. UNCHANGED ph /\ rt' = [rt EXCEPT ![k] = rt[k] + 1]
        BY <3>1, <3>5, <4>1
      <4>3. ph[k] = "owed" /\ rt[k] < MaxRetry
        BY <3>3, <4>1
      <4>4. Attempted!Retry(k)
        BY <3>2, <4>2, <4>3 DEF Attempted!Retry
      <4> QED BY <4>4 DEF Attempted!Next
    <3>6. CASE task'[k].retried = task[k].retried /\ task[k].retried = MaxRetry
      <4>1. UNCHANGED rt
        BY <3>1, <3>6
      <4>2. UNCHANGED ph \/ ph' = [ph EXCEPT ![k] = "abandoned"]
        BY <3>1, <3>3, <3>4, <3>6
      <4>3. UNCHANGED ph \/ Attempted!Abandon(k)
        BY <3>2, <3>3, <3>6, <4>1, <4>2 DEF Attempted!Abandon
      <4> QED BY <3>2, <4>1, <4>3 DEF Attempted!Next
    <3> QED BY <3>4, <3>5, <3>6
  <2>6. ASSUME NEW k \in Labels, Enqueue(k) PROVE Step
    <3>1. /\ UNCHANGED <<status, late, overlap>>
          /\ task[k].state = "none" /\ task[k].retried = 0
      BY <2>6 DEF Enqueue, NoTaskBefore
    <3>2. PICK t \in {Enqueued, NoTask} : task' = [task EXCEPT ![k] = t]
      BY <2>6 DEF Enqueue
    <3>3. UNCHANGED out /\ out[k] # "there"
      BY <2>6, <3>1 DEF Outcome, NoTaskBefore
    <3>4. /\ WorkPhase(task[k], late[k]) = "none"
          /\ WorkPhase(task'[k], late'[k]) \in {"none", "owed"}
          /\ task'[k].retried = task[k].retried
      BY <2>0, <3>1, <3>2, TaskPhases, WorkPhases DEF NoTask, Enqueued
    <3>5. /\ ph[k] = "none" /\ UNCHANGED rt
          /\ UNCHANGED ph \/ ph' = [ph EXCEPT ![k] = "owed"]
      BY <3>1, <3>2, <3>4
    <3>6. Attempted!Submit(k) \/ UNCHANGED <<ph, rt, out>>
      BY <3>3, <3>5 DEF Attempted!Submit
    <3> QED BY <3>6 DEF Attempted!Next
  <2>7. ASSUME NEW k \in Labels, Delete(k) PROVE Step
    <3>1. /\ UNCHANGED <<task, late, overlap>>
          /\ status' = [status EXCEPT ![k] = "deleted"] /\ Exists(k)
      BY <2>7 DEF Delete, queueVars
    <3>2. UNCHANGED <<ph, rt>>
      BY <3>1
    <3>3. \/ UNCHANGED out
          \/ /\ out[k] \in {"missing", "there"}
             /\ out' = [out EXCEPT ![k] = "withdrawn"]
      BY <3>1 DEF Exists, Outcome
    <3>4. UNCHANGED out \/ Attempted!Withdraw(k)
      BY <3>2, <3>3 DEF Attempted!Withdraw
    <3> QED BY <3>2, <3>4 DEF Attempted!Next
  <2>8. ASSUME NEW k \in Labels,
               \/ Upload(k) \/ \E e \in SUBSET Fields : UpdateFields(k, e)
               \/ Confirm(k) \/ AppendAuditLog(k)
        PROVE  UNCHANGED <<ph, rt, out>>
    <3>1. UNCHANGED <<task, late, overlap>>
      BY <2>8 DEF Upload, UpdateFields, Confirm, AppendAuditLog, queueVars
    <3>2. \A l \in Labels : \/ status'[l] = status[l]
                            \/ status[l] = "absent" /\ status'[l] = "draft"
                            \/ status[l] = "ready" /\ status'[l] = "confirmed"
      BY <2>8 DEF Upload, UpdateFields, Confirm, AppendAuditLog
    <3> QED BY <3>1, <3>2 DEF Outcome
  <2>9. CASE Crash \/ Restart
    <3>1. /\ UNCHANGED <<status, overlap>>
          /\ \A l \in Labels :
               \/ /\ task'[l] = task[l]
                  /\ late'[l] = late[l] \/ worker[l] # "idle"
               \/ worker[l] # "idle" /\ task'[l] = Requeued(task[l])
      BY <2>9 DEF Crash, Restart, Outage, LeftBehind, InFlight
    <3>2. ASSUME NEW l \in Labels
          PROVE  /\ WorkPhase(task'[l], late'[l]) = WorkPhase(task[l], late[l])
                 /\ task'[l].retried = task[l].retried
      <4>1. CASE task'[l] = task[l] /\ late'[l] = late[l]
        BY <4>1
      <4>2. CASE worker[l] # "idle"
        <5>1. task[l].state = "active"
          BY <4>2 DEF HandlerHoldsTask
        <5>2. /\ task'[l].state \in {"active", "pending"}
              /\ task'[l].retried = task[l].retried
          BY <3>1, <5>1 DEF Requeued, Task
        <5>3. /\ task[l] \in Task /\ task'[l] \in Task
              /\ late[l] \in LateStatements /\ late'[l] \in LateStatements
          BY <2>0
        <5>4. Phase(task[l]) = "owed" /\ Phase(task'[l]) = "owed"
          BY <5>1, <5>2, <5>3, TaskPhases
        <5>5. /\ WorkPhase(task[l], late[l]) = Phase(task[l])
              /\ WorkPhase(task'[l], late'[l]) = Phase(task'[l])
          BY <5>1, <5>2, <5>3, WorkPhases
        <5> QED BY <5>2, <5>4, <5>5
      <4> QED BY <3>1, <4>1, <4>2
    <3> QED BY <3>1, <3>2
  <2> QED
    BY <2>1, <2>2, <2>3, <2>4, <2>5, <2>6, <2>7, <2>8, <2>9
    DEF Next, Operator, Queue
<1> QED
  BY <1>1, <1>2, SpecInv, PTL
  DEF Spec, ImplementsAttempts, Attempted!Spec, Attempted!workVars

-----------------------------------------------------------------------------
(* Termination: what the liveness properties need besides fairness.        *)

(* How many steps of the queue and the handler an attempt may still take.  *)
PositionsLeft(pc) ==
  CASE pc = "mark" -> 6 [] pc = "vision" -> 5 [] pc = "translate" -> 4
    [] pc = "validate" -> 3 [] pc = "store" -> 2
    [] pc \in {"ack", "nack", "idle"} -> 1

StepsLeft(l) ==
  CASE task[l].state = "pending" -> 7
    [] task[l].state \in {"none", "completed", "archived"} -> 0
    [] task[l].state = "active" -> PositionsLeft(worker[l])

(* Each retry and each outage buys at most one attempt more.               *)
Rank(l) ==
  8 * ((MaxRetry - task[l].retried) + (MaxOutages - outages))
    + StepsLeft(l)

LEMMA StepsLeftType ==
  ASSUME TypeOK, NEW l \in Labels
  PROVE  /\ StepsLeft(l) \in 0..7
         /\ task[l].state = "active" => StepsLeft(l) \in 1..6
         /\ task[l].state \in {"pending", "active"} <=> StepsLeft(l) > 0
  BY DEF TypeOK, Task, TaskStates, WorkerStates, StepsLeft, PositionsLeft

LEMMA StepsLeftAfter ==
  ASSUME TypeOK', NEW l \in Labels
  PROVE  StepsLeft(l)' \in 0..7
  BY DEF TypeOK, Task, TaskStates, WorkerStates, StepsLeft, PositionsLeft

(* What the queue's operators do to the state of a task and its retries.   *)
LEMMA TaskMoves ==
  \A t \in Task :
    /\ Leased(t).state = "active" /\ Leased(t).retried = t.retried
    /\ Acked(t).state = "completed" /\ Acked(t).retried = t.retried
    /\ Requeued(t).retried = t.retried
  BY DEF Leased, Acked, Requeued, Task

LEMMA FailedMoves ==
  ASSUME NEW t \in Task
  PROVE  \/ Failed(t).retried = t.retried + 1
         \/ Failed(t).state = "archived" /\ Failed(t).retried = t.retried
  BY MaxRetryAssumption DEF Failed, Task, TaskStates

(* What is left of the work on a label never grows, and each step of the  *)
(* queue and of the handler lowers it: redeliveries, failures and outages  *)
(* never keep a label busy for ever.                                       *)
AttemptsRunOut ==
  [][\A l \in Labels :
       task[l].state # "none" =>
         /\ Rank(l) \in Nat /\ Rank(l)' <= Rank(l)
         /\ Queue(l) \/ WrongServer(l) \/ Handler(l)
              => Rank(l)' < Rank(l)]_vars

(* One step of the queue, of a wrong server or of the handler of l.        *)
LEMMA OwnStepLowers ==
  ASSUME IInv, TypeOK', NEW l \in Labels,
         Queue(l) \/ WrongServer(l) \/ Handler(l)
  PROVE  Rank(l)' < Rank(l)
<1> USE DEF IInv
<1>1. /\ task[l] \in Task /\ task'[l] \in Task /\ outages' = outages
      /\ outages \in Nat /\ MaxOutages \in Nat /\ MaxRetry \in Nat
      /\ task[l].retried \in Nat /\ task'[l].retried \in Nat
  BY LabelAssumption, MaxRetryAssumption
  DEF TypeOK, Task, Queue, Dequeue, Ack, Nack, LeaseExpires, WrongServer,
      Handler, MarkProcessing, AgentAnswers, AgentFails, Validate, StoreResult
<1>2. /\ StepsLeft(l) \in 0..7 /\ StepsLeft(l)' \in 0..7
      /\ task[l].state = "active" => StepsLeft(l) \in 1..6
      /\ task[l].state \in {"pending", "active"} => StepsLeft(l) > 0
  BY StepsLeftType, StepsLeftAfter
<1>3. CASE Dequeue(l)
  <2>1. /\ task[l].state = "pending" /\ task'[l].state = "active"
        /\ task'[l].retried = task[l].retried /\ worker'[l] = "mark"
    BY <1>1, <1>3, TaskMoves DEF Dequeue, TypeOK
  <2>2. StepsLeft(l) = 7 /\ StepsLeft(l)' = 6
    BY <2>1 DEF StepsLeft, PositionsLeft
  <2> QED BY <1>1, <2>1, <2>2 DEF Rank
<1>4. CASE Ack(l)
  <2>1. /\ task[l].state = "active" /\ task'[l].state = "completed"
        /\ task'[l].retried = task[l].retried
    BY <1>1, <1>4, TaskMoves DEF Ack, TypeOK, HandlerHoldsTask
  <2>2. StepsLeft(l)' = 0
    BY <2>1 DEF StepsLeft
  <2> QED BY <1>1, <1>2, <2>1, <2>2 DEF Rank
<1>5. CASE Nack(l) \/ LeaseExpires(l) \/ WrongServer(l)
  <2>1. /\ task[l].state \in {"pending", "active"}
        /\ task'[l] = Failed(task[l])
    BY <1>5 DEF Nack, LeaseExpires, WrongServer, TypeOK,
                HandlerHoldsTask
  <2>2. \/ task'[l].retried = task[l].retried + 1
        \/ /\ task'[l].state = "archived"
           /\ task'[l].retried = task[l].retried
    BY <1>1, <2>1, FailedMoves
  <2>3. task'[l].state = "archived" => StepsLeft(l)' = 0
    BY DEF StepsLeft
  <2> QED BY <1>1, <1>2, <2>1, <2>2, <2>3 DEF Rank
<1>6. CASE Handler(l)
  <2>1. /\ task[l].state = "active" /\ task'[l] = task[l]
    BY <1>6
    DEF Handler, MarkProcessing, AgentAnswers, AgentFails, Validate,
        StoreResult, HandlerHoldsTask
  <2>2. PositionsLeft(worker'[l]) < PositionsLeft(worker[l])
    BY <1>6
    DEF TypeOK, Handler, MarkProcessing, AgentAnswers, AgentFails, Validate,
        StoreResult, Goto, PositionsLeft
  <2>3. /\ StepsLeft(l) = PositionsLeft(worker[l])
        /\ StepsLeft(l)' = PositionsLeft(worker'[l])
    BY <2>1 DEF StepsLeft
  <2> QED BY <1>1, <1>2, <2>1, <2>2, <2>3 DEF Rank
<1> QED BY <1>3, <1>4, <1>5, <1>6 DEF Queue

(* An outage is paid for.                                                  *)
LEMMA OutageLowers ==
  ASSUME IInv, TypeOK', NEW l \in Labels, Crash \/ Restart
  PROVE  Rank(l)' < Rank(l)
<1> USE DEF IInv
<1>1. /\ task[l] \in Task /\ outages \in Nat /\ MaxOutages \in Nat
      /\ MaxRetry \in Nat /\ task[l].retried \in Nat
  BY LabelAssumption, MaxRetryAssumption DEF TypeOK, Task
<1>2. outages' = outages + 1 /\ task'[l].retried = task[l].retried
  <2>1. outages' = outages + 1 /\ task'[l] \in {task[l], Requeued(task[l])}
    BY DEF Crash, Restart, Outage, TypeOK
  <2> QED BY <1>1, <2>1, TaskMoves
<1>3. StepsLeft(l) \in 0..7 /\ StepsLeft(l)' \in 0..7
  BY StepsLeftType, StepsLeftAfter
<1> QED BY <1>1, <1>2, <1>3 DEF Rank

(* Whatever fails, and however often the process dies within its bound,    *)
(* only finitely many steps of the queue and the handler are ever taken.   *)
THEOREM AttemptsRunOutHolds == Spec => AttemptsRunOut
<1> DEFINE RunsOut ==
      \A l \in Labels :
        task[l].state # "none" =>
          /\ Rank(l) \in Nat /\ Rank(l)' <= Rank(l)
          /\ Queue(l) \/ WrongServer(l) \/ Handler(l)
               => Rank(l)' < Rank(l)
<1>1. IInv /\ [Next]_vars => [RunsOut]_vars
  <2> SUFFICES ASSUME IInv, Next, NEW l \in Labels, task[l].state # "none"
               PROVE  /\ Rank(l) \in Nat /\ Rank(l)' <= Rank(l)
                      /\ Queue(l) \/ WrongServer(l) \/ Handler(l)
                           => Rank(l)' < Rank(l)
    OBVIOUS
  <2>1. TypeOK /\ TypeOK'
    BY NextType DEF IInv
  <2>2. Rank(l) \in Nat /\ Rank(l)' \in Nat
    <3>1. /\ MaxRetry \in Nat /\ MaxOutages \in Nat
          /\ outages \in 0..MaxOutages /\ outages' \in 0..MaxOutages
          /\ task[l].retried \in 0..MaxRetry
          /\ task'[l].retried \in 0..MaxRetry
      BY <2>1, LabelAssumption, MaxRetryAssumption DEF TypeOK, Task
    <3>2. StepsLeft(l) \in Nat /\ StepsLeft(l)' \in Nat
      BY <2>1, StepsLeftType, StepsLeftAfter
    <3> QED BY <3>1, <3>2 DEF Rank
  <2>3. CASE Queue(l) \/ WrongServer(l) \/ Handler(l)
    BY <2>1, <2>2, <2>3, OwnStepLowers
  <2>4. CASE Crash \/ Restart
    BY <2>1, <2>2, <2>4, OutageLowers, OwnStepLowers
  <2>5. ASSUME NEW k \in Labels, k # l,
               Queue(k) \/ WrongServer(k) \/ Handler(k)
        PROVE  UNCHANGED <<task[l], worker[l], outages>>
    BY <2>1, <2>5
    DEF TypeOK, Queue, Dequeue, Ack, Nack, LeaseExpires, WrongServer,
        Handler, MarkProcessing, AgentAnswers, AgentFails, Validate,
        StoreResult, Goto
  <2>6. ASSUME NEW k \in Labels,
               Operator(k) \/ AppendAuditLog(k) \/ LateWrite(k)
        PROVE  UNCHANGED <<task[l], worker[l], outages>>
    BY <2>1, <2>6
    DEF TypeOK, Operator, Upload, Enqueue, UpdateFields, Confirm, Delete,
        AppendAuditLog, LateWrite, queueVars, IInv, NoTaskBefore
  <2>7. UNCHANGED <<task[l], worker[l], outages>> => Rank(l)' = Rank(l)
    BY DEF Rank, StepsLeft
  <2> QED BY <2>2, <2>3, <2>4, <2>5, <2>6, <2>7 DEF Next
<1> QED BY <1>1, SpecInv, PTL DEF Spec, AttemptsRunOut

=============================================================================
