--------------------------- MODULE PrintJobProofs ---------------------------
(***************************************************************************)
(* Proofs about PrintJob, for any set of jobs, any retry budget and any    *)
(* number of outages.                                                      *)
(***************************************************************************)
EXTENDS PrintJob, Integers, TLAPS

-----------------------------------------------------------------------------
(* The queue's operators: what they do to the two fields of a task.        *)
LEMMA TaskFields ==
  /\ NoTask \in Task /\ NoTask.state = "none" /\ NoTask.retried = 0
  /\ Enqueued \in Task /\ Enqueued.state = "pending" /\ Enqueued.retried = 0
  /\ \A t \in Task :
       /\ t.retried \in 0..MaxRetry
       /\ Leased(t) \in Task
       /\ Leased(t).state = "active" /\ Leased(t).retried = t.retried
       /\ Acked(t) \in Task
       /\ Acked(t).state = "completed" /\ Acked(t).retried = t.retried
       /\ Requeued(t) \in Task
       /\ Requeued(t).state = "pending" /\ Requeued(t).retried = t.retried
  BY MaxRetryAssumption
  DEF NoTask, Enqueued, Task, TaskStates, Leased, Acked, Requeued

(* A failed attempt is counted, or it was the last.                        *)
LEMMA FailedFields ==
  ASSUME NEW t \in Task
  PROVE  /\ Failed(t) \in Task
         /\ \/ Failed(t).state = "pending" /\ Failed(t).retried = t.retried + 1
            \/ /\ Failed(t).state = "archived" /\ Failed(t).retried = t.retried
               /\ t.retried = MaxRetry
  BY MaxRetryAssumption DEF Failed, Task, TaskStates

(* What a handler that is given up may leave behind.                       *)
LEMMA LeftBehindType ==
  ASSUME TypeOK, NEW j \in Jobs
  PROVE  LeftBehind(j) \subseteq LateStatements
<1>1. 0 \in 0..MaxObjects
  BY PrintAssumption, MaxRetryAssumption DEF MaxObjects
<1> QED
  BY <1>1
  DEF LeftBehind, InFlight, LateStatements, NoStatement, TypeOK, WorkerStates

(* It is what was late before, an object on its way, or an UPDATE; done's  *)
(* key is the handler's.                                                   *)
LEMMA LeftBehindKinds ==
  ASSUME NEW j \in Jobs, NEW s \in LeftBehind(j), worker[j] \in WorkerStates
  PROVE  \/ s = late[j]
         \/ worker[j] # "idle" /\ s.what \in {"none", "processing", "failed"}
         \/ worker[j] = "upload" /\ s.what = "object"
         \/ worker[j] = "store" /\ s.what = "done" /\ s.key = s3Key[j]
  BY DEF LeftBehind, InFlight, NoStatement, WorkerStates

-----------------------------------------------------------------------------
(* The types.                                                              *)
LEMMA InitType == Init => TypeOK
  BY TaskFields, PrintAssumption, MaxRetryAssumption
  DEF Init, TypeOK, Statuses, Formats, WorkerStates, StreamStates,
      MaxObjects, LateStatements, NoStatement

(* An object may only be added where it is paid for.                       *)
LEMMA ObjectsFit ==
  ASSUME TypeOK, ObjectsArePaidFor, NEW j \in Jobs,
         \/ worker[j] = "upload" /\ task[j].state = "active"
         \/ late[j].what = "object"
  PROVE  objects[j] + 1 \in 0..MaxObjects
<1>1. /\ objects[j] \in Nat /\ task[j].retried \in 0..MaxRetry
      /\ outages \in 0..MaxOutages
  BY TaskFields, PrintAssumption, MaxRetryAssumption DEF TypeOK, MaxObjects
<1>2. objects[j] <= task[j].retried + outages
  <2>1. CASE worker[j] = "upload" /\ task[j].state = "active"
    BY <1>1, <2>1 DEF ObjectsArePaidFor
  <2>2. CASE late[j].what = "object"
    BY <1>1, <2>2 DEF ObjectsArePaidFor
  <2> QED BY <2>1, <2>2
<1> QED
  BY <1>1, <1>2, PrintAssumption, MaxRetryAssumption DEF MaxObjects

LEMMA NextType == IInv /\ [Next]_vars => TypeOK'
<1> SUFFICES ASSUME IInv, [Next]_vars PROVE TypeOK'
  OBVIOUS
<1> USE DEF TypeOK, rowVars, callVars, streamVars
<1>0. TypeOK /\ ObjectsArePaidFor /\ HandlerHoldsTask
  BY DEF IInv
<1>1. CASE UNCHANGED vars
  BY <1>0, <1>1 DEF vars
<1>2. ASSUME NEW j \in Jobs, Queue(j) \/ WrongServer(j) PROVE TypeOK'
  <2>0. 0 \in 0..MaxObjects
    BY PrintAssumption, MaxRetryAssumption DEF MaxObjects
  <2>1. CASE Dequeue(j)
    BY <1>0, <2>0, <2>1, TaskFields DEF Dequeue, Deliver, MoveTask, WorkerStates
  <2>2. CASE Ack(j)
    BY <1>0, <2>0, <2>2, TaskFields DEF Ack, MoveTask, WorkerStates
  <2>3. CASE Nack(j) \/ WrongServer(j)
    BY <1>0, <2>0, <2>3, FailedFields DEF Nack, WrongServer, MoveTask, WorkerStates
  <2>4. CASE LeaseExpires(j)
    BY <1>0, <2>0, <2>4, FailedFields, LeftBehindType
    DEF LeaseExpires, MoveTask, WorkerStates
  <2> QED BY <1>2, <2>1, <2>2, <2>3, <2>4 DEF Queue
<1>3. ASSUME NEW j \in Jobs, Handler(j) PROVE TypeOK'
  <2>0. 0 \in 0..MaxObjects
    BY PrintAssumption, MaxRetryAssumption DEF MaxObjects
  <2>1. CASE MarkProcessing(j)
    BY <1>0, <2>1
    DEF MarkProcessing, SetProcessing, Goto, Statuses, WorkerStates
  <2>2. CASE Render(j)
    BY <1>0, <2>2 DEF Render, Goto, WorkerStates
  <2>3. CASE Upload(j)
    <3>1. objects[j] + 1 \in 0..MaxObjects
      BY <1>0, <2>3, ObjectsFit DEF Upload, HandlerHoldsTask
    <3>2. objects' \in [Jobs -> 0..MaxObjects]
      BY <1>0, <2>3, <3>1 DEF Upload, PutObject
    <3> QED BY <1>0, <2>3, <3>2 DEF Upload, Goto, WorkerStates
  <2>4. CASE GiveUp(j)
    BY <1>0, <2>4 DEF GiveUp, SetFailed, Goto, Statuses, WorkerStates
  <2>5. CASE StoreResult(j)
    <3>1. s3Key[j] \in 0..MaxObjects
      BY <1>0
    <3>2. /\ s3Key' = [s3Key EXCEPT ![j] = 0]
          /\ UNCHANGED <<callVars, objects, task, late, streamVars, outages, overlap>>
          /\ worker' \in [Jobs -> WorkerStates]
      BY <1>0, <2>5 DEF StoreResult, Goto, WorkerStates
    <3>3. /\ status' \in [Jobs -> Statuses] /\ zpl' \in [Jobs -> BOOLEAN]
          /\ UNCHANGED errorMsg
          /\ UNCHANGED pdfKey \/ pdfKey' = [pdfKey EXCEPT ![j] = s3Key[j]]
      BY <1>0, <2>5 DEF StoreResult, SetDone, Statuses
    <3> QED BY <1>0, <2>0, <3>1, <3>2, <3>3
  <2> QED BY <1>3, <2>1, <2>2, <2>3, <2>4, <2>5 DEF Handler
<1>4. ASSUME NEW j \in Jobs, Client(j) PROVE TypeOK'
  <2>1. ASSUME NEW f \in Formats, CreateJob(j, f) PROVE TypeOK'
    BY <1>0, <2>1 DEF CreateJob, Statuses
  <2>2. CASE Enqueue(j)
    <3>1. PICK t \in Task : task' = [task EXCEPT ![j] = t]
      BY <2>2, TaskFields DEF Enqueue
    <3> QED BY <1>0, <2>2, <3>1 DEF Enqueue
  <2>3. CASE OpenStream(j) \/ PollStream(j) \/ BreakStream(j)
    BY <1>0, <2>3
    DEF OpenStream, PollStream, BreakStream, Statuses, StreamStates
  <2> QED BY <1>4, <2>1, <2>2, <2>3 DEF Client
<1>5. ASSUME NEW j \in Jobs, LateWrite(j) PROVE TypeOK'
  <2>0. NoStatement \in LateStatements
    BY PrintAssumption, MaxRetryAssumption
    DEF MaxObjects, NoStatement, LateStatements
  <2>1. late' \in [Jobs -> LateStatements] /\ late[j].key \in 0..MaxObjects
    BY <1>0, <1>5, <2>0 DEF LateWrite, LateStatements
  <2>2. CASE late[j].what = "object" /\ PutObject(j) /\ UNCHANGED rowVars
    <3>1. objects[j] + 1 \in 0..MaxObjects
      BY <1>0, <2>2, ObjectsFit
    <3>2. objects' \in [Jobs -> 0..MaxObjects]
      BY <1>0, <2>2, <3>1 DEF PutObject
    <3> QED BY <1>0, <1>5, <2>1, <2>2, <3>2 DEF LateWrite
  <2>3. CASE /\ SetProcessing(j) \/ SetFailed(j) \/ SetDone(j, late[j].key)
             /\ UNCHANGED objects
    BY <1>0, <1>5, <2>1, <2>3
    DEF LateWrite, SetProcessing, SetFailed, SetDone, Statuses
  <2> QED BY <1>5, <2>2, <2>3 DEF LateWrite
<1>6. CASE Crash \/ Restart
  <2>0. 0 \in 0..MaxObjects
    BY PrintAssumption, MaxRetryAssumption DEF MaxObjects
  <2>1. /\ UNCHANGED <<rowVars, format, objects, streamVars, overlap>>
        /\ outages < MaxOutages /\ outages' = outages + 1
        /\ worker' = [j \in Jobs |-> "idle"] /\ s3Key' = [j \in Jobs |-> 0]
        /\ late' \in [Jobs -> LateStatements]
    BY <1>6 DEF Crash, Restart, Outage
  <2>2. outages' \in 0..MaxOutages
    BY <1>0, <2>1, PrintAssumption
  <2>3. task' \in [Jobs -> Task] /\ creating' \in [Jobs -> BOOLEAN]
    BY <1>0, <1>6, TaskFields DEF Crash, Restart
  <2> QED BY <1>0, <2>0, <2>1, <2>2, <2>3 DEF WorkerStates
<1> QED
  BY <1>1, <1>2, <1>3, <1>4, <1>5, <1>6 DEF Next

-----------------------------------------------------------------------------
(* The inductive invariant, one fact for each group of actions.            *)
LEMMA InitInv == Init => IInv
  BY InitType, PrintAssumption, MaxRetryAssumption
  DEF Init, IInv, NoTask, NoStatement, DoneHasOutput, CompletedMeansDone,
      EndedStreamHasReason, HandlerHoldsTask, AckMeansDone, LateIsAlone,
      NoTaskBefore, ArchivedIsSpent, StoreHasObject, FailedHasReason,
      ObjectsArePaidFor

(* What ObjectsArePaidFor adds up are numbers.                             *)
LEMMA Numbers ==
  ASSUME TypeOK, NEW j \in Jobs
  PROVE  /\ objects[j] \in Nat /\ pdfKey[j] \in Nat /\ s3Key[j] \in Nat
         /\ late[j].key \in Nat
         /\ task[j] \in Task /\ task[j].retried \in Nat /\ outages \in Nat
<1>1. MaxObjects \in Nat
  BY PrintAssumption, MaxRetryAssumption DEF MaxObjects
<1> QED
  BY <1>1, TaskFields, PrintAssumption, MaxRetryAssumption
  DEF TypeOK, LateStatements

(* The queue moves tasks and handlers together and leaves the rest alone;  *)
(* a delivery either finds nothing late or is an overlap.                  *)
LEMMA QueueInv ==
  ASSUME IInv, TypeOK', NEW j \in Jobs, Queue(j) \/ WrongServer(j)
  PROVE  IInv'
<1> USE DEF IInv
<1>1. /\ UNCHANGED <<rowVars, callVars, objects, streamVars, outages>>
      /\ \A k \in Jobs \ {j} :
           UNCHANGED <<task[k], worker[k], s3Key[k], late[k], overlap[k]>>
      /\ overlap[j] => overlap'[j]
  BY DEF TypeOK, Queue, Dequeue, Deliver, Ack, Nack, LeaseExpires,
         WrongServer, MoveTask
<1> HIDE DEF TypeOK
<1>2. DoneHasOutput' /\ EndedStreamHasReason' /\ FailedHasReason'
  BY <1>1 DEF rowVars, callVars, streamVars, DoneHasOutput,
              EndedStreamHasReason, FailedHasReason
<1>3. CASE Dequeue(j)
  <2>1. /\ task[j].state = "pending" /\ task'[j].state = "active"
        /\ task'[j].retried = task[j].retried /\ worker'[j] = "mark"
        /\ late'[j] = late[j] /\ worker[j] = "idle"
        /\ late[j].what # "none" => overlap'[j]
    BY <1>3, TaskFields
    DEF TypeOK, Dequeue, Deliver, MoveTask, HandlerHoldsTask
  <2>2. ObjectsArePaidFor'
    BY <1>1, <2>1 DEF ObjectsArePaidFor
  <2>3. CompletedMeansDone' /\ HandlerHoldsTask' /\ AckMeansDone'
    BY <1>1, <2>1
    DEF rowVars, CompletedMeansDone, HandlerHoldsTask, AckMeansDone
  <2>4. LateIsAlone' /\ ArchivedIsSpent'
    BY <1>1, <2>1 DEF LateIsAlone, ArchivedIsSpent
  <2>5. NoTaskBefore'
    BY <1>1, <2>1 DEF rowVars, callVars, NoTaskBefore
  <2>6. StoreHasObject'
    BY <1>1, <2>1 DEF rowVars, callVars, StoreHasObject, HasObject
  <2> QED BY <1>2, <2>2, <2>3, <2>4, <2>5, <2>6
<1>4. CASE Ack(j)
  <2>1. /\ task[j].state = "active" /\ task'[j].state = "completed"
        /\ task'[j].retried = task[j].retried
        /\ worker[j] = "ack" /\ worker'[j] = "idle"
        /\ late'[j] = late[j] /\ overlap'[j] = overlap[j]
    BY <1>4, TaskFields DEF TypeOK, Ack, MoveTask, HandlerHoldsTask
  <2>2. ObjectsArePaidFor'
    BY <1>1, <2>1 DEF ObjectsArePaidFor
  <2>3. CompletedMeansDone' /\ HandlerHoldsTask' /\ AckMeansDone'
    BY <1>1, <2>1
    DEF rowVars, CompletedMeansDone, HandlerHoldsTask, AckMeansDone
  <2>4. LateIsAlone' /\ ArchivedIsSpent'
    BY <1>1, <2>1 DEF LateIsAlone, ArchivedIsSpent
  <2>5. NoTaskBefore'
    BY <1>1, <2>1 DEF rowVars, callVars, NoTaskBefore
  <2>6. StoreHasObject'
    BY <1>1, <2>1 DEF rowVars, callVars, StoreHasObject, HasObject
  <2> QED BY <1>2, <2>2, <2>3, <2>4, <2>5, <2>6
<1>5. CASE Nack(j) \/ LeaseExpires(j) \/ WrongServer(j)
  <2>1. /\ task[j].state \in {"active", "pending"}
        /\ worker'[j] = "idle" /\ overlap'[j] = overlap[j]
        /\ task[j].state = "pending" => worker[j] = "idle"
    BY <1>5
    DEF TypeOK, Nack, LeaseExpires, WrongServer, MoveTask, HandlerHoldsTask
  <2>2. \/ task'[j].state = "pending" /\ task'[j].retried = task[j].retried + 1
        \/ /\ task'[j].state = "archived" /\ task'[j].retried = task[j].retried
           /\ task'[j].retried = MaxRetry
    <3>1. task'[j] = Failed(task[j])
      BY <1>5 DEF TypeOK, Nack, LeaseExpires, WrongServer, MoveTask
    <3>2. task[j] \in Task
      BY DEF TypeOK
    <3> QED BY <3>1, <3>2, FailedFields
  <2>3. \/ late'[j] = late[j]
        \/ late'[j].what \in {"none", "processing", "failed"}
        \/ worker[j] = "upload" /\ late'[j].what = "object"
        \/ /\ worker[j] = "store" /\ late'[j].what = "done"
           /\ late'[j].key = s3Key[j]
    <3>1. CASE Nack(j) \/ WrongServer(j)
      BY <3>1 DEF Nack, WrongServer
    <3>2. CASE LeaseExpires(j)
      <4>1. late'[j] \in LeftBehind(j) /\ worker[j] \in WorkerStates
        BY <3>2 DEF TypeOK, LeaseExpires
      <4> QED BY <4>1, LeftBehindKinds
    <3> QED BY <1>5, <3>1, <3>2
  <2>4. ObjectsArePaidFor'
    <3>1. /\ task[j].retried \in Nat /\ outages \in Nat /\ objects[j] \in Nat
      BY Numbers
    <3>2. objects[j] + (IF late[j].what = "object" THEN 1 ELSE 0)
            <= task[j].retried + outages
                 + IF \/ worker[j] \in {"store", "fail", "ack", "nack"}
                      \/ task[j].state \in {"completed", "archived"}
                   THEN 1 ELSE 0
      BY DEF ObjectsArePaidFor
    <3>3. objects[j] + (IF late'[j].what = "object" THEN 1 ELSE 0)
            <= task'[j].retried + outages
                 + IF task'[j].state \in {"completed", "archived"} THEN 1 ELSE 0
      BY <2>1, <2>2, <2>3, <3>1, <3>2
    <3> QED BY <1>1, <2>1, <3>3 DEF ObjectsArePaidFor
  <2>5. CompletedMeansDone' /\ HandlerHoldsTask' /\ AckMeansDone'
    BY <1>1, <2>1, <2>2
    DEF rowVars, CompletedMeansDone, HandlerHoldsTask, AckMeansDone
  <2>6. LateIsAlone' /\ ArchivedIsSpent'
    BY <1>1, <2>1, <2>2 DEF LateIsAlone, ArchivedIsSpent
  <2>7. NoTaskBefore'
    BY <1>1, <2>1, <2>2 DEF rowVars, callVars, NoTaskBefore
  <2>8. StoreHasObject'
    BY <1>1, <2>1, <2>3 DEF rowVars, callVars, StoreHasObject, HasObject
  <2> QED BY <1>2, <2>4, <2>5, <2>6, <2>7, <2>8
<1> QED BY <1>3, <1>4, <1>5 DEF Queue

(* The handler holds its task and, without an overlap, nothing of another  *)
(* delivery is late: nobody relies yet on what it writes.                  *)
LEMMA HandlerInv ==
  ASSUME IInv, TypeOK', NEW j \in Jobs, Handler(j)
  PROVE  IInv'
<1> USE DEF IInv, Goto
<1>1. /\ task[j].state = "active" /\ worker[j] # "idle"
      /\ status[j] # "absent" /\ ~ creating[j]
      /\ UNCHANGED <<callVars, task, late, streamVars, outages, overlap>>
      /\ \A k \in Jobs \ {j} :
           UNCHANGED <<status[k], pdfKey[k], zpl[k], errorMsg[k], objects[k],
                       worker[k], s3Key[k]>>
  BY DEF TypeOK, Handler, MarkProcessing, Render, Upload, GiveUp, StoreResult,
         SetProcessing, PutObject, SetFailed, SetDone, rowVars,
         HandlerHoldsTask, NoTaskBefore
<1>2. late[j].what = "none" \/ overlap[j]
  BY <1>1 DEF TypeOK, LateIsAlone
<1>3. /\ task[j].retried \in Nat /\ outages \in Nat /\ objects[j] \in Nat
      /\ pdfKey[j] \in Nat /\ s3Key[j] \in Nat /\ late[j].key \in Nat
  BY Numbers
<1>4. \/ worker[j] = "mark" /\ worker'[j] = "render"
      \/ worker[j] = "render" /\ worker'[j] = "upload"
      \/ worker[j] = "render" /\ worker'[j] = "store" /\ format[j] = "zpl"
      \/ worker[j] = "upload" /\ worker'[j] \in {"store", "fail"}
      \/ worker[j] = "fail" /\ worker'[j] = "nack"
      \/ worker[j] = "store" /\ worker'[j] \in {"ack", "nack"}
  BY DEF TypeOK, Handler, MarkProcessing, Render, Upload, GiveUp, StoreResult
<1>5. \/ UNCHANGED <<status[j], pdfKey[j], zpl[j], errorMsg[j]>>
      \/ /\ status'[j] = "processing" /\ worker[j] = "mark"
         /\ UNCHANGED <<pdfKey[j], zpl[j], errorMsg[j]>>
      \/ /\ status'[j] = "failed" /\ errorMsg'[j] /\ worker[j] = "fail"
         /\ UNCHANGED <<pdfKey[j], zpl[j]>>
      \/ /\ status'[j] = "done" /\ worker[j] = "store"
         /\ UNCHANGED errorMsg[j]
         /\ \/ /\ format[j] = "pdf" /\ pdfKey'[j] = s3Key[j]
               /\ UNCHANGED zpl[j]
            \/ format[j] = "zpl" /\ zpl'[j] /\ UNCHANGED pdfKey[j]
  BY DEF TypeOK, Handler, MarkProcessing, Render, Upload, GiveUp, StoreResult,
         SetProcessing, SetFailed, SetDone, rowVars
<1>6. \/ objects'[j] = objects[j]
      \/ worker[j] = "upload" /\ objects'[j] = objects[j] + 1
  BY DEF TypeOK, Handler, MarkProcessing, Render, Upload, GiveUp, StoreResult,
         PutObject
<1>7. /\ worker'[j] = "ack" => status'[j] = "done"
      /\ worker[j] = "upload" /\ worker'[j] = "store" =>
           s3Key'[j] = objects'[j] /\ objects'[j] = objects[j] + 1
  BY DEF TypeOK, Handler, MarkProcessing, Render, Upload, GiveUp, StoreResult,
         SetDone, PutObject
<1>8. DoneHasOutput'
  <2>1. /\ pdfKey[j] <= objects[j]
        /\ format[j] = "pdf" /\ worker[j] = "store" => HasObject(j, s3Key[j])
        /\ status[j] = "done" =>
             IF format[j] = "zpl" THEN zpl[j] ELSE pdfKey[j] > 0
    BY DEF DoneHasOutput, StoreHasObject
  <2>2. /\ pdfKey'[j] <= objects'[j]
        /\ status'[j] = "done" =>
             IF format[j] = "zpl" THEN zpl'[j] ELSE pdfKey'[j] > 0
    BY <1>3, <1>5, <1>6, <2>1 DEF HasObject
  <2> QED BY <1>1, <2>2 DEF callVars, DoneHasOutput
<1>9. CompletedMeansDone' /\ HandlerHoldsTask' /\ AckMeansDone'
  BY <1>1, <1>7 DEF CompletedMeansDone, HandlerHoldsTask, AckMeansDone
<1>10. EndedStreamHasReason' /\ FailedHasReason'
  BY <1>1, <1>5 DEF streamVars, EndedStreamHasReason, FailedHasReason
<1>11. LateIsAlone' /\ ArchivedIsSpent'
  BY <1>1, <1>2 DEF LateIsAlone, ArchivedIsSpent
<1>12. NoTaskBefore'
  BY <1>1, <1>5 DEF callVars, NoTaskBefore
<1>13. StoreHasObject'
  <2>1. ASSUME format[j] = "pdf", worker'[j] = "store"
        PROVE  HasObject(j, s3Key[j])'
    BY <1>1, <1>3, <1>4, <1>5, <1>7, <2>1 DEF HasObject, DoneHasOutput
  <2>2. ASSUME format[j] = "pdf", late[j].what = "done"
        PROVE  HasObject(j, late[j].key)'
    BY <1>1, <1>2, <1>3, <1>6, <2>2 DEF HasObject, StoreHasObject
  <2> QED BY <1>1, <2>1, <2>2 DEF callVars, StoreHasObject, HasObject
<1>14. ObjectsArePaidFor'
  <2>1. objects[j] + (IF late[j].what = "object" THEN 1 ELSE 0)
          <= task[j].retried + outages
               + IF worker[j] \in {"store", "fail", "ack", "nack"}
                 THEN 1 ELSE 0
    BY <1>1 DEF ObjectsArePaidFor
  <2>2. objects'[j] + (IF late[j].what = "object" THEN 1 ELSE 0)
          <= task[j].retried + outages
               + IF worker'[j] \in {"store", "fail", "ack", "nack"}
                 THEN 1 ELSE 0
    BY <1>3, <1>4, <1>6, <2>1
  <2> QED BY <1>1, <2>2 DEF ObjectsArePaidFor
<1> QED BY <1>8, <1>9, <1>10, <1>11, <1>12, <1>13, <1>14

(* A late statement that no delivery has overtaken finds no handler; an    *)
(* object on its way has been paid for.                                    *)
LEMMA LateInv ==
  ASSUME IInv, TypeOK', NEW j \in Jobs, LateWrite(j)
  PROVE  IInv'
<1> USE DEF IInv
<1>1. /\ late[j].what # "none" /\ late'[j] = NoStatement
      /\ UNCHANGED <<callVars, task, worker, s3Key, streamVars, outages, overlap>>
      /\ \A k \in Jobs \ {j} :
           UNCHANGED <<status[k], pdfKey[k], zpl[k], errorMsg[k], objects[k],
                       late[k]>>
  BY DEF TypeOK, LateWrite, SetProcessing, PutObject, SetFailed, SetDone,
         rowVars
<1>2. /\ task[j].retried \in Nat /\ outages \in Nat /\ objects[j] \in Nat
      /\ pdfKey[j] \in Nat /\ s3Key[j] \in Nat /\ late[j].key \in Nat
  BY Numbers
<1>3. overlap[j] \/ (worker[j] = "idle" /\ task[j].state # "completed")
  BY <1>1 DEF TypeOK, LateIsAlone
<1>4. /\ status[j] # "absent" /\ task[j].state # "none" /\ ~ creating[j]
      /\ NoStatement.what = "none"
  BY <1>1 DEF TypeOK, NoTaskBefore, NoStatement
<1>5. \/ UNCHANGED <<status[j], pdfKey[j], zpl[j], errorMsg[j]>>
      \/ /\ status'[j] = "processing"
         /\ UNCHANGED <<pdfKey[j], zpl[j], errorMsg[j]>>
      \/ /\ status'[j] = "failed" /\ errorMsg'[j]
         /\ UNCHANGED <<pdfKey[j], zpl[j]>>
      \/ /\ status'[j] = "done" /\ late[j].what = "done"
         /\ UNCHANGED errorMsg[j]
         /\ \/ /\ format[j] = "pdf" /\ pdfKey'[j] = late[j].key
               /\ UNCHANGED zpl[j]
            \/ format[j] = "zpl" /\ zpl'[j] /\ UNCHANGED pdfKey[j]
  BY DEF TypeOK, LateWrite, SetProcessing, SetFailed, SetDone, rowVars
<1>6. \/ objects'[j] = objects[j]
      \/ late[j].what = "object" /\ objects'[j] = objects[j] + 1
  BY DEF TypeOK, LateWrite, PutObject
<1>7. DoneHasOutput'
  <2>1. /\ pdfKey[j] <= objects[j]
        /\ format[j] = "pdf" /\ late[j].what = "done" => HasObject(j, late[j].key)
        /\ status[j] = "done" =>
             IF format[j] = "zpl" THEN zpl[j] ELSE pdfKey[j] > 0
    BY DEF DoneHasOutput, StoreHasObject
  <2>2. /\ pdfKey'[j] <= objects'[j]
        /\ status'[j] = "done" =>
             IF format[j] = "zpl" THEN zpl'[j] ELSE pdfKey'[j] > 0
    BY <1>2, <1>5, <1>6, <2>1 DEF HasObject
  <2> QED BY <1>1, <2>2 DEF callVars, DoneHasOutput
<1>8. CompletedMeansDone' /\ HandlerHoldsTask' /\ AckMeansDone'
  BY <1>1, <1>3 DEF CompletedMeansDone, HandlerHoldsTask, AckMeansDone
<1>9. EndedStreamHasReason' /\ FailedHasReason'
  BY <1>1, <1>5 DEF streamVars, EndedStreamHasReason, FailedHasReason
<1>10. LateIsAlone' /\ ArchivedIsSpent'
  BY <1>1, <1>4 DEF LateIsAlone, ArchivedIsSpent
<1>11. NoTaskBefore'
  BY <1>1, <1>4, <1>5 DEF callVars, NoTaskBefore
<1>12. StoreHasObject'
  <2>1. ASSUME format[j] = "pdf", worker[j] = "store"
        PROVE  HasObject(j, s3Key[j])'
    BY <1>1, <1>2, <1>3, <1>6, <2>1 DEF HasObject, StoreHasObject
  <2> QED BY <1>1, <1>4, <2>1 DEF callVars, StoreHasObject, HasObject
<1>13. ObjectsArePaidFor'
  <2>1. objects'[j] <= objects[j] + (IF late[j].what = "object" THEN 1 ELSE 0)
    BY <1>2, <1>6
  <2>2. objects'[j] \in Nat
    BY <1>2, <1>6
  <2>3. objects'[j] + 0
          <= task[j].retried + outages
               + IF \/ worker[j] \in {"store", "fail", "ack", "nack"}
                    \/ task[j].state \in {"completed", "archived"}
                 THEN 1 ELSE 0
    BY <1>2, <2>1, <2>2 DEF ObjectsArePaidFor
  <2> QED BY <1>1, <1>4, <2>3 DEF ObjectsArePaidFor
<1> QED BY <1>7, <1>8, <1>9, <1>10, <1>11, <1>12, <1>13

(* A client creates a row, CreateJob enqueues its task, or somebody looks  *)
(* at one.                                                                 *)
LEMMA ClientInv ==
  ASSUME IInv, TypeOK', NEW j \in Jobs, Client(j)
  PROVE  IInv'
<1> USE DEF IInv, TypeOK, rowVars, streamVars
<1>1. ASSUME NEW f \in Formats, CreateJob(j, f) PROVE IInv'
  <2>1. /\ task[j].state = "none" /\ task[j].retried = 0
        /\ worker[j] = "idle" /\ late[j].what = "none"
    BY <1>1 DEF CreateJob, HandlerHoldsTask, NoTaskBefore
  <2>2. UNCHANGED <<pdfKey, zpl, errorMsg, objects, task, worker, s3Key, late,
                    stream, seen, outages, overlap>>
    BY <1>1 DEF CreateJob
  <2>3. status' = [status EXCEPT ![j] = "pending"]
    BY <1>1 DEF CreateJob
  <2>4. /\ CompletedMeansDone' /\ EndedStreamHasReason' /\ HandlerHoldsTask'
        /\ AckMeansDone' /\ FailedHasReason'
    BY <2>1, <2>2, <2>3
    DEF CompletedMeansDone, EndedStreamHasReason, HandlerHoldsTask,
        AckMeansDone, FailedHasReason
  <2>5. LateIsAlone' /\ ArchivedIsSpent' /\ ObjectsArePaidFor'
    BY <2>2 DEF LateIsAlone, ArchivedIsSpent, ObjectsArePaidFor
  <2>6. DoneHasOutput' /\ StoreHasObject'
    BY <1>1, <2>1, <2>2, <2>3
    DEF CreateJob, DoneHasOutput, StoreHasObject, HasObject
  <2>7. NoTaskBefore'
    BY <1>1, <2>1, <2>2, <2>3 DEF CreateJob, NoTaskBefore
  <2> QED BY <2>4, <2>5, <2>6, <2>7
<1>2. CASE Enqueue(j)
  <2>1. /\ task[j].state = "none" /\ task[j].retried = 0 /\ worker[j] = "idle"
        /\ status[j] # "absent" /\ late[j].what = "none"
    BY <1>2 DEF Enqueue, HandlerHoldsTask, NoTaskBefore
  <2>2. /\ task'[j].state \in {"pending", "none"} /\ task'[j].retried = 0
        /\ \A k \in Jobs \ {j} : task'[k] = task[k]
    BY <1>2, TaskFields DEF Enqueue
  <2>3. UNCHANGED <<status, pdfKey, zpl, errorMsg, format, objects, worker,
                    s3Key, late, stream, seen, outages, overlap>>
    BY <1>2 DEF Enqueue
  <2>4. /\ CompletedMeansDone' /\ EndedStreamHasReason' /\ HandlerHoldsTask'
        /\ AckMeansDone' /\ FailedHasReason' /\ DoneHasOutput'
        /\ StoreHasObject'
    BY <2>1, <2>2, <2>3
    DEF CompletedMeansDone, EndedStreamHasReason, HandlerHoldsTask,
        AckMeansDone, FailedHasReason, DoneHasOutput, StoreHasObject,
        HasObject
  <2>5. LateIsAlone' /\ ArchivedIsSpent'
    BY <2>1, <2>2, <2>3 DEF LateIsAlone, ArchivedIsSpent
  <2>6. ObjectsArePaidFor'
    BY <2>1, <2>2, <2>3 DEF ObjectsArePaidFor
  <2>7. NoTaskBefore'
    BY <1>2, <2>1, <2>2, <2>3 DEF Enqueue, NoTaskBefore
  <2> QED BY <2>4, <2>5, <2>6, <2>7
<1>3. CASE OpenStream(j) \/ PollStream(j) \/ BreakStream(j)
  <2>1. UNCHANGED <<rowVars, callVars, objects, task, worker, s3Key, late,
                    outages, overlap>>
    BY <1>3 DEF OpenStream, PollStream, BreakStream
  <2>2. EndedStreamHasReason'
    BY <1>3
    DEF OpenStream, PollStream, BreakStream, Terminal, Statuses,
        EndedStreamHasReason, FailedHasReason
  <2> QED
    BY <2>1, <2>2
    DEF callVars, DoneHasOutput, CompletedMeansDone, HandlerHoldsTask,
        AckMeansDone, LateIsAlone, NoTaskBefore, ArchivedIsSpent,
        StoreHasObject, HasObject, FailedHasReason, ObjectsArePaidFor
<1> QED BY <1>1, <1>2, <1>3 DEF Client

(* An outage ends every handler; the object it may just have stored, or be *)
(* about to store, is paid for with the outage itself.                     *)
LEMMA OutageInv ==
  ASSUME IInv, TypeOK', Crash \/ Restart
  PROVE  IInv'
<1> USE DEF IInv
<1>1. /\ UNCHANGED <<rowVars, format, objects, streamVars, overlap>>
      /\ outages' = outages + 1
      /\ \A j \in Jobs :
           /\ worker'[j] = "idle" /\ late'[j] \in LeftBehind(j)
           /\ creating'[j] => creating[j]
           /\ worker[j] \in WorkerStates
  BY DEF TypeOK, Crash, Restart, Outage
<1>2. \A j \in Jobs :
        /\ task'[j].retried = task[j].retried
        /\ \/ task'[j].state = task[j].state
           \/ /\ task'[j].state = "pending" /\ task[j].state = "active"
              /\ worker[j] # "idle"
  BY TaskFields DEF TypeOK, Crash, Restart, HandlerHoldsTask
<1>3. \A j \in Jobs :
        \/ late'[j] = late[j]
        \/ worker[j] # "idle" /\ late'[j].what \in {"none", "processing", "failed"}
        \/ worker[j] = "upload" /\ late'[j].what = "object"
        \/ /\ worker[j] = "store" /\ late'[j].what = "done"
           /\ late'[j].key = s3Key[j]
  BY <1>1, LeftBehindKinds
<1>4. ObjectsArePaidFor'
  <2> SUFFICES ASSUME NEW j \in Jobs
               PROVE  objects[j] + (IF late'[j].what = "object" THEN 1 ELSE 0)
                        <= task[j].retried + outages + 1
    BY <1>1, <1>2, Numbers DEF ObjectsArePaidFor
  <2>1. /\ task[j].retried \in Nat /\ outages \in Nat /\ objects[j] \in Nat
    BY Numbers
  <2>2. worker[j] = "upload" => task[j].state = "active"
    BY DEF HandlerHoldsTask
  <2> QED BY <1>3, <2>1, <2>2 DEF ObjectsArePaidFor
<1>5. DoneHasOutput' /\ EndedStreamHasReason' /\ FailedHasReason'
  BY <1>1 DEF rowVars, streamVars, DoneHasOutput, EndedStreamHasReason,
              FailedHasReason
<1>6. HandlerHoldsTask' /\ AckMeansDone'
  BY <1>1 DEF HandlerHoldsTask, AckMeansDone
<1>7. StoreHasObject'
  BY <1>1, <1>3 DEF rowVars, StoreHasObject, HasObject
<1>8. CompletedMeansDone' /\ ArchivedIsSpent'
  BY <1>1, <1>2 DEF rowVars, CompletedMeansDone, ArchivedIsSpent
<1>9. LateIsAlone'
  <2> SUFFICES ASSUME NEW j \in Jobs, late'[j].what # "none", ~ overlap[j]
               PROVE  task'[j].state \in {"active", "pending", "archived"}
    BY <1>1 DEF LateIsAlone
  <2>1. CASE late'[j] = late[j]
    BY <1>2, <2>1 DEF LateIsAlone
  <2>2. CASE worker[j] # "idle"
    BY <1>2, <2>2 DEF HandlerHoldsTask
  <2> QED BY <1>3, <2>1, <2>2
<1>10. NoTaskBefore'
  <2> SUFFICES ASSUME NEW j \in Jobs
               PROVE  /\ status[j] = "absent" => ~ creating'[j]
                      /\ task'[j].state = "none" =>
                           /\ status[j] \in {"absent", "pending"}
                           /\ late'[j].what = "none"
                      /\ status[j] = "absent" \/ creating'[j] =>
                           task'[j].state = "none" /\ task'[j].retried = 0
    BY <1>1 DEF rowVars, NoTaskBefore
  <2>1. task'[j].state = "none" => late'[j] = late[j]
    BY <1>2, <1>3 DEF HandlerHoldsTask
  <2>2. task'[j].state = "none" <=> task[j].state = "none"
    BY <1>2
  <2> QED BY <1>1, <1>2, <2>1, <2>2 DEF NoTaskBefore
<1> QED BY <1>4, <1>5, <1>6, <1>7, <1>8, <1>9, <1>10

LEMMA NextInv == IInv /\ [Next]_vars => IInv'
<1> SUFFICES ASSUME IInv, [Next]_vars PROVE IInv'
  OBVIOUS
<1>1. TypeOK'
  BY NextType
<1>2. CASE UNCHANGED vars
  BY <1>1, <1>2
  DEF vars, IInv, DoneHasOutput, CompletedMeansDone,
      EndedStreamHasReason, HandlerHoldsTask, AckMeansDone, LateIsAlone,
      NoTaskBefore, ArchivedIsSpent, StoreHasObject, HasObject,
      FailedHasReason, ObjectsArePaidFor
<1>3. CASE Next
  BY <1>1, <1>3, QueueInv, HandlerInv, LateInv, ClientInv, OutageInv DEF Next
<1> QED BY <1>2, <1>3

(* What keeps the jobs, their objects, tasks and streams consistent.       *)
THEOREM SpecInv == Spec => []IInv
<1>1. Init => IInv BY InitInv
<1>2. IInv /\ [Next]_vars => IInv' BY NextInv
<1> QED BY <1>1, <1>2, PTL DEF Spec

-----------------------------------------------------------------------------
(* Safety.                                                                 *)

(* The rows, objects, tasks and streams always have their types; in        *)
(* particular no job ever owns more PDFs than attempts it was granted.     *)
THEOREM TypeCorrect == Spec => []TypeOK
<1>1. IInv => TypeOK BY DEF IInv
<1> QED BY <1>1, SpecInv, PTL

(* A job that shows "done" has its output.                                 *)
THEOREM DoneHasOutputHolds == Spec => []DoneHasOutput
<1>1. IInv => DoneHasOutput BY DEF IInv
<1> QED BY <1>1, SpecInv, PTL

(* A task that asynq counts as done has left a finished job behind, as     *)
(* long as no two deliveries overlap.                                      *)
THEOREM CompletedMeansDoneHolds == Spec => []CompletedMeansDone
<1>1. IInv => CompletedMeansDone BY DEF IInv
<1> QED BY <1>1, SpecInv, PTL

(* A stream that ended by itself reported a failure that has a reason.     *)
THEOREM EndedStreamHasReasonHolds == Spec => []EndedStreamHasReason
<1>1. IInv => EndedStreamHasReason BY DEF IInv
<1> QED BY <1>1, SpecInv, PTL

(* Every PDF in S3 is accounted for by a retry, an outage or the last      *)
(* attempt.                                                                *)
THEOREM ObjectsArePaidForHolds == Spec => []ObjectsArePaidFor
<1>1. IInv => ObjectsArePaidFor BY DEF IInv
<1> QED BY <1>1, SpecInv, PTL

-----------------------------------------------------------------------------
(* Action properties.                                                      *)

(* Only a running handler and a late statement change the row of a job     *)
(* that exists.                                                            *)
LEMMA RowChanges ==
  ASSUME IInv, Next, NEW j \in Jobs, ~ Handler(j), ~ LateWrite(j)
  PROVE  /\ status'[j] = status[j] \/ status[j] = "absent"
         /\ pdfKey'[j] = pdfKey[j]
<1> USE DEF IInv, TypeOK, rowVars
<1>1. ASSUME NEW k \in Jobs, Handler(k) \/ LateWrite(k), k # j
      PROVE  status'[j] = status[j] /\ pdfKey'[j] = pdfKey[j]
  BY <1>1
  DEF Handler, MarkProcessing, Render, Upload, StoreResult, GiveUp,
      LateWrite, SetProcessing, SetFailed, SetDone
<1>2. ASSUME NEW k \in Jobs, Queue(k) \/ WrongServer(k)
      PROVE  status'[j] = status[j] /\ pdfKey'[j] = pdfKey[j]
  BY <1>2
  DEF Queue, Dequeue, Deliver, Ack, Nack, LeaseExpires, WrongServer, MoveTask
<1>3. ASSUME NEW k \in Jobs, Client(k)
      PROVE  /\ status'[j] = status[j] \/ status[j] = "absent"
             /\ pdfKey'[j] = pdfKey[j]
  BY <1>3
  DEF Client, CreateJob, Enqueue, OpenStream, PollStream, BreakStream
<1>4. CASE Crash \/ Restart
  BY <1>4 DEF Crash, Restart, Outage
<1> QED BY <1>1, <1>2, <1>3, <1>4 DEF Next

(* A finished job stays finished once the queue has dropped its task and   *)
(* nothing is late.                                                        *)
THEOREM DoneIsFinalAfterAckHolds == Spec => DoneIsFinalAfterAck
<1> DEFINE Final ==
      \A j \in Jobs :
        task[j].state \in {"completed", "archived"} /\ late[j].what = "none" =>
          (status[j] = "done" => status'[j] = "done")
<1>1. IInv /\ [Next]_vars => [Final]_vars
  <2> SUFFICES ASSUME IInv, Next, NEW j \in Jobs,
                      task[j].state \in {"completed", "archived"},
                      late[j].what = "none", status[j] = "done"
               PROVE  status'[j] = "done"
    OBVIOUS
  <2>1. ~ Handler(j)
    BY DEF IInv, HandlerHoldsTask, Handler, MarkProcessing, Render, Upload,
           GiveUp, StoreResult
  <2>2. ~ LateWrite(j)
    BY DEF LateWrite
  <2> QED BY <2>1, <2>2, RowChanges
<1> QED BY <1>1, SpecInv, PTL DEF Spec, DoneIsFinalAfterAck

(* The PDF of a job is only ever replaced by a newer one, as long as no    *)
(* two deliveries overlap.                                                 *)
THEOREM KeyOnlyAdvancesHolds == Spec => KeyOnlyAdvances
<1> DEFINE Advances == \A j \in Jobs : pdfKey'[j] >= pdfKey[j] \/ overlap[j]
<1>1. IInv /\ [Next]_vars => [Advances]_vars
  <2> SUFFICES ASSUME IInv, Next, NEW j \in Jobs
               PROVE  pdfKey'[j] >= pdfKey[j] \/ overlap[j]
    OBVIOUS
  <2>1. pdfKey[j] \in Nat
    BY Numbers DEF IInv
  <2>2. CASE Handler(j)
    BY <2>1, <2>2
    DEF Handler, MarkProcessing, Render, Upload, StoreResult, GiveUp,
        SetProcessing, SetFailed, SetDone, rowVars, IInv, TypeOK,
        StoreHasObject, HasObject
  <2>3. CASE LateWrite(j)
    BY <2>1, <2>3
    DEF LateWrite, SetProcessing, SetFailed, SetDone, rowVars, IInv, TypeOK,
        StoreHasObject, HasObject
  <2>4. CASE ~ Handler(j) /\ ~ LateWrite(j)
    BY <2>1, <2>4, RowChanges
  <2> QED BY <2>2, <2>3, <2>4
<1> QED BY <1>1, SpecInv, PTL DEF Spec, KeyOnlyAdvances

-----------------------------------------------------------------------------
(* Refinement: row and task are work that is attempted at least once.      *)

(* What the queue's operators do to the phase of a task and its retries.   *)
LEMMA TaskPhases ==
  /\ Phase(NoTask) = "none" /\ NoTask.retried = 0
  /\ Phase(Enqueued) = "owed" /\ Enqueued.retried = 0
  /\ \A t \in Task :
       /\ Phase(Leased(t)) = "owed" /\ Leased(t).retried = t.retried
       /\ Phase(Requeued(t)) = "owed" /\ Requeued(t).retried = t.retried
       /\ Phase(Acked(t)) = "closed" /\ Acked(t).retried = t.retried
       /\ Phase(t) = "owed" <=> t.state \in {"pending", "active"}
       /\ Phase(t) = "none" <=> t.state = "none"
  BY DEF Phase, NoTask, Enqueued, Leased, Acked, Requeued, Task, TaskStates

LEMMA FailedPhase ==
  ASSUME NEW t \in Task
  PROVE  \/ /\ Phase(Failed(t)) = "owed" /\ t.retried < MaxRetry
            /\ Failed(t).retried = t.retried + 1
         \/ /\ Phase(Failed(t)) = "abandoned" /\ t.retried = MaxRetry
            /\ Failed(t).retried = t.retried
  BY MaxRetryAssumption DEF Phase, Failed, Task, TaskStates

(* A late statement keeps archived work owed, and nothing else.            *)
LEMMA WorkPhases ==
  ASSUME NEW t \in Task, NEW s \in LateStatements
  PROVE  /\ t.state # "archived" => WorkPhase(t, s) = Phase(t)
         /\ s.what = "none" => WorkPhase(t, s) = Phase(t)
         /\ s.what # "none" /\ t.state = "archived" => WorkPhase(t, s) = "owed"
  BY DEF WorkPhase

(* The job is done, and taken back, by the handler while the work is owed, *)
(* the queue moves the work on, and only an overlap forfeits it.           *)
THEOREM AttemptsRefinement == Spec => ImplementsAttempts
<1> DEFINE ph == [j \in Jobs |-> WorkPhase(task[j], late[j])]
           rt == [j \in Jobs |-> task[j].retried]
           out == [j \in Jobs |-> Outcome(status[j], overlap[j])]
           Step == Attempted!Next \/ UNCHANGED <<ph, rt, out>>
<1>1. Init => Attempted!Init
  BY TaskPhases DEF Init, NoStatement, Outcome, WorkPhase, Attempted!Init
<1>2. IInv /\ [Next]_vars => [Attempted!Next]_<<ph, rt, out>>
  <2> SUFFICES ASSUME IInv, Next PROVE Step
    BY DEF vars
  <2> USE DEF IInv, TypeOK, Attempted!Becomes, Attempted!MoveTo
  <2>0. TypeOK'
    BY NextType
  <2>1. ASSUME NEW k \in Jobs, Handler(k) PROVE Step
    <3>1. UNCHANGED <<ph, rt, overlap>> /\ ph[k] = "owed"
      <4>1. UNCHANGED <<task, late, overlap>> /\ task[k].state = "active"
        BY <2>1
        DEF Handler, MarkProcessing, Render, Upload, GiveUp, StoreResult,
            HandlerHoldsTask
      <4>2. Phase(task[k]) = "owed"
        BY <4>1, TaskPhases
      <4> QED BY <4>1, <4>2, WorkPhases
    <3>2. out' = [out EXCEPT ![k] = Outcome(status'[k], overlap[k])]
      <4>1. \A j \in Jobs \ {k} : status'[j] = status[j]
        BY <2>1
        DEF Handler, MarkProcessing, Render, Upload, GiveUp, StoreResult,
            SetProcessing, SetFailed, SetDone, rowVars
      <4> QED BY <3>1, <4>1
    <3>3. \/ UNCHANGED out
          \/ /\ out[k] = "missing"
             /\ out' = [out EXCEPT ![k] = "there"]
          \/ /\ out[k] = "there"
             /\ out' = [out EXCEPT ![k] = "missing"]
      <4>1. \/ Outcome(status'[k], overlap[k]) = out[k]
            \/ /\ Outcome(status'[k], overlap[k]) \in {"missing", "there"}
               /\ out[k] \in {"missing", "there"}
        BY DEF Outcome
      <4>2. CASE Outcome(status'[k], overlap[k]) = out[k]
        BY <3>2, <4>2
      <4> QED BY <3>2, <4>1, <4>2
    <3>4. \/ UNCHANGED <<ph, rt, out>>
          \/ Attempted!Produce(k) \/ Attempted!Redo(k)
      BY <3>1, <3>3 DEF Attempted!Produce, Attempted!Redo
    <3> QED BY <3>4 DEF Attempted!Next
  <2>2. ASSUME NEW k \in Jobs, LateWrite(k) PROVE Step
    <3>1. /\ UNCHANGED <<task, overlap>>
          /\ late' = [late EXCEPT ![k] = NoStatement]
          /\ late[k].what # "none" /\ NoStatement.what = "none"
          /\ \A j \in Jobs \ {k} : status'[j] = status[j]
      BY <2>2
      DEF LateWrite, SetProcessing, SetFailed, SetDone, rowVars, NoStatement
    <3>2. UNCHANGED rt
      BY <3>1
    <3>3. \/ UNCHANGED out
          \/ /\ ~ overlap[k]
             /\ out[k] \in {"missing", "there"}
             /\ \E o \in {"missing", "there"} : out' = [out EXCEPT ![k] = o]
      BY <3>1 DEF Outcome
    <3>4. CASE task[k].state = "archived"
      <4>1. ph[k] = "owed" /\ ph' = [ph EXCEPT ![k] = "abandoned"]
        <5>1. Phase(task[k]) = "abandoned"
          BY <3>4 DEF Phase
        <5>2. WorkPhase(task[k], late[k]) = "owed"
          BY <3>1, <3>4, WorkPhases
        <5>3. late'[k] = NoStatement /\ late'[k] \in LateStatements
          BY <2>0, <3>1
        <5>4. WorkPhase(task'[k], late'[k]) = "abandoned"
          BY <3>1, <5>1, <5>3, WorkPhases
        <5> QED BY <3>1, <5>2, <5>4
      <4>2. rt[k] = MaxRetry
        BY <3>4 DEF ArchivedIsSpent
      <4>3. Attempted!Abandon(k)
        BY <3>2, <3>3, <4>1, <4>2 DEF Attempted!Abandon
      <4> QED BY <4>3 DEF Attempted!Next
    <3>5. CASE task[k].state # "archived"
      <4>1. UNCHANGED ph
        <5>1. ph'[k] = ph[k]
          BY <2>0, <3>1, <3>5, WorkPhases
        <5> QED BY <3>1, <5>1
      <4>2. CASE UNCHANGED out
        BY <3>2, <4>1, <4>2
      <4>3. CASE ~ UNCHANGED out
        <5>1. ~ overlap[k] /\ task[k].state \in {"active", "pending"}
          BY <3>1, <3>3, <3>5, <4>3 DEF LateIsAlone
        <5>2. ph[k] = "owed"
          BY <5>1, WorkPhases, TaskPhases
        <5>3. PICK o \in {"missing", "there"} : out' = [out EXCEPT ![k] = o]
          BY <3>3, <4>3
        <5>4. out[k] \in {"missing", "there"}
          BY <3>3, <4>3
        <5>5. CASE out[k] = o
          BY <3>2, <4>1, <5>3, <5>5
        <5>6. CASE out[k] # o
          <6>1. Attempted!Produce(k) \/ Attempted!Redo(k)
            BY <3>2, <4>1, <5>2, <5>3, <5>4, <5>6
            DEF Attempted!Produce, Attempted!Redo
          <6> QED BY <6>1 DEF Attempted!Next
        <5> QED BY <5>5, <5>6
      <4> QED BY <4>2, <4>3
    <3> QED BY <3>4, <3>5
  <2>3. ASSUME NEW k \in Jobs, Dequeue(k) PROVE Step
    <3>1. /\ UNCHANGED <<status, late>> /\ task[k].state = "pending"
          /\ task' = [task EXCEPT ![k] = Leased(task[k])]
          /\ overlap' = [overlap EXCEPT ![k] = overlap'[k]]
          /\ overlap[k] => overlap'[k]
      BY <2>3 DEF Dequeue, Deliver, MoveTask, rowVars
    <3>2. UNCHANGED <<ph, rt>> /\ ph[k] = "owed"
      <4>1. task'[k] = Leased(task[k]) /\ task'[k] \in Task
        BY <2>0, <3>1
      <4>2. task'[k].state = "active" /\ task'[k].retried = task[k].retried
        BY <4>1, TaskFields
      <4>3. Phase(task[k]) = "owed" /\ Phase(task'[k]) = "owed"
        BY <3>1, <4>1, TaskPhases
      <4>4. /\ WorkPhase(task[k], late[k]) = "owed"
            /\ WorkPhase(task'[k], late'[k]) = "owed"
        BY <3>1, <4>1, <4>2, <4>3, WorkPhases
      <4> QED BY <3>1, <4>2, <4>4
    <3>3. CASE overlap'[k] = overlap[k]
      BY <3>1, <3>2, <3>3
    <3>4. CASE ~ overlap[k] /\ overlap'[k]
      <4>1. out[k] # "forfeited" /\ out' = [out EXCEPT ![k] = "forfeited"]
        <5>1. out[k] # "forfeited"
          BY <3>4 DEF Outcome
        <5>2. Outcome(status'[k], overlap'[k]) = "forfeited"
          BY <3>4 DEF Outcome
        <5>3. \A j \in Jobs \ {k} :
                Outcome(status'[j], overlap'[j]) = Outcome(status[j], overlap[j])
          BY <3>1
        <5>4. out' = [j \in Jobs |-> IF j = k THEN "forfeited"
                                     ELSE Outcome(status[j], overlap[j])]
          BY <5>2, <5>3
        <5> QED BY <5>1, <5>4
      <4>2. Attempted!Forfeit(k)
        BY <3>2, <4>1 DEF Attempted!Forfeit
      <4> QED BY <4>2 DEF Attempted!Next
    <3>5. overlap[k] \in BOOLEAN /\ overlap'[k] \in BOOLEAN
      BY <2>0
    <3> QED BY <3>1, <3>3, <3>4, <3>5
  <2>4. ASSUME NEW k \in Jobs, Ack(k) PROVE Step
    <3>1. /\ UNCHANGED <<status, late, overlap>> /\ task[k].state = "active"
          /\ task' = [task EXCEPT ![k] = Acked(task[k])]
      BY <2>4 DEF Ack, MoveTask, rowVars, HandlerHoldsTask
    <3>2. UNCHANGED out /\ out[k] # "missing"
      BY <2>4, <3>1 DEF Ack, AckMeansDone, Outcome
    <3>3. /\ WorkPhase(task[k], late[k]) = "owed"
          /\ WorkPhase(task'[k], late'[k]) = "closed"
          /\ task'[k].retried = task[k].retried
      <4>1. task'[k] = Acked(task[k]) /\ task'[k] \in Task
        BY <2>0, <3>1
      <4>2. task'[k].state = "completed" /\ task'[k].retried = task[k].retried
        BY <4>1, TaskFields
      <4>3. Phase(task[k]) = "owed" /\ Phase(task'[k]) = "closed"
        BY <3>1, <4>1, TaskPhases
      <4> QED BY <3>1, <4>1, <4>2, <4>3, WorkPhases
    <3>4. /\ ph[k] = "owed" /\ ph' = [ph EXCEPT ![k] = "closed"]
          /\ UNCHANGED rt
      BY <3>1, <3>3
    <3>5. Attempted!Close(k)
      BY <3>2, <3>4 DEF Attempted!Close
    <3> QED BY <3>5 DEF Attempted!Next
  <2>5. ASSUME NEW k \in Jobs, Nack(k) \/ LeaseExpires(k) \/ WrongServer(k)
        PROVE  Step
    <3>1. /\ UNCHANGED <<status, overlap>>
          /\ task[k].state \in {"pending", "active"}
          /\ task' = [task EXCEPT ![k] = Failed(task[k])]
          /\ \A j \in Jobs \ {k} : late'[j] = late[j]
      BY <2>5
      DEF Nack, LeaseExpires, WrongServer, MoveTask, rowVars, HandlerHoldsTask
    <3>2. UNCHANGED out
      BY <3>1
    <3>3. /\ WorkPhase(task[k], late[k]) = "owed"
          /\ task[k] \in Task /\ late'[k] \in LateStatements
          /\ task'[k] \in Task /\ task'[k] = Failed(task[k])
      BY <2>0, <3>1, TaskPhases, WorkPhases
    <3>4. \/ /\ task[k].retried < MaxRetry
             /\ WorkPhase(task'[k], late'[k]) = "owed"
             /\ task'[k].retried = task[k].retried + 1
          \/ /\ task[k].retried = MaxRetry
             /\ WorkPhase(task'[k], late'[k]) \in {"owed", "abandoned"}
             /\ task'[k].retried = task[k].retried
      <4>1. \/ /\ Phase(task'[k]) = "owed" /\ task[k].retried < MaxRetry
               /\ task'[k].retried = task[k].retried + 1
            \/ /\ Phase(task'[k]) = "abandoned" /\ task[k].retried = MaxRetry
               /\ task'[k].retried = task[k].retried
        BY <3>3, FailedPhase
      <4>2. Phase(task'[k]) = "owed" => WorkPhase(task'[k], late'[k]) = "owed"
        BY <3>3 DEF WorkPhase
      <4>3. Phase(task'[k]) = "abandoned"
              => WorkPhase(task'[k], late'[k]) \in {"owed", "abandoned"}
        BY <3>3 DEF WorkPhase
      <4> QED BY <4>1, <4>2, <4>3, Zenon
    <3>5. CASE task'[k].retried = task[k].retried + 1
      <4>1. /\ task[k].retried < MaxRetry
            /\ WorkPhase(task'[k], late'[k]) = WorkPhase(task[k], late[k])
        BY <3>3, <3>4, <3>5 DEF Task
      <4>2. UNCHANGED ph /\ rt' = [rt EXCEPT ![k] = rt[k] + 1]
        BY <3>1, <3>5, <4>1
      <4>3. ph[k] = "owed" /\ rt[k] < MaxRetry
        BY <3>3, <4>1
      <4>4. Attempted!Retry(k)
        BY <3>2, <4>2, <4>3 DEF Attempted!Retry
      <4> QED BY <4>4 DEF Attempted!Next
    <3>6. CASE task'[k].retried = task[k].retried /\ task[k].retried = MaxRetry
      <4>1. UNCHANGED rt
        BY <3>1, <3>6
      <4>2. UNCHANGED ph \/ ph' = [ph EXCEPT ![k] = "abandoned"]
        BY <3>1, <3>3, <3>4, <3>6
      <4>3. UNCHANGED ph \/ Attempted!Abandon(k)
        BY <3>2, <3>3, <3>6, <4>1, <4>2 DEF Attempted!Abandon
      <4> QED BY <3>2, <4>1, <4>3 DEF Attempted!Next
    <3> QED BY <3>4, <3>5, <3>6
  <2>6. ASSUME NEW k \in Jobs, Enqueue(k) PROVE Step
    <3>1. /\ UNCHANGED <<status, late, overlap>>
          /\ task[k].state = "none" /\ task[k].retried = 0
      BY <2>6 DEF Enqueue, rowVars, NoTaskBefore
    <3>2. PICK t \in {Enqueued, NoTask} : task' = [task EXCEPT ![k] = t]
      BY <2>6 DEF Enqueue
    <3>3. UNCHANGED out /\ out[k] # "there"
      BY <2>6, <3>1 DEF Outcome, NoTaskBefore
    <3>4. /\ WorkPhase(task[k], late[k]) = "none"
          /\ WorkPhase(task'[k], late'[k]) \in {"none", "owed"}
          /\ task'[k].retried = task[k].retried
      BY <2>0, <3>1, <3>2, TaskPhases, WorkPhases DEF NoTask, Enqueued
    <3>5. /\ ph[k] = "none" /\ UNCHANGED rt
          /\ UNCHANGED ph \/ ph' = [ph EXCEPT ![k] = "owed"]
      BY <3>1, <3>2, <3>4
    <3>6. Attempted!Submit(k) \/ UNCHANGED <<ph, rt, out>>
      BY <3>3, <3>5 DEF Attempted!Submit
    <3> QED BY <3>6 DEF Attempted!Next
  <2>7. ASSUME NEW k \in Jobs,
               \/ \E f \in Formats : CreateJob(k, f)
               \/ OpenStream(k) \/ PollStream(k) \/ BreakStream(k)
        PROVE  UNCHANGED <<ph, rt, out>>
    <3>1. UNCHANGED <<task, late, overlap>>
      BY <2>7 DEF CreateJob, OpenStream, PollStream, BreakStream
    <3>2. \A j \in Jobs : \/ status'[j] = status[j]
                          \/ status[j] = "absent" /\ status'[j] = "pending"
      BY <2>7 DEF CreateJob, OpenStream, PollStream, BreakStream, rowVars
    <3> QED BY <3>1, <3>2 DEF Outcome
  <2>8. CASE Crash \/ Restart
    <3>1. /\ UNCHANGED <<status, overlap>>
          /\ \A j \in Jobs :
               \/ /\ task'[j] = task[j]
                  /\ late'[j] = late[j] \/ worker[j] # "idle"
               \/ worker[j] # "idle" /\ task'[j] = Requeued(task[j])
      BY <2>8 DEF Crash, Restart, Outage, rowVars, LeftBehind, InFlight
    <3>2. ASSUME NEW j \in Jobs
          PROVE  /\ WorkPhase(task'[j], late'[j]) = WorkPhase(task[j], late[j])
                 /\ task'[j].retried = task[j].retried
      <4>1. CASE task'[j] = task[j] /\ late'[j] = late[j]
        BY <4>1
      <4>2. CASE worker[j] # "idle"
        <5>1. task[j].state = "active"
          BY <4>2 DEF HandlerHoldsTask
        <5>2. /\ task'[j].state \in {"active", "pending"}
              /\ task'[j].retried = task[j].retried
          BY <3>1, <5>1, TaskFields
        <5> QED BY <2>0, <5>1, <5>2, TaskPhases, WorkPhases
      <4> QED BY <3>1, <4>1, <4>2
    <3> QED BY <3>1, <3>2
  <2> QED
    BY <2>1, <2>2, <2>3, <2>4, <2>5, <2>6, <2>7, <2>8 DEF Next, Client, Queue
<1> QED
  BY <1>1, <1>2, SpecInv, PTL
  DEF Spec, ImplementsAttempts, Attempted!Spec, Attempted!workVars

-----------------------------------------------------------------------------
(* Termination: what the liveness property needs besides fairness.         *)

(* How many steps of the queue and the handler an attempt may still take.  *)
PositionsLeft(pc) ==
  CASE pc = "mark" -> 5 [] pc = "render" -> 4 [] pc = "upload" -> 3
    [] pc \in {"store", "fail"} -> 2 [] pc \in {"ack", "nack", "idle"} -> 1

StepsLeft(j) ==
  CASE task[j].state = "pending" -> 6
    [] task[j].state \in {"none", "completed", "archived"} -> 0
    [] task[j].state = "active" -> PositionsLeft(worker[j])

(* Each retry and each outage buys at most one attempt more.               *)
Rank(j) ==
  7 * ((MaxRetry - task[j].retried) + (MaxOutages - outages))
    + StepsLeft(j)

LEMMA StepsLeftType ==
  ASSUME TypeOK, NEW j \in Jobs
  PROVE  /\ StepsLeft(j) \in 0..6
         /\ task[j].state = "active" => StepsLeft(j) \in 1..5
         /\ task[j].state \in {"pending", "active"} <=> StepsLeft(j) > 0
  BY DEF TypeOK, Task, TaskStates, WorkerStates, StepsLeft, PositionsLeft

LEMMA StepsLeftAfter ==
  ASSUME TypeOK', NEW j \in Jobs
  PROVE  StepsLeft(j)' \in 0..6
  BY DEF TypeOK, Task, TaskStates, WorkerStates, StepsLeft, PositionsLeft

(* What is left of the work on a job never grows, and each step of the    *)
(* queue and of the handler lowers it: redeliveries, failures and outages  *)
(* never keep a job busy for ever.                                         *)
AttemptsRunOut ==
  [][\A j \in Jobs :
       task[j].state # "none" =>
         /\ Rank(j) \in Nat /\ Rank(j)' <= Rank(j)
         /\ Queue(j) \/ WrongServer(j) \/ Handler(j)
              => Rank(j)' < Rank(j)]_vars

(* One step of the queue, of a wrong server or of the handler of j.        *)
LEMMA OwnStepLowers ==
  ASSUME IInv, TypeOK', NEW j \in Jobs,
         Queue(j) \/ WrongServer(j) \/ Handler(j)
  PROVE  Rank(j)' < Rank(j)
<1> USE DEF IInv
<1>1. /\ task[j] \in Task /\ task'[j] \in Task /\ outages' = outages
      /\ outages \in Nat /\ MaxOutages \in Nat /\ MaxRetry \in Nat
      /\ task[j].retried \in Nat /\ task'[j].retried \in Nat
  BY PrintAssumption, MaxRetryAssumption
  DEF TypeOK, Task, Queue, Dequeue, Deliver, Ack, Nack, LeaseExpires, WrongServer,
      MoveTask, Handler, MarkProcessing, Render, Upload, GiveUp, StoreResult
<1>2. /\ StepsLeft(j) \in 0..6 /\ StepsLeft(j)' \in 0..6
      /\ task[j].state = "active" => StepsLeft(j) \in 1..5
      /\ task[j].state \in {"pending", "active"} => StepsLeft(j) > 0
  BY StepsLeftType, StepsLeftAfter
<1>3. CASE Dequeue(j)
  <2>1. /\ task[j].state = "pending" /\ task'[j].state = "active"
        /\ task'[j].retried = task[j].retried /\ worker'[j] = "mark"
    BY <1>1, <1>3, TaskFields DEF Dequeue, Deliver, MoveTask, TypeOK
  <2>2. StepsLeft(j) = 6 /\ StepsLeft(j)' = 5
    BY <2>1 DEF StepsLeft, PositionsLeft
  <2> QED BY <1>1, <2>1, <2>2 DEF Rank
<1>4. CASE Ack(j)
  <2>1. /\ task[j].state = "active" /\ task'[j].state = "completed"
        /\ task'[j].retried = task[j].retried
    BY <1>1, <1>4, TaskFields DEF Ack, MoveTask, TypeOK, HandlerHoldsTask
  <2>2. StepsLeft(j)' = 0
    BY <2>1 DEF StepsLeft
  <2> QED BY <1>1, <1>2, <2>1, <2>2 DEF Rank
<1>5. CASE Nack(j) \/ LeaseExpires(j) \/ WrongServer(j)
  <2>1. /\ task[j].state \in {"pending", "active"}
        /\ task'[j] = Failed(task[j])
    BY <1>5 DEF Nack, LeaseExpires, WrongServer, MoveTask, TypeOK,
                HandlerHoldsTask
  <2>2. \/ task'[j].retried = task[j].retried + 1
        \/ /\ task'[j].state = "archived"
           /\ task'[j].retried = task[j].retried
    BY <1>1, <2>1, FailedFields
  <2>3. task'[j].state = "archived" => StepsLeft(j)' = 0
    BY DEF StepsLeft
  <2> QED BY <1>1, <1>2, <2>1, <2>2, <2>3 DEF Rank
<1>6. CASE Handler(j)
  <2>1. /\ task[j].state = "active" /\ task'[j] = task[j]
    BY <1>6 DEF Handler, MarkProcessing, Render, Upload, GiveUp, StoreResult,
                HandlerHoldsTask
  <2>2. PositionsLeft(worker'[j]) < PositionsLeft(worker[j])
    BY <1>6
    DEF TypeOK, Handler, MarkProcessing, Render, Upload, GiveUp, StoreResult,
        Goto, PositionsLeft
  <2>3. /\ StepsLeft(j) = PositionsLeft(worker[j])
        /\ StepsLeft(j)' = PositionsLeft(worker'[j])
    BY <2>1 DEF StepsLeft
  <2> QED BY <1>1, <1>2, <2>1, <2>2, <2>3 DEF Rank
<1> QED BY <1>3, <1>4, <1>5, <1>6 DEF Queue

(* An outage is paid for.                                                  *)
LEMMA OutageLowers ==
  ASSUME IInv, TypeOK', NEW j \in Jobs, Crash \/ Restart
  PROVE  Rank(j)' < Rank(j)
<1> USE DEF IInv
<1>1. /\ task[j] \in Task /\ outages \in Nat /\ MaxOutages \in Nat
      /\ MaxRetry \in Nat /\ task[j].retried \in Nat
  BY PrintAssumption, MaxRetryAssumption DEF TypeOK, Task
<1>2. outages' = outages + 1 /\ task'[j].retried = task[j].retried
  <2>1. outages' = outages + 1 /\ task'[j] \in {task[j], Requeued(task[j])}
    BY DEF Crash, Restart, Outage, TypeOK
  <2> QED BY <1>1, <2>1, TaskFields
<1>3. StepsLeft(j) \in 0..6 /\ StepsLeft(j)' \in 0..6
  BY StepsLeftType, StepsLeftAfter
<1> QED BY <1>1, <1>2, <1>3 DEF Rank

(* Whatever fails, and however often the process dies within its bound,    *)
(* only finitely many steps of the queue and the handler are ever taken.   *)
THEOREM AttemptsRunOutHolds == Spec => AttemptsRunOut
<1> DEFINE RunsOut ==
      \A j \in Jobs :
        task[j].state # "none" =>
          /\ Rank(j) \in Nat /\ Rank(j)' <= Rank(j)
          /\ Queue(j) \/ WrongServer(j) \/ Handler(j)
               => Rank(j)' < Rank(j)
<1>1. IInv /\ [Next]_vars => [RunsOut]_vars
  <2> SUFFICES ASSUME IInv, Next, NEW j \in Jobs, task[j].state # "none"
               PROVE  /\ Rank(j) \in Nat /\ Rank(j)' <= Rank(j)
                      /\ Queue(j) \/ WrongServer(j) \/ Handler(j)
                           => Rank(j)' < Rank(j)
    OBVIOUS
  <2>1. TypeOK /\ TypeOK'
    BY NextInv DEF IInv
  <2>2. Rank(j) \in Nat /\ Rank(j)' \in Nat
    <3>1. /\ MaxRetry \in Nat /\ MaxOutages \in Nat
          /\ outages \in 0..MaxOutages /\ outages' \in 0..MaxOutages
          /\ task[j].retried \in 0..MaxRetry
          /\ task'[j].retried \in 0..MaxRetry
      BY <2>1, PrintAssumption, MaxRetryAssumption DEF TypeOK, Task
    <3>2. StepsLeft(j) \in Nat /\ StepsLeft(j)' \in Nat
      BY <2>1, StepsLeftType, StepsLeftAfter
    <3> QED BY <3>1, <3>2 DEF Rank
  <2>3. CASE Queue(j) \/ WrongServer(j) \/ Handler(j)
    BY <2>1, <2>2, <2>3, OwnStepLowers
  <2>4. CASE Crash \/ Restart
    BY <2>1, <2>2, <2>4, OutageLowers, OwnStepLowers
  <2>5. ASSUME NEW k \in Jobs, k # j,
               Queue(k) \/ WrongServer(k) \/ Handler(k)
        PROVE  UNCHANGED <<task[j], worker[j], outages>>
    BY <2>1, <2>5
    DEF TypeOK, Queue, Dequeue, Deliver, Ack, Nack, LeaseExpires, WrongServer,
        MoveTask, Handler, MarkProcessing, Render, Upload, GiveUp, StoreResult,
        Goto
  <2>6. ASSUME NEW k \in Jobs, Client(k) \/ LateWrite(k)
        PROVE  UNCHANGED <<task[j], worker[j], outages>>
    BY <2>1, <2>6
    DEF TypeOK, Client, CreateJob, Enqueue, OpenStream, PollStream,
        BreakStream, LateWrite, IInv, NoTaskBefore
  <2>7. UNCHANGED <<task[j], worker[j], outages>> => Rank(j)' = Rank(j)
    BY DEF Rank, StepsLeft
  <2> QED BY <2>2, <2>3, <2>4, <2>5, <2>6, <2>7 DEF Next
<1> QED BY <1>1, SpecInv, PTL DEF Spec, AttemptsRunOut

=============================================================================
