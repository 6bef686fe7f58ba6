------------------------------ MODULE PrintJob ------------------------------
(***************************************************************************)
(* print-svc: the rows of print_jobs, the print:pdf task of each row, the  *)
(* asynq handler that renders a PDF into S3 or ZPL into the row, and the   *)
(* status stream of the api-gateway that polls the row for a client.       *)
(*                                                                         *)
(* Every step is one statement on the database, S3 or Redis; other steps   *)
(* and crashes happen between any two of them.                             *)
(***************************************************************************)
EXTENDS AsynqTask

CONSTANTS
  Jobs,       \* print job ids
  MaxOutages  \* bound on crashes and restarts of print-svc

ASSUME PrintAssumption == MaxOutages \in Nat

VARIABLES
  status,    \* print_jobs.status, "absent" before INSERT
  format,    \* print_jobs.format
  pdfKey,    \* print_jobs.pdf_s3_key: which of the job's objects, 0 for NULL
  zpl,       \* print_jobs.zpl_payload IS NOT NULL
  errorMsg,  \* print_jobs.error_msg IS NOT NULL
  creating,  \* a CreateJob call has inserted the row and not enqueued yet
  objects,   \* how many PDFs of the job are in S3, each under its own key
  task,      \* the job's print:pdf task
  worker,    \* where the handler of that task is
  s3Key,     \* the key under which that handler has stored its PDF, or 0
  late,      \* a statement of a handler given up, not carried out yet
  stream,    \* a client's status stream in the api-gateway
  seen,      \* the last status that stream sent
  outages,   \* crashes and restarts so far
  overlap    \* history: a delivery began while a statement was late

vars == <<status, format, pdfKey, zpl, errorMsg, creating, objects, task,
          worker, s3Key, late, stream, seen, outages, overlap>>

rowVars    == <<status, pdfKey, zpl, errorMsg>>
callVars   == <<format, creating>>
streamVars == <<stream, seen>>

-----------------------------------------------------------------------------
Statuses == {"absent", "pending", "processing", "done", "failed"}

Formats == {"pdf", "zpl"}

WorkerStates ==
  {"idle", "mark", "render", "upload", "store", "fail", "ack", "nack"}

StreamStates == {"none", "open", "ended", "broken"}

(* A delivery uploads at most one object, and only a counted failure or an *)
(* outage leads to another delivery.                                       *)
MaxObjects == MaxRetry + 1 + MaxOutages

(* What a handler given up may still have done: nothing, one of the        *)
(* UPDATEs of the row, or the PUT of an object.                            *)
LateStatements ==
  [what : {"none", "processing", "failed", "done", "object"},
   key  : 0..MaxObjects]

NoStatement == [what |-> "none", key |-> 0]

TypeOK ==
  /\ status \in [Jobs -> Statuses]
  /\ format \in [Jobs -> Formats]
  /\ pdfKey \in [Jobs -> 0..MaxObjects]
  /\ zpl \in [Jobs -> BOOLEAN]
  /\ errorMsg \in [Jobs -> BOOLEAN]
  /\ creating \in [Jobs -> BOOLEAN]
  /\ objects \in [Jobs -> 0..MaxObjects]
  /\ task \in [Jobs -> Task]
  /\ worker \in [Jobs -> WorkerStates]
  /\ s3Key \in [Jobs -> 0..MaxObjects]
  /\ late \in [Jobs -> LateStatements]
  /\ stream \in [Jobs -> StreamStates]
  /\ seen \in [Jobs -> Statuses]
  /\ outages \in 0..MaxOutages
  /\ overlap \in [Jobs -> BOOLEAN]

Init ==
  /\ status = [j \in Jobs |-> "absent"]
  /\ format = [j \in Jobs |-> "pdf"]
  /\ pdfKey = [j \in Jobs |-> 0]
  /\ zpl = [j \in Jobs |-> FALSE]
  /\ errorMsg = [j \in Jobs |-> FALSE]
  /\ creating = [j \in Jobs |-> FALSE]
  /\ objects = [j \in Jobs |-> 0]
  /\ task = [j \in Jobs |-> NoTask]
  /\ worker = [j \in Jobs |-> "idle"]
  /\ s3Key = [j \in Jobs |-> 0]
  /\ late = [j \in Jobs |-> NoStatement]
  /\ stream = [j \in Jobs |-> "none"]
  /\ seen = [j \in Jobs |-> "absent"]
  /\ outages = 0
  /\ overlap = [j \in Jobs |-> FALSE]

-----------------------------------------------------------------------------
(* CreateJob: INSERT the row, then enqueue the task.                       *)

CreateJob(j, f) ==
  /\ status[j] = "absent"
  /\ status' = [status EXCEPT ![j] = "pending"]
  /\ format' = [format EXCEPT ![j] = f]
  /\ creating' = [creating EXCEPT ![j] = TRUE]
  /\ UNCHANGED <<pdfKey, zpl, errorMsg, objects, task, worker, s3Key, late,
                 streamVars, outages, overlap>>

(* A failed enqueue is only logged.                                        *)
Enqueue(j) ==
  /\ creating[j]
  /\ creating' = [creating EXCEPT ![j] = FALSE]
  /\ \E t \in {Enqueued, NoTask} : task' = [task EXCEPT ![j] = t]
  /\ UNCHANGED <<rowVars, format, objects, worker, s3Key, late, streamVars,
                 outages, overlap>>

-----------------------------------------------------------------------------
(* The queue; asynq delivers, retries and recovers as it does for labels.  *)

MoveTask(j, t, pc) ==
  /\ task' = [task EXCEPT ![j] = t]
  /\ worker' = [worker EXCEPT ![j] = pc]
  /\ s3Key' = [s3Key EXCEPT ![j] = 0]
  /\ UNCHANGED <<rowVars, callVars, objects, streamVars, outages>>

Deliver(j, t) ==
  /\ task[j].state = "pending"
  /\ MoveTask(j, t, "mark")
  /\ overlap' = [overlap EXCEPT ![j] = @ \/ late[j].what # "none"]
  /\ UNCHANGED late

(* A mutant: the task is acknowledged when it is delivered.                *)
DequeueAcked(j) == Deliver(j, Acked(task[j]))

Dequeue(j) == Deliver(j, Leased(task[j]))

(* label-svc and notification-svc serve the same queue and have no handler *)
(* for print:pdf.                                                          *)
WrongServer(j) ==
  /\ task[j].state = "pending"
  /\ MoveTask(j, Failed(task[j]), worker[j])
  /\ UNCHANGED <<late, overlap>>

Ack(j) ==
  /\ worker[j] = "ack"
  /\ MoveTask(j, Acked(task[j]), "idle")
  /\ UNCHANGED <<late, overlap>>

Nack(j) ==
  /\ worker[j] = "nack"
  /\ MoveTask(j, Failed(task[j]), "idle")
  /\ UNCHANGED <<late, overlap>>

(* What a handler may be executing at a position of its own.               *)
InFlight(pc, k) ==
  CASE pc = "mark"   -> {NoStatement, [what |-> "processing", key |-> 0]}
    [] pc = "upload" -> {NoStatement, [what |-> "object", key |-> 0]}
    [] pc = "store"  -> {NoStatement, [what |-> "done", key |-> k]}
    [] pc = "fail"   -> {NoStatement, [what |-> "failed", key |-> 0]}
    [] OTHER         -> {}

(* What may be outstanding after the handler is given up, with its context *)
(* cancelled or its process dead.  Of two such statements about one job,   *)
(* only one is followed.                                                   *)
LeftBehind(j) == {late[j]} \union InFlight(worker[j], s3Key[j])

(* A mutant: the recoverer overlooks a task that has no retry left.        *)
LeaseLostOnLast(j) ==
  /\ task[j].state = "active" /\ task[j].retried < MaxRetry
  /\ MoveTask(j, Failed(task[j]), "idle")
  /\ \E s \in LeftBehind(j) : late' = [late EXCEPT ![j] = s]
  /\ UNCHANGED overlap

(* The worker of a task died, or lost its lease or ran out of its deadline *)
(* with the handler still at work.                                         *)
LeaseExpires(j) ==
  /\ task[j].state = "active"
  /\ MoveTask(j, Failed(task[j]), "idle")
  /\ \E s \in LeftBehind(j) : late' = [late EXCEPT ![j] = s]
  /\ UNCHANGED overlap

(* Every handler goes.                                                     *)
Outage ==
  /\ outages < MaxOutages
  /\ outages' = outages + 1
  /\ worker' = [j \in Jobs |-> "idle"]
  /\ s3Key' = [j \in Jobs |-> 0]
  /\ late' \in [Jobs -> LateStatements]
  /\ \A j \in Jobs : late'[j] \in LeftBehind(j)
  /\ UNCHANGED <<rowVars, format, objects, streamVars, overlap>>

(* The process dies, in a CreateJob too.                                   *)
Crash ==
  /\ Outage
  /\ creating' = [j \in Jobs |-> FALSE]
  /\ UNCHANGED task

(* SIGTERM: asynq requeues what still runs after its grace period; HTTP    *)
(* lets its calls finish.                                                  *)
Restart ==
  /\ Outage
  /\ task' = [j \in Jobs |-> IF worker[j] = "idle" THEN task[j]
                             ELSE Requeued(task[j])]
  /\ UNCHANGED creating

-----------------------------------------------------------------------------
(* ProcessPDF, the handler.  A statement that returns an error may have    *)
(* taken effect or not.                                                    *)

Goto(j, pc) == worker' = [worker EXCEPT ![j] = pc]

(* A mutant: a failed job loses its PDF.                                   *)
SetFailedClearsKey(j) ==
  /\ status' = [status EXCEPT ![j] = "failed"]
  /\ errorMsg' = [errorMsg EXCEPT ![j] = TRUE]
  /\ pdfKey' = [pdfKey EXCEPT ![j] = 0]
  /\ UNCHANGED zpl

(* SetFailed; nothing ever clears error_msg.                               *)
SetFailed(j) ==
  /\ status' = [status EXCEPT ![j] = "failed"]
  /\ errorMsg' = [errorMsg EXCEPT ![j] = TRUE]
  /\ UNCHANGED <<pdfKey, zpl>>

(* SetProcessing: an error is only logged.                                 *)
SetProcessing(j) ==
  /\ status' = [status EXCEPT ![j] = "processing"]
  /\ UNCHANGED <<pdfKey, zpl, errorMsg>>

MarkProcessing(j) ==
  /\ worker[j] = "mark"
  /\ Goto(j, "render")
  /\ SetProcessing(j) \/ UNCHANGED rowVars
  /\ UNCHANGED <<callVars, objects, task, s3Key, late, streamVars, outages,
                 overlap>>

(* Neither generator fails: pdf.Generate's only error is a font below the  *)
(* legal size, and the sizes it uses are constants above it.               *)
Render(j) ==
  /\ worker[j] = "render"
  /\ \/ format[j] = "zpl" /\ Goto(j, "store")
     \/ format[j] = "pdf" /\ Goto(j, "upload")
  /\ UNCHANGED <<rowVars, callVars, objects, task, s3Key, late, streamVars,
                 outages, overlap>>

(* The PUT: a new object every time, under a key with the nanosecond of    *)
(* the attempt.                                                            *)
PutObject(j) == objects' = [objects EXCEPT ![j] = @ + 1]

(* A mutant: the result of the upload is not looked at.                    *)
UploadUnchecked(j) ==
  /\ worker[j] = "upload"
  /\ PutObject(j) \/ UNCHANGED objects
  /\ s3Key' = [s3Key EXCEPT ![j] = objects'[j]] /\ Goto(j, "store")
  /\ UNCHANGED <<rowVars, callVars, task, late, streamVars, outages, overlap>>

Upload(j) ==
  /\ worker[j] = "upload"
  /\ \/ /\ PutObject(j) /\ s3Key' = [s3Key EXCEPT ![j] = objects'[j]]
        /\ Goto(j, "store")
     \/ /\ PutObject(j) \/ UNCHANGED objects
        /\ Goto(j, "fail") /\ UNCHANGED s3Key
  /\ UNCHANGED <<rowVars, callVars, task, late, streamVars, outages, overlap>>

(* Mutants: the failed attempt is acknowledged; the message is lost.       *)
GiveUpSilently(j) ==
  /\ worker[j] = "fail" /\ Goto(j, "ack")
  /\ SetFailed(j) \/ UNCHANGED rowVars
  /\ UNCHANGED <<callVars, objects, task, s3Key, late, streamVars, outages,
                 overlap>>

GiveUpWithoutReason(j) ==
  /\ worker[j] = "fail" /\ Goto(j, "nack")
  /\ status' = [status EXCEPT ![j] = "failed"]
  /\ UNCHANGED <<pdfKey, zpl, errorMsg, callVars, objects, task, s3Key, late,
                 streamVars, outages, overlap>>

(* The attempt fails; an error of SetFailed itself is ignored.             *)
GiveUp(j) ==
  /\ worker[j] = "fail" /\ Goto(j, "nack")
  /\ SetFailed(j) \/ UNCHANGED rowVars
  /\ UNCHANGED <<callVars, objects, task, s3Key, late, streamVars, outages,
                 overlap>>

(* SetDone or SetZPLDone, one UPDATE.                                      *)
SetDone(j, k) ==
  /\ status' = [status EXCEPT ![j] = "done"]
  /\ \/ /\ format[j] = "pdf"
        /\ pdfKey' = [pdfKey EXCEPT ![j] = k] /\ UNCHANGED zpl
     \/ /\ format[j] = "zpl"
        /\ zpl' = [zpl EXCEPT ![j] = TRUE] /\ UNCHANGED pdfKey
  /\ UNCHANGED errorMsg

StoreResult(j) ==
  /\ worker[j] = "store"
  /\ \/ SetDone(j, s3Key[j]) /\ Goto(j, "ack")
     \/ SetDone(j, s3Key[j]) /\ Goto(j, "nack")
     \/ UNCHANGED rowVars /\ Goto(j, "nack")
  /\ s3Key' = [s3Key EXCEPT ![j] = 0]
  /\ UNCHANGED <<callVars, objects, task, late, streamVars, outages, overlap>>

(* The statement of a handler given up long ago is carried out.            *)
LateWrite(j) ==
  /\ \/ late[j].what = "processing" /\ SetProcessing(j) /\ UNCHANGED objects
     \/ late[j].what = "failed" /\ SetFailed(j) /\ UNCHANGED objects
     \/ late[j].what = "done" /\ SetDone(j, late[j].key) /\ UNCHANGED objects
     \/ late[j].what = "object" /\ PutObject(j) /\ UNCHANGED rowVars
  /\ late' = [late EXCEPT ![j] = NoStatement]
  /\ UNCHANGED <<callVars, task, worker, s3Key, streamVars, outages, overlap>>

-----------------------------------------------------------------------------
(* StreamPrintStatus: poll every two seconds until the status is terminal; *)
(* a failed poll, the client or the router's 120 s timeout breaks it off.  *)
(* The client may open another one.                                        *)

OpenStream(j) ==
  /\ status[j] # "absent" /\ ~ creating[j]
  /\ stream[j] # "open"
  /\ stream' = [stream EXCEPT ![j] = "open"]
  /\ seen' = [seen EXCEPT ![j] = "absent"]
  /\ UNCHANGED <<rowVars, callVars, objects, task, worker, s3Key, late, outages,
                 overlap>>

Terminal == {"ready", "failed", "printed"}

PollStream(j) ==
  /\ stream[j] = "open"
  /\ seen' = [seen EXCEPT ![j] = status[j]]
  /\ stream' = [stream EXCEPT ![j] = IF status[j] \in Terminal THEN "ended"
                                     ELSE @]
  /\ UNCHANGED <<rowVars, callVars, objects, task, worker, s3Key, late, outages,
                 overlap>>

BreakStream(j) ==
  /\ stream[j] = "open"
  /\ stream' = [stream EXCEPT ![j] = "broken"]
  /\ UNCHANGED <<rowVars, callVars, objects, task, worker, s3Key, late, seen,
                 outages, overlap>>

-----------------------------------------------------------------------------
Queue(j) == Dequeue(j) \/ Ack(j) \/ Nack(j) \/ LeaseExpires(j)

Handler(j) ==
  MarkProcessing(j) \/ Render(j) \/ Upload(j) \/ GiveUp(j) \/ StoreResult(j)

Client(j) ==
  \/ \E f \in Formats : CreateJob(j, f)
  \/ Enqueue(j)
  \/ OpenStream(j)
  \/ PollStream(j)
  \/ BreakStream(j)

Next ==
  \/ \E j \in Jobs : Queue(j) \/ Handler(j) \/ WrongServer(j) \/ Client(j)
                       \/ LateWrite(j)
  \/ Crash
  \/ Restart

Spec == Init /\ [][Next]_vars

(* asynq keeps delivering and recovering, and a handler or a CreateJob     *)
(* that runs goes on.  Nobody has to print, and S3 may fail every time.    *)
Fairness ==
  \A j \in Jobs : WF_vars(Queue(j)) /\ WF_vars(Handler(j)) /\ WF_vars(Enqueue(j))

FairSpec == Spec /\ Fairness

-----------------------------------------------------------------------------
(* Safety.                                                                 *)

(* A job that shows "done" can be handed out: the row holds the ZPL, or    *)
(* the key of a PDF that did reach S3, whatever attempt it came from and   *)
(* whatever attempts failed before or after, late or overlapping ones too; *)
(* and no row, done or not, points to an object that is not there.         *)
DoneHasOutput ==
  \A j \in Jobs :
    /\ pdfKey[j] <= objects[j]
    /\ status[j] = "done" =>
         IF format[j] = "zpl" THEN zpl[j] ELSE pdfKey[j] > 0

(* When asynq has removed the task the job is done: no order of ignored    *)
(* errors, failures and redeliveries drops a job that has no output, until *)
(* a delivery begins with an earlier one's statement late.                 *)
CompletedMeansDone ==
  \A j \in Jobs :
    task[j].state = "completed" => status[j] = "done" \/ overlap[j]

(* Once the queue has dropped the task and no statement is late, a         *)
(* finished job stays finished, however its deliveries overlapped: only    *)
(* another delivery, or what one left behind, takes "done" back.           *)
DoneIsFinalAfterAck ==
  [][\A j \in Jobs :
       task[j].state \in {"completed", "archived"} /\ late[j].what = "none" =>
         (status[j] = "done" => status'[j] = "done")]_vars

(* A later attempt never takes a PDF away from a job: the key is only ever *)
(* replaced by the key of a newer object, also by an attempt that fails,   *)
(* unless the UPDATE of an earlier delivery comes late.                    *)
KeyOnlyAdvances ==
  [][\A j \in Jobs : pdfKey'[j] >= pdfKey[j] \/ overlap[j]]_vars

(* A stream that ended by itself told the client of a failure, and the row *)
(* still gives the reason, even if a retry has succeeded since.            *)
EndedStreamHasReason ==
  \A j \in Jobs : stream[j] = "ended" => seen[j] = "failed" /\ errorMsg[j]

(* Row and task together are work that is attempted at least once: the job *)
(* is done, and taken back, only while the task is alive, the task is done *)
(* only with the job, and asynq gives up only when the retries are spent,  *)
(* with the last statement of the last attempt.                            *)
WorkPhase(t, s) ==
  IF t.state = "archived" /\ s.what # "none" THEN "owed" ELSE Phase(t)

Outcome(s, over) ==
  CASE over -> "forfeited"
    [] ~ over /\ s = "done" -> "there"
    [] OTHER -> "missing"

Attempted == INSTANCE AttemptedWork WITH
  Works <- Jobs, Budget <- MaxRetry,
  phase <- [j \in Jobs |-> WorkPhase(task[j], late[j])],
  retries <- [j \in Jobs |-> task[j].retried],
  outcome <- [j \in Jobs |-> Outcome(status[j], overlap[j])]
ImplementsAttempts == Attempted!Spec

(* The handler that asynq waits for has the lease of its task.  It is not  *)
(* the only one that may still write: see late.                            *)
HandlerHoldsTask ==
  \A j \in Jobs : worker[j] # "idle" => task[j].state = "active"

(* The handler returns nil only when the row is done.                      *)
AckMeansDone ==
  \A j \in Jobs : worker[j] = "ack" => status[j] = "done" \/ overlap[j]

(* A statement that is late, but not behind the next delivery, finds no    *)
(* handler and a task that is not done.                                    *)
LateIsAlone ==
  \A j \in Jobs :
    late[j].what # "none" /\ ~ overlap[j] =>
      worker[j] = "idle" /\ task[j].state \in {"active", "pending", "archived"}

(* No task exists before its row does, and none before CreateJob enqueues  *)
(* it; without one the row stays as it was inserted.                       *)
NoTaskBefore ==
  \A j \in Jobs :
    /\ status[j] = "absent" => ~ creating[j]
    /\ task[j].state = "none" =>
         status[j] \in {"absent", "pending"} /\ late[j].what = "none"
    /\ status[j] = "absent" \/ creating[j] =>
         task[j].state = "none" /\ task[j].retried = 0

(* asynq archives a task when no retry is left, and not before.            *)
ArchivedIsSpent ==
  \A j \in Jobs : task[j].state = "archived" => task[j].retried = MaxRetry

(* Whoever comes to SetDone for a PDF, in time or late, has an object in   *)
(* S3, and without an overlap a newer one than the row points to.          *)
HasObject(j, k) ==
  /\ k > 0 /\ k <= objects[j]
  /\ k >= pdfKey[j] \/ overlap[j]

StoreHasObject ==
  \A j \in Jobs :
    format[j] = "pdf" =>
      /\ worker[j] = "store" => HasObject(j, s3Key[j])
      /\ late[j].what = "done" => HasObject(j, late[j].key)

(* Whoever reads "failed" finds the message next to it.                    *)
FailedHasReason == \A j \in Jobs : status[j] = "failed" => errorMsg[j]

(* Attempts leave PDFs behind in S3 that no row points to, but each of     *)
(* them, the one on its way too, has used up a retry or an outage, or is   *)
(* the last.                                                               *)
ObjectsArePaidFor ==
  \A j \in Jobs :
    objects[j] + (IF late[j].what = "object" THEN 1 ELSE 0)
      <= task[j].retried + outages
           + IF \/ worker[j] \in {"store", "fail", "ack", "nack"}
                \/ task[j].state \in {"completed", "archived"}
             THEN 1 ELSE 0

(* The inductive invariant.                                                *)
IInv ==
  /\ TypeOK
  /\ DoneHasOutput
  /\ CompletedMeansDone
  /\ EndedStreamHasReason
  /\ HandlerHoldsTask
  /\ AckMeansDone
  /\ LateIsAlone
  /\ NoTaskBefore
  /\ ArchivedIsSpent
  /\ StoreHasObject
  /\ FailedHasReason
  /\ ObjectsArePaidFor

-----------------------------------------------------------------------------
(* Liveness, under FairSpec.                                               *)

(* Every job that reached the queue is settled in the end: done for good,  *)
(* or left to asynq's archive, unless its deliveries overlapped.           *)
EnqueuedJobSettles ==
  \A j \in Jobs :
    task[j].state = "pending"
      ~> [](task[j].state = "archived" \/ status[j] = "done" \/ overlap[j])

-----------------------------------------------------------------------------
(* What comments say, and the code does not do.                            *)

(* "job is created, worker will be retried manually or via retry policy":  *)
(* a job whose enqueue failed is picked up in the end, or its retries are  *)
(* spent.                                                                  *)
EveryJobIsTried ==
  \A j \in Jobs :
    status[j] = "pending"
      ~> (status[j] # "pending" \/ task[j].state = "archived")

(* "The client receives events until the job reaches a terminal state":    *)
(* the stream that has sent the job's final status is over.                *)
DoneEndsStream == \A j \in Jobs : seen[j] = "done" => stream[j] # "open"

=============================================================================
