------------------------------ MODULE AsynqTask ------------------------------
(***************************************************************************)
(* One task of the asynq queue in Redis, as label-svc and print-svc use    *)
(* it: both enqueue with asynq.MaxRetry(3), run the handler at least once  *)
(* and let asynq retry, recover or archive the task.  asynq itself is a    *)
(* library, so everything but the retry budget is external behaviour.      *)
(*                                                                         *)
(* A scheduled retry is "pending": its backoff only delays the delivery.   *)
(***************************************************************************)
EXTENDS Naturals

CONSTANT MaxRetry \* retries after the first attempt: asynq.MaxRetry(3)

ASSUME MaxRetryAssumption == MaxRetry \in Nat

TaskStates ==
  { "none",      \* never enqueued
    "pending",   \* waiting in the queue, or for its retry time
    "active",    \* leased to a worker
    "completed", \* the handler returned nil and asynq removed the task
    "archived" } \* out of retries

Task == [state : TaskStates, retried : 0..MaxRetry]

NoTask == [state |-> "none", retried |-> 0]

(* client.EnqueueContext succeeded. *)
Enqueued == [state |-> "pending", retried |-> 0]

(* A server took the task and holds its lease. *)
Leased(t) == [t EXCEPT !.state = "active"]

(* The handler returned nil. *)
Acked(t) == [t EXCEPT !.state = "completed"]

(* A graceful shutdown pushed the task back without counting an attempt. *)
Requeued(t) == [t EXCEPT !.state = "pending"]

(* Mutants: the retry is never counted; one retry too many. *)
FailedUncounted(t) == [t EXCEPT !.state = "pending"]

FailedOnceMore(t) ==
  IF t.retried <= MaxRetry
  THEN [state |-> "pending", retried |-> t.retried + 1]
  ELSE [t EXCEPT !.state = "archived"]

(* The handler returned an error, no handler is registered for the task's  *)
(* type, or the lease of a dead worker expired: retry, or archive when the *)
(* budget is spent.                                                        *)
Failed(t) ==
  IF t.retried < MaxRetry
  THEN [state |-> "pending", retried |-> t.retried + 1]
  ELSE [t EXCEPT !.state = "archived"]

(* What the services see of a task, the same in the queue and in a worker. *)
Phase(t) ==
  CASE t.state = "none" -> "none"
    [] t.state \in {"pending", "active"} -> "owed"
    [] t.state = "completed" -> "closed"
    [] t.state = "archived" -> "abandoned"

=============================================================================
