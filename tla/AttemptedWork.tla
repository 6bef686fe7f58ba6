---------------------------- MODULE AttemptedWork ----------------------------
(***************************************************************************)
(* What label-svc and print-svc promise about work they hand to asynq,     *)
(* told without handlers, leases, crashes, agents or S3:                   *)
(*                                                                         *)
(*   - a result comes, and may be taken back by another attempt, only      *)
(*     while the work is owed;                                             *)
(*   - work is closed only with its result there, unless it was withdrawn; *)
(*   - work is given up only after every retry it was granted;             *)
(*   - what is closed or given up is never attempted again.                *)
(*                                                                         *)
(* Nothing is promised of the result once two attempts have overlapped:    *)
(* it is forfeited.                                                        *)
(***************************************************************************)
EXTENDS Naturals

CONSTANTS
  Works,
  Budget \* retries after the first attempt

VARIABLES
  phase,   \* "none", "owed", "closed" or "abandoned"
  retries, \* attempts that failed and were granted another one
  outcome  \* "missing", "there", "withdrawn" or "forfeited"

workVars == <<phase, retries, outcome>>

Init ==
  /\ phase = [w \in Works |-> "none"]
  /\ retries = [w \in Works |-> 0]
  /\ outcome = [w \in Works |-> "missing"]

MoveTo(w, p) ==
  phase' = [phase EXCEPT ![w] = p] /\ UNCHANGED <<retries, outcome>>

Becomes(w, o) ==
  outcome' = [outcome EXCEPT ![w] = o] /\ UNCHANGED <<phase, retries>>

(* Work may have been withdrawn before it is submitted.                    *)
Submit(w) == phase[w] = "none" /\ outcome[w] # "there" /\ MoveTo(w, "owed")

(* An attempt has its result; another one begins by taking it back.        *)
Produce(w) ==
  phase[w] = "owed" /\ outcome[w] = "missing" /\ Becomes(w, "there")

Redo(w) ==
  phase[w] = "owed" /\ outcome[w] = "there" /\ Becomes(w, "missing")

Retry(w) ==
  /\ phase[w] = "owed" /\ retries[w] < Budget
  /\ retries' = [retries EXCEPT ![w] = @ + 1]
  /\ UNCHANGED <<phase, outcome>>

Close(w) == phase[w] = "owed" /\ outcome[w] # "missing" /\ MoveTo(w, "closed")

(* The last attempt may have its result, or take one back, at its end.     *)
Abandon(w) ==
  /\ phase[w] = "owed" /\ retries[w] = Budget
  /\ phase' = [phase EXCEPT ![w] = "abandoned"]
  /\ \/ UNCHANGED outcome
     \/ /\ outcome[w] \in {"missing", "there"}
        /\ \E o \in {"missing", "there"} : outcome' = [outcome EXCEPT ![w] = o]
  /\ UNCHANGED retries

(* Nobody wants the result any more.                                       *)
Withdraw(w) ==
  outcome[w] \in {"missing", "there"} /\ Becomes(w, "withdrawn")

(* An attempt begins while a statement of an earlier one is outstanding.   *)
Forfeit(w) ==
  phase[w] = "owed" /\ outcome[w] # "forfeited" /\ Becomes(w, "forfeited")

Next == \E w \in Works :
          \/ Submit(w) \/ Produce(w) \/ Redo(w) \/ Retry(w)
          \/ Close(w) \/ Abandon(w) \/ Withdraw(w) \/ Forfeit(w)

Spec == Init /\ [][Next]_workVars

=============================================================================
