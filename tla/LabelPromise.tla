---------------------------- MODULE LabelPromise ----------------------------
(***************************************************************************)
(* What label-svc promises about the status column of a label row, told    *)
(* without the queue, the worker, the agents or the failures:              *)
(*                                                                         *)
(*   - an AI result, good or bad, only ever lands on a label that shows    *)
(*     "processing";                                                       *)
(*   - a label is confirmed only from "ready";                             *)
(*   - a confirmed label is never deleted directly;                        *)
(*   - a deleted label never comes back.                                   *)
(*                                                                         *)
(* Nothing is promised of a label from the moment a delivery of its task   *)
(* begins while a statement of an earlier one is still outstanding: it is  *)
(* forfeited.                                                              *)
(*                                                                         *)
(* The promise is as weak as the code makes it: Begin may take any live    *)
(* label, a confirmed one included, back to "processing".                  *)
(***************************************************************************)
CONSTANT Labels

VARIABLE status \* the status column; "absent" before INSERT, "deleted" after
                \* DELETE, "forfeited" after an overlap

Live == {"draft", "processing", "ready", "confirmed", "error"}

Init == status = [l \in Labels |-> "absent"]

Becomes(l, s) == status' = [status EXCEPT ![l] = s]

Create(l)  == status[l] = "absent" /\ Becomes(l, "draft")
Begin(l)   == status[l] \in Live /\ Becomes(l, "processing")
Succeed(l) == status[l] = "processing" /\ Becomes(l, "ready")
GiveUp(l)  == status[l] = "processing" /\ Becomes(l, "error")
Confirm(l) == status[l] = "ready" /\ Becomes(l, "confirmed")
Discard(l) == status[l] \in Live \ {"confirmed"} /\ Becomes(l, "deleted")
Forfeit(l) == status[l] # "forfeited" /\ Becomes(l, "forfeited")

Next == \E l \in Labels :
          \/ Create(l)
          \/ Begin(l)
          \/ Succeed(l)
          \/ GiveUp(l)
          \/ Confirm(l)
          \/ Discard(l)
          \/ Forfeit(l)

Spec == Init /\ [][Next]_status

=============================================================================
