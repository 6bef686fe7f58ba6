----------------------------- MODULE MCAccounts -----------------------------
(* Small instances of Accounts and of SlidingWindow for TLC, in one state  *)
(* space: the two share no variable, and either one runs while the other   *)
(* is as it began.                                                         *)
EXTENDS Accounts, SlidingWindow

MCInit == Init /\ WindowInit

MCNext ==
  \/ Next /\ WindowInit /\ UNCHANGED windowVars
  \/ WindowNext /\ Init /\ UNCHANGED vars

MCSpec == MCInit /\ [][MCNext]_<<vars, windowVars>> /\ Fairness
=============================================================================
