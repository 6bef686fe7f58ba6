-------------------------- MODULE MCLabelLifecycle --------------------------
(***************************************************************************)
(* Small instances of LabelLifecycle for TLC: the .cfg files give the      *)
(* constants.  Two labels only meet in Crash and Restart, so that one      *)
(* label shows every interleaving of its row, its task and its handler.    *)
(***************************************************************************)
EXTENDS LabelLifecycle

=============================================================================
