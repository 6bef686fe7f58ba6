----------------------------- MODULE MCPrintJob -----------------------------
(***************************************************************************)
(* Small instances of PrintJob for TLC: the .cfg files give the constants. *)
(* Two jobs only meet in Crash and Restart, so that one job shows every    *)
(* interleaving of its row, its task, its handler and its stream.          *)
(***************************************************************************)
EXTENDS PrintJob

=============================================================================
