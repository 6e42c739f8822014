--------------------------- MODULE MC_HostCtrlXfer ---------------------------
(* Model-checking instances of HostCtrlXfer.  The constants are set in the *)
(* .cfg files; see README.md for the runs.                                 *)
EXTENDS HostCtrlXfer
=============================================================================
