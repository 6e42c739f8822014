--------------------------- MODULE MC_HostSession ----------------------------
(* Model-checking instance of HostSession; constants are set in the .cfg. *)
EXTENDS HostSession
=============================================================================
