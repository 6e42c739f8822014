-------------------------- MODULE MC_UsartDmaEcho ---------------------------
(* Model-checking instance of UsartDmaEcho; constants are set in the .cfg. *)
EXTENDS UsartDmaEcho
=============================================================================
