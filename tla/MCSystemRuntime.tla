--------------------------- MODULE MCSystemRuntime ----------------------------
(***************************************************************************)
(* SystemRuntime for TLC.                                                  *)
(***************************************************************************)
EXTENDS SystemRuntime
===============================================================================
