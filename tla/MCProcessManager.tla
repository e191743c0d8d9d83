--------------------------- MODULE MCProcessManager ---------------------------
(* Model-checking instance of ProcessManager: the constants are in the .cfg file. *)
EXTENDS ProcessManager
===============================================================================
