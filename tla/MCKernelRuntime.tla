--------------------------- MODULE MCKernelRuntime ----------------------------
(* Model-checking instances of KernelRuntime: the constants are in the .cfg files. *)
EXTENDS KernelRuntime
===============================================================================
