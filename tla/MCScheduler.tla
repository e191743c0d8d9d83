----------------------------- MODULE MCScheduler ------------------------------
(* Model-checking instances of Scheduler: the constants are in the .cfg files. *)
EXTENDS Scheduler
===============================================================================
