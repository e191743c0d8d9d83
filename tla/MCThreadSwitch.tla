---------------------------- MODULE MCThreadSwitch ----------------------------
(* Model-checking instances of ThreadSwitch: the constants are in the .cfg files. *)
EXTENDS ThreadSwitch
===============================================================================
