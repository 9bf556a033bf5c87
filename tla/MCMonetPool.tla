----------------------------- MODULE MCMonetPool -----------------------------
(***************************************************************************)
(* MonetPool for TLC.  Six requests are the fewest with which a task can   *)
(* be handed another task's answer: three dropped statements, the two      *)
(* pings, and the statement that gets the third answer.  One connection is *)
(* the hard case: tasks share it in turn, and a waiter depends on it.      *)
(***************************************************************************)
EXTENDS MonetPool
=============================================================================
