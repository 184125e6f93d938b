---------------------------- MODULE MemWriteSpec ----------------------------
(* What the functions that write memory promise their caller: the call   *)
(* returns the pointer its arguments ask for, and when it has returned    *)
(* the bytes at dest hold what the arguments ask for (the fill value, the *)
(* units that were at src when it was called, the NULs of stpncpy) and no *)
(* other byte has changed.  Nothing is promised about memory while the    *)
(* call runs, so the call is one step.                                     *)
(*                                                                         *)
(* buf is the memory the caller sees, goal the contents the arguments ask  *)
(* for; res is the pointer returned, want the one asked for; returned is  *)
(* whether the call has returned.                                          *)
VARIABLES buf, goal, res, want, returned

vars == <<buf, goal, res, want, returned>>

Init == returned = FALSE

Return ==
  /\ ~returned
  /\ buf' = goal
  /\ res' = want
  /\ returned' = TRUE
  /\ UNCHANGED <<goal, want>>

(* The calling thread keeps running, so the call does return.              *)
Spec == Init /\ [][Return]_vars /\ WF_vars(Return)
=============================================================================
