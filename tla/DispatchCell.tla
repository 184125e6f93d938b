---------------------------- MODULE DispatchCell ----------------------------
(***************************************************************************)
(* What a dispatch cell promises: it starts at the selection thunk, is     *)
(* set once to the best tier of the processor the process runs on, and     *)
(* never changes afterwards.                                               *)
(***************************************************************************)
CONSTANTS Fns, CPUs, Auto, Best(_, _)

VARIABLES cpu, cell

Init ==
  /\ cpu \in CPUs
  /\ cell = [f \in Fns |-> Auto]

(* The first completed selection for f fixes the cell.                    *)
Select(f) ==
  /\ cell[f] = Auto
  /\ cell' = [cell EXCEPT ![f] = Best(f, cpu)]
  /\ UNCHANGED cpu

Spec == Init /\ [][\E f \in Fns : Select(f)]_<<cpu, cell>>
=============================================================================
