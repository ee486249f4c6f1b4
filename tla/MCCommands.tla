----------------------------- MODULE MCCommands -----------------------------
(* Commands for TLC.                                                       *)
EXTENDS Commands, TLC

(* Processes and keys are interchangeable.                                 *)
Symmetry == Permutations(Procs) \cup Permutations(Keys)

=============================================================================
