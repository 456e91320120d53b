----------------------------- MODULE MCScheduler -----------------------------
(* Symmetry for the safety runs of Scheduler: no definition tells two loaded   *)
(* tasks, two other tasks or two clients apart.                                *)
EXTENDS Scheduler

MCSymmetry ==
  Permutations(Tasks \ Restored) \union Permutations(Restored) \union Permutations(Clients)

=============================================================================
