------------------------------- MODULE MCDrawer -------------------------------
(* Symmetry for the runs of Drawer: threads, shifts and rows are ids. *)
EXTENDS Drawer, TLC

Symmetry == Permutations(Worker) \cup Permutations(Shift) \cup Permutations(Entry)
=============================================================================
