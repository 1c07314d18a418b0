------------------------------ MODULE MCSessions ------------------------------
(* Symmetry for the runs of Sessions. *)
EXTENDS Sessions, TLC

Symmetry == Permutations(User) \cup Permutations(Session) \cup Permutations(Renewal)
            \cup Permutations(Revalidation) \cup Permutations(Worker)
=============================================================================
