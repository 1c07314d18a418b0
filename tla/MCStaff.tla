-------------------------------- MODULE MCStaff --------------------------------
(* Shops with one or two owners and a cashier: Staff_kept runs with two branches. *)
EXTENDS Staff, TLC

CONSTANTS o1, o2, c, n, b1, b2, b3

Works(u, b, role) == [user |-> u, branch |-> b, role |-> role, live |-> TRUE]

\* Two owners of two branches, and a cashier who works in both.
TwoBranches == <<Works(o1, b1, "owner"), Works(o1, b2, "owner"), Works(o2, b1, "owner"),
                 Works(o2, b2, "owner"), Works(c, b1, "cashier"), Works(c, b2, "cashier")>>

\* One branch with its owner and a cashier.
OneBranch == <<Works(o1, b1, "owner"), Works(c, b1, "cashier")>>

Symmetry == Permutations(Worker)
=============================================================================
