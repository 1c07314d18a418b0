---------------------------- MODULE MCChangeFeed ----------------------------
(* Values for the constants of ChangeFeed that a .cfg cannot write down. *)
EXTENDS ChangeFeed, TLC

CONSTANTS r1, r2, r3, u1, u2

NoRow == {}
OneReader == u1 :> {r1}
TwoReaders == u1 :> {r1, r2} @@ u2 :> {r1}

Symmetry == Permutations(Writer)
=============================================================================
