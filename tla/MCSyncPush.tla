----------------------------- MODULE MCSyncPush -----------------------------
(* Values for the constants of SyncPush that a .cfg cannot write down. *)
EXTENDS SyncPush, TLC

NoRefusals == {}
InsertsOnly == {"insert"}
UpdatesOnly == {"update"}
AllKinds == {"insert", "update"}

Symmetry == Permutations(Handler)
=============================================================================
