-------------------------- MODULE MCDeviceTransaction --------------------------
(* The documents of the runs of DeviceTransaction. *)
EXTENDS DeviceTransaction, TLC

CONSTANTS sold, void1, void2, back1, back2, goods

Document(kind, of, qty, owed) == [kind |-> kind, of |-> of, qty |-> qty, owed |-> owed]

\* A sale of two pieces, one of them on credit, that four tills undo: two void it, one
\* takes back a piece and the debt, one both pieces once the customer has paid the debt;
\* and a receipt of goods.
Papers == sold :> Document("sale", sold, 2, 1) @@ void1 :> Document("void", sold, 0, 1)
          @@ void2 :> Document("void", sold, 0, 1)
          @@ back1 :> Document("refund", sold, 1, 1) @@ back2 :> Document("refund", sold, 2, 0)
          @@ goods :> Document("receipt", goods, 3, 0)
SaysThat == [d \in Doc |-> Papers[d]]

Symmetry == Permutations(Worker) \cup Permutations({void1, void2})
=============================================================================
