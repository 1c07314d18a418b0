------------------------------- MODULE Documents --------------------------------
(***************************************************************************)
(* What the server promises of the documents tills send: a sale with its   *)
(* lines, stock and money, its void, a return of some of it, a receipt of  *)
(* goods with the supplier's bill.  Each is entered in the books once and  *)
(* whole, or refused, and what a sale took comes back at most once.        *)
(*   docs/sync-protocol.md, Push (device transactions)                     *)
(***************************************************************************)
EXTENDS Integers, FiniteSetsExt

CONSTANTS
    Doc,
    Says        \* Says[d]: what the till wrote on document d, a sale, a void, a
                \* refund or a receipt

\* Its kind; of: the sale a void or a return is about; qty: goods sold, returned or
\* received, one currency unit each; owed: what the sale charges the customer, or what
\* the void or return takes off the customer's debt.

VARIABLE state  \* state[d]: what became of document d

Is(kind) == {d \in Doc : Says[d].kind = kind}
About(kind, d) == {e \in Is(kind) : Says[e].of = d}
Entered == {d \in Doc : state[d] = "entered"}

Init == state = [d \in Doc |-> "open"]

\* The books take a return of an entered sale that is not voided, up to what is left
\* of its goods, and take no more off the debt than the sale put on it.
Returnable(d) ==
    LET s == Says[d].of
        back == {d} \cup (About("refund", s) \cap Entered) IN
    /\ s \in Is("sale") \cap Entered
    /\ About("void", s) \cap Entered = {}
    /\ MapThenSumSet(LAMBDA e : Says[e].qty, back) <= Says[s].qty
    /\ MapThenSumSet(LAMBDA e : Says[e].owed, back) <= Says[s].owed

\* A sale is voided once, and not after a return.
Voidable(d) ==
    LET s == Says[d].of IN
    /\ s \in Is("sale") \cap Entered
    /\ (About("void", s) \cup About("refund", s)) \cap Entered = {}

Enter(d) ==
    /\ state[d] = "open"
    /\ d \in Is("refund") => Returnable(d)
    /\ d \in Is("void") => Voidable(d)
    /\ state' = [state EXCEPT ![d] = "entered"]

Refuse(d) ==
    /\ state[d] = "open"
    /\ state' = [state EXCEPT ![d] = "refused"]

Next == \E d \in Doc : Enter(d) \/ Refuse(d)

Spec == Init /\ [][Next]_state
=============================================================================
