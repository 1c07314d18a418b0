------------------------------- MODULE MCCounter -------------------------------
(* The requests of the run of Counter. *)
EXTENDS Counter, TLC

CONSTANTS c, x, h,                      \* a customer, a supplier, a drawer
          s1, s2, v, r1, r2, pay, off, lim, stop, again, recv, ps1, ps2, adj, cl, nil, over

Wish(kind, of, lines, discount, n, who, shift) ==
    [kind |-> kind, of |-> of, lines |-> lines, discount |-> discount, n |-> n, who |-> who,
     shift |-> shift, version |-> 0]
L(p, qty) == [product |-> p, qty |-> qty]

\* Two sales with crossed carts want the same goods; one is voided or returned in two
\* parts, the customer pays and is forgiven a debt, a manager changes the account; a
\* receipt and two payments to its supplier; a correction; the close of the drawer; an
\* empty sale and one that is paid more than it charges.
Asked ==
    s1 :> Wish("sale", s1, <<L(1, 3), L(2, 1)>>, 3, 1, c, h)
    @@ s2 :> Wish("sale", s2, <<L(2, 1), L(1, 2), L(1, 2)>>, 0, 5, c, None)
    @@ v :> Wish("void", s1, <<>>, 0, 0, c, None)
    @@ r1 :> Wish("refund", s1, <<L(1, 1)>>, 0, 0, c, h)
    @@ r2 :> Wish("refund", s1, <<L(1, 2), L(2, 1)>>, 0, 0, c, None)
    @@ pay :> Wish("payment", pay, <<>>, 0, 2, c, h)
    @@ off :> Wish("writeoff", off, <<>>, 0, 2, c, None)
    @@ lim :> Wish("limit", lim, <<>>, 0, 2, c, None)
    @@ stop :> Wish("active", stop, <<>>, 0, 0, c, None)
    @@ again :> [Wish("active", again, <<>>, 0, 1, c, None) EXCEPT !.version = 1]
    @@ recv :> Wish("receive", recv, <<L(2, 1), L(1, 3)>>, 0, 1, x, None)
    @@ ps1 :> Wish("pay", ps1, <<>>, 0, 1, x, h)
    @@ ps2 :> Wish("pay", ps2, <<>>, 0, 1, x, None)
    @@ adj :> Wish("adjust", adj, <<L(1, 1)>>, 0, -1, None, None)
    @@ cl :> Wish("close", cl, <<>>, 0, 0, None, h)
    @@ nil :> Wish("sale", nil, <<>>, 0, 0, None, None)
    @@ over :> Wish("sale", over, <<L(2, 1)>>, 0, 3, None, None)
Asks16 == [q \in Request |-> Asked[q]]

Prices == 1 :> 13 @@ 2 :> 2
Units == 1 :> 10 @@ 2 :> 1
Stock == 1 :> 3 @@ 2 :> 1
Debts == c :> 0
Owes == x :> 1
Limits == c :> 4
ThreeMixes == {{s1, s2, v, r1, r2, pay, lim, recv},
               {s1, s2, r1, r2, off, stop, again, recv, adj},
               {s1, v, r1, pay, recv, ps1, ps2, cl, nil, over}}

Symmetry == Permutations(Worker)
=============================================================================
