----------------------------- MODULE CounterProofs -----------------------------
(***************************************************************************)
(* Proofs about Counter, for any number of requests, threads and goods.    *)
(*                                                                         *)
(* TypeOK, BalancesHold and ReturnsAddUp follow from the invariant Inv,    *)
(* which adds to them what a transaction knows of the rows it holds        *)
(* (Checked): what it found when it locked a row is still so, because no   *)
(* other transaction writes a row it holds (OthersKeep) and because it     *)
(* locks in an order (InOrder) in which the sale comes before what depends *)
(* on it.  CreditKept is a property of the steps from Inv.                 *)
(* CirclesAreOfCarts needs no more than InOrder: what a request waits for  *)
(* is above what it holds, in one order for all requests, but for carts.   *)
(* Quantities and money are sums over lines and goods; what is needed of    *)
(* them (SumFacts) is by induction on the set summed over.                 *)
(***************************************************************************)
EXTENDS Counter, TLAPS, FiniteSetTheorems, WellFoundedInduction

USE DEF books, vars

-----------------------------------------------------------------------------
(* Arithmetic *)

\* The smaller of two.
LEMMA Min2 ==
    ASSUME NEW a \in Int, NEW b \in Int
    PROVE  Min({a, b}) = IF a <= b THEN a ELSE b
<1> DEFINE m == IF a <= b THEN a ELSE b
<1>1. m \in {a, b} /\ \A y \in {a, b} : m <= y
  OBVIOUS
<1>2. \A x \in {a, b} : (\A y \in {a, b} : x <= y) => x = m
  OBVIOUS
<1> QED BY <1>1, <1>2 DEF Min

\* The smallest of three.
LEMMA Min3 ==
    ASSUME NEW a \in Int, NEW b \in Int, NEW c \in Int
    PROVE  /\ Min({a, b, c}) \in {a, b, c}
           /\ Min({a, b, c}) <= a /\ Min({a, b, c}) <= b /\ Min({a, b, c}) <= c
<1> DEFINE m == IF a <= b THEN (IF a <= c THEN a ELSE c) ELSE (IF b <= c THEN b ELSE c)
<1>1. m \in {a, b, c} /\ \A y \in {a, b, c} : m <= y
  OBVIOUS
<1>2. \A x \in {a, b, c} : (\A y \in {a, b, c} : x <= y) => x = m
  OBVIOUS
<1>3. Min({a, b, c}) = m
  BY <1>1, <1>2 DEF Min
<1> QED BY <1>3

\* An amount, or nothing.
LEMMA Max0 ==
    ASSUME NEW a \in Int
    PROVE  Max({0, a}) = IF a <= 0 THEN 0 ELSE a
<1> DEFINE m == IF a <= 0 THEN 0 ELSE a
<1>1. m \in {0, a} /\ \A y \in {0, a} : y <= m
  OBVIOUS
<1>2. \A x \in {0, a} : (\A y \in {0, a} : x >= y) => x = m
  OBVIOUS
<1> QED BY <1>1, <1>2 DEF Max

\* A part of a value, by a discount no larger than the whole, is no more than the value.
LEMMA DivPart ==
    ASSUME NEW d \in Nat, NEW s \in Nat, NEW g \in Nat, d <= s, s > 0
    PROVE  Div(d * g, s) \in Nat /\ Div(d * g, s) <= g
<1> DEFINE m == 2 * (d * g) + s
           k == 2 * s
           D == m \div k
<1>1. d * g \in Nat /\ s * g \in Nat /\ d * g <= s * g
  OBVIOUS
<1>2. m \in Nat /\ k \in Nat /\ k > 0 /\ k * (g + 1) = 2 * (s * g) + k
  BY <1>1
<1>3. m < k * (g + 1)
  BY <1>1, <1>2
<1> HIDE DEF m, k
<1>4. D \in Nat /\ k * D <= m
  BY <1>2
<1> HIDE DEF D
<1>5. ~(D >= g + 1)
  <2> SUFFICES ASSUME D >= g + 1 PROVE FALSE
    OBVIOUS
  <2>1. k * D >= k * (g + 1)
    BY <1>2, <1>4
  <2> QED BY <2>1, <1>2, <1>3, <1>4
<1> QED BY <1>4, <1>5 DEF Div, D, m, k

-----------------------------------------------------------------------------
(* Sums over finite sets; induction is by the smallest counterexample *)

SumOf(f, S) == MapThenSumSet(LAMBDA x : f[x], S)

\* Induction over the naturals.
LEMMA Counting ==
    ASSUME NEW T, 0 \in T, \A n \in Nat : n \in T => n + 1 \in T
    PROVE  Nat \subseteq T
<1> SUFFICES ASSUME Nat \ T # {} PROVE FALSE
  OBVIOUS
<1>1. IsWellFoundedOn(OpToRel(<, Nat), Nat)
  BY NatLessThanWellFounded
<1>2. PICK x \in Nat \ T : \A y \in Nat \ T : ~(<<y, x>> \in OpToRel(<, Nat))
  BY <1>1, WFMin
<1>3. \A y \in Nat \ T : ~(y < x)
  BY <1>2 DEF OpToRel
<1>4. x # 0 /\ x - 1 \in Nat
  OBVIOUS
<1>. QED BY <1>3, <1>4

\* A finite set has one element more than it has without one of its own.
LEMMA OneLess ==
    ASSUME NEW A, IsFiniteSet(A), NEW x \in A
    PROVE  /\ IsFiniteSet(A \ {x})
           /\ Cardinality(A) \in Nat /\ Cardinality(A \ {x}) \in Nat
           /\ Cardinality(A) = Cardinality(A \ {x}) + 1
<1>1. IsFiniteSet(A \ {x}) /\ Cardinality(A \ {x}) = Cardinality(A) - 1
  BY FS_RemoveElement
<1>2. Cardinality(A) \in Nat /\ Cardinality(A \ {x}) \in Nat
  BY <1>1, FS_CardinalityType
<1>. QED BY <1>1, <1>2

(* What holds of a set whenever it holds of all that lack one of its elements, holds *)
(* of all subsets of a finite set.                                                   *)
LEMMA OneByOne ==
    ASSUME NEW S, IsFiniteSet(S), NEW T,
           \A A \in SUBSET S : (\A x \in A : A \ {x} \in T) => A \in T
    PROVE  SUBSET S \subseteq T
<1> DEFINE Sizes == {n \in Nat : \A A \in SUBSET S : Cardinality(A) = n => A \in T}
<1>1. \A A \in SUBSET S : IsFiniteSet(A) /\ Cardinality(A) \in Nat
  BY FS_Subset, FS_CardinalityType
<1>2. 0 \in Sizes
  <2>1. \A A \in SUBSET S : Cardinality(A) = 0 => A = {}
    BY <1>1, FS_EmptySet
  <2>. QED BY <2>1
<1>3. ASSUME NEW n \in Nat, n \in Sizes
      PROVE  n + 1 \in Sizes
  <2> SUFFICES ASSUME NEW A \in SUBSET S, Cardinality(A) = n + 1 PROVE A \in T
    OBVIOUS
  <2>1. \A x \in A : A \ {x} \in SUBSET S /\ Cardinality(A \ {x}) = n
    <3> SUFFICES ASSUME NEW x \in A PROVE Cardinality(A \ {x}) = n
      OBVIOUS
    <3>1. Cardinality(A) = Cardinality(A \ {x}) + 1 /\ Cardinality(A \ {x}) \in Nat
      BY <1>1, OneLess
    <3>. QED BY <3>1
  <2>. QED BY <1>3, <2>1
<1>4. Nat \subseteq Sizes
  <2> HIDE DEF Sizes
  <2>. QED BY <1>2, <1>3, Counting
<1>. QED BY <1>1, <1>4

Chosen(s) == CHOOSE x \in s : TRUE

(* What MapThenSumSet computes, for all the subsets of S at once. *)
IsTally(g, f, S) ==
    g = [s \in SUBSET S |-> IF s = {} THEN 0 ELSE f[Chosen(s)] + g[s \ {Chosen(s)}]]

\* What is chosen from a set is in it.
LEMMA ChosenIn == ASSUME NEW s, s # {} PROVE Chosen(s) \in s
  BY DEF Chosen

\* A finite set has a tally.
LEMMA TallyExists ==
    ASSUME NEW S, IsFiniteSet(S), NEW f
    PROVE  \E g : IsTally(g, f, S)
<1> DEFINE Small(n) == {s \in SUBSET S : Cardinality(s) <= n}
           Next1(g, s) == IF s = {} THEN 0 ELSE f[Chosen(s)] + g[s \ {Chosen(s)}]
           Sizes == {n \in Nat : \E g : g = [s \in Small(n) |-> Next1(g, s)]}
<1>1. \A A \in SUBSET S : IsFiniteSet(A) /\ Cardinality(A) \in Nat
  BY FS_Subset, FS_CardinalityType
<1>2. \A s \in SUBSET S : s # {} =>
         /\ s \ {Chosen(s)} \in SUBSET S
         /\ Cardinality(s \ {Chosen(s)}) \in Nat
         /\ Cardinality(s) = Cardinality(s \ {Chosen(s)}) + 1
  BY <1>1, ChosenIn, OneLess
<1>3. 0 \in Sizes
  <2> DEFINE g == [s \in Small(0) |-> 0]
  <2>1. ASSUME NEW s \in SUBSET S, Cardinality(s) <= 0, s # {}
        PROVE  FALSE
    <3>1. PICK c \in Nat : Cardinality(s) = c + 1
      BY <1>2, <2>1
    <3>. QED BY <2>1, <3>1
  <2>2. \A s \in Small(0) : s = {}
    BY <2>1
  <2>3. g = [s \in Small(0) |-> Next1(g, s)]
    BY <2>2
  <2> HIDE DEF g
  <2>. QED BY <2>3
<1>4. ASSUME NEW n \in Nat, n \in Sizes
      PROVE  n + 1 \in Sizes
  <2>1. PICK g : g = [s \in Small(n) |-> Next1(g, s)]
    BY <1>4
  <2> DEFINE h == [s \in Small(n + 1) |-> Next1(g, s)]
  <2>2. \A s \in Small(n) : g[s] = Next1(g, s)
    BY <2>1
  <2>3. Small(n) \subseteq Small(n + 1)
    BY <1>1
  <2>4. \A s \in Small(n) : h[s] = g[s]
    BY <2>2, <2>3
  <2>5. \A s \in Small(n + 1) : s # {} => s \ {Chosen(s)} \in Small(n)
    BY <1>1, <1>2
  <2>6. \A s \in Small(n + 1) : Next1(g, s) = Next1(h, s)
    <3> HIDE DEF h, Small
    <3>. QED BY <2>4, <2>5
  <2>7. h = [s \in Small(n + 1) |-> Next1(h, s)]
    <3>1. h = [s \in Small(n + 1) |-> Next1(g, s)]
      OBVIOUS
    <3> HIDE DEF h, Next1
    <3>. QED BY <2>6, <3>1
  <2>8. \E q : q = [s \in Small(n + 1) |-> Next1(q, s)]
    <3> HIDE DEF h, Small, Next1
    <3>. QED BY <2>7
  <2> HIDE DEF Small, Next1
  <2>. QED BY <2>8
<1>5. Nat \subseteq Sizes
  <2> HIDE DEF Sizes
  <2>. QED BY <1>3, <1>4, Counting
<1>6. Small(Cardinality(S)) = SUBSET S
  BY <1>1, FS_Subset
<1>7. Cardinality(S) \in Sizes
  BY <1>1, <1>5
<1>. QED BY <1>6, <1>7 DEF IsTally

\* ... and its sum is what a tally says of the whole set.
LEMMA TallyIsSum ==
    ASSUME NEW S, IsFiniteSet(S), NEW f
    PROVE  \E g : IsTally(g, f, S) /\ SumOf(f, S) = g[S]
<1> DEFINE h == CHOOSE g : IsTally(g, f, S)
<1>1. IsTally(h, f, S)
  BY TallyExists
<1>2. SumOf(f, S) = h[S]
  BY DEF SumOf, MapThenSumSet, MapThenFoldSet, IsTally, Chosen
<1>. QED BY <1>1, <1>2

(* Two of them agree where both are defined. *)
LEMMA TalliesAgree ==
    ASSUME NEW S, IsFiniteSet(S), NEW B \in SUBSET S, NEW f, NEW g, NEW h,
           IsTally(g, f, S), IsTally(h, f, B)
    PROVE  g[B] = h[B]
<1> DEFINE T == {A \in SUBSET B : g[A] = h[A]}
<1>1. /\ \A s \in SUBSET S : g[s] = IF s = {} THEN 0 ELSE f[Chosen(s)] + g[s \ {Chosen(s)}]
      /\ \A s \in SUBSET B : h[s] = IF s = {} THEN 0 ELSE f[Chosen(s)] + h[s \ {Chosen(s)}]
  BY DEF IsTally
<1>2. ASSUME NEW A \in SUBSET B, \A x \in A : A \ {x} \in T
      PROVE  A \in T
  BY <1>1, <1>2, ChosenIn
<1>3. IsFiniteSet(B)
  BY FS_Subset
<1>4. SUBSET B \subseteq T
  <2> HIDE DEF T
  <2>. QED BY <1>2, <1>3, OneByOne
<1>. QED BY <1>4

\* A sum is what is chosen and the sum of the rest.
LEMMA SumStep ==
    ASSUME NEW S, IsFiniteSet(S), NEW f
    PROVE  SumOf(f, S) = IF S = {} THEN 0 ELSE f[Chosen(S)] + SumOf(f, S \ {Chosen(S)})
<1>1. PICK g : IsTally(g, f, S) /\ SumOf(f, S) = g[S]
  BY TallyIsSum
<1>2. g[S] = IF S = {} THEN 0 ELSE f[Chosen(S)] + g[S \ {Chosen(S)}]
  BY <1>1 DEF IsTally
<1>3. S \ {Chosen(S)} \in SUBSET S /\ IsFiniteSet(S \ {Chosen(S)})
  BY FS_Subset
<1>4. PICK h : IsTally(h, f, S \ {Chosen(S)}) /\ SumOf(f, S \ {Chosen(S)}) = h[S \ {Chosen(S)}]
  BY <1>3, TallyIsSum
<1>5. g[S \ {Chosen(S)}] = h[S \ {Chosen(S)}]
  <2> DEFINE B == S \ {Chosen(S)}
  <2>1. B \in SUBSET S /\ IsTally(h, f, B)
    BY <1>3, <1>4
  <2> HIDE DEF B
  <2>2. g[B] = h[B]
    BY <1>1, <2>1, TalliesAgree
  <2>. QED BY <2>2 DEF B
<1>. QED BY <1>1, <1>2, <1>4, <1>5

\* The sum over nothing.
LEMMA SumOfNone == ASSUME NEW f PROVE SumOf(f, {}) = 0
  BY FS_EmptySet, SumStep

(* A sum is an integer, and any element can be taken out of it. *)
LEMMA SumTakeOut ==
    ASSUME NEW S, IsFiniteSet(S), NEW f, \A x \in S : f[x] \in Int
    PROVE  /\ SumOf(f, S) \in Int
           /\ \A x \in S : SumOf(f, S) = f[x] + SumOf(f, S \ {x})
<1> DEFINE Good(A) == SumOf(f, A) \in Int /\ \A x \in A : SumOf(f, A) = f[x] + SumOf(f, A \ {x})
           T == {A \in SUBSET S : \A B \in SUBSET A : Good(B)}
<1>1. ASSUME NEW A \in SUBSET S, \A x \in A : A \ {x} \in T
      PROVE  A \in T
  <2>1. \A x \in A, B \in SUBSET A : x \notin B => Good(B)
    <3> SUFFICES ASSUME NEW x \in A, NEW B \in SUBSET A, x \notin B PROVE Good(B)
      OBVIOUS
    <3> HIDE DEF Good
    <3>1. B \in SUBSET (A \ {x})
      OBVIOUS
    <3>. QED BY <1>1, <3>1
  <2>2. Good(A)
    <3>0. CASE A = {}
      BY <3>0, SumOfNone
    <3> SUFFICES ASSUME A # {} PROVE Good(A)
      BY <3>0
    <3> HIDE DEF Good
    <3>1. PICK p : p = Chosen(A)
      OBVIOUS
    <3>2. p \in A /\ SumOf(f, A) = f[p] + SumOf(f, A \ {p})
      BY <3>1, FS_Subset, ChosenIn, SumStep
    <3>3. SumOf(f, A) \in Int
      BY <2>1, <3>2 DEF Good
    <3>4. ASSUME NEW x \in A, x # p
          PROVE  SumOf(f, A) = f[x] + SumOf(f, A \ {x})
      <4>1. PICK C : C = (A \ {p}) \ {x}
        OBVIOUS
      <4>2. (A \ {x}) \ {p} = C /\ SumOf(f, C) \in Int
        BY <2>1, <4>1, <3>2 DEF Good
      <4>3. SumOf(f, A \ {p}) = f[x] + SumOf(f, C)
        BY <2>1, <3>2, <3>4, <4>1 DEF Good
      <4>4. SumOf(f, A \ {x}) = f[p] + SumOf(f, C)
        BY <2>1, <3>2, <3>4, <4>2 DEF Good
      <4>5. f[x] \in Int /\ f[p] \in Int
        BY <3>2
      <4>. QED BY <3>2, <4>2, <4>3, <4>4, <4>5
    <3>. QED BY <3>2, <3>3, <3>4 DEF Good
  <2>3. \A B \in SUBSET A : Good(B)
    <3> HIDE DEF Good
    <3>1. \A B \in SUBSET A : B = A \/ \E x \in A : x \notin B
      OBVIOUS
    <3>. QED BY <2>1, <2>2, <3>1
  <2> HIDE DEF Good
  <2>. QED BY <2>3
<1>2. SUBSET S \subseteq T
  <2> HIDE DEF T
  <2>. QED BY <1>1, OneByOne
<1>3. Good(S)
  <2> HIDE DEF Good
  <2>. QED BY <1>2
<1>. QED BY <1>3

(* Any tally gives the sum. *)
LEMMA AnyTally ==
    ASSUME NEW S, IsFiniteSet(S), NEW f, NEW g, IsTally(g, f, S)
    PROVE  g[S] = SumOf(f, S)
<1>1. PICK h : IsTally(h, f, S) /\ SumOf(f, S) = h[S]
  BY TallyIsSum
<1>. QED BY <1>1, TalliesAgree

(* A sum of naturals is a natural, and positive if there is something to add and all *)
(* of it is positive.                                                                *)
LEMMA SumNat ==
    ASSUME NEW S, IsFiniteSet(S), NEW f, \A x \in S : f[x] \in Nat
    PROVE  /\ SumOf(f, S) \in Nat
           /\ S # {} /\ (\A x \in S : f[x] > 0) => SumOf(f, S) > 0
<1> DEFINE T == {A \in SUBSET S : SumOf(f, A) \in Nat}
<1>1. ASSUME NEW A \in SUBSET S, A # {}
      PROVE  \E x \in A : f[x] \in Nat /\ SumOf(f, A) = f[x] + SumOf(f, A \ {x})
  BY <1>1, FS_Subset, ChosenIn, SumStep
<1>2. ASSUME NEW A \in SUBSET S, \A x \in A : A \ {x} \in T
      PROVE  A \in T
  <2>1. CASE A = {}
    BY <2>1, SumOfNone
  <2>2. CASE A # {}
    <3>1. PICK x \in A : f[x] \in Nat /\ SumOf(f, A) = f[x] + SumOf(f, A \ {x})
      BY <1>1, <2>2
    <3>2. SumOf(f, A \ {x}) \in Nat
      BY <1>2
    <3>. QED BY <3>1, <3>2
  <2>. QED BY <2>1, <2>2
<1>3. SUBSET S \subseteq T
  <2> HIDE DEF T
  <2>. QED BY <1>2, OneByOne
<1>4. SumOf(f, S) \in Nat
  BY <1>3
<1>5. ASSUME S # {}, \A x \in S : f[x] > 0
      PROVE  SumOf(f, S) > 0
  <2>1. PICK x \in S : f[x] \in Nat /\ SumOf(f, S) = f[x] + SumOf(f, S \ {x})
    BY <1>1, <1>5
  <2>2. SumOf(f, S \ {x}) \in Nat
    BY <1>3
  <2>. QED BY <1>5, <2>1, <2>2
<1>. QED BY <1>4, <1>5

-----------------------------------------------------------------------------
(* The inductive invariant *)

\* The rows a request may lock, whatever its sale's returns took back before.
MayLock(q) ==
    LET s == Asks[q].of IN
    CASE Asks[q].kind = "sale"   -> Opt("shift", Asks[q].shift) \cup Each("product", Goods(q))
                                    \cup Opt("customer", Asks[q].who)
      [] Asks[q].kind = "void"   -> {<<"sale", s>>} \cup Opt("shift", Asks[s].shift)
                                    \cup Opt("customer", Asks[s].who)
      [] Asks[q].kind = "refund" -> {<<"sale", s>>} \cup Opt("shift", Asks[q].shift)
                                    \cup Opt("customer", Asks[s].who)
      [] OTHER                   -> Rows(q)

\* A row is locked by one transaction, and a request served by one thread.
Exclusive ==
    \A w, v \in Worker : w # v =>
        /\ txn[w].held \cap txn[v].held = {}
        /\ txn[w].req # None => txn[w].req # txn[v].req

Served(w) ==
    IF txn[w].req = None THEN txn[w].held = {}
    ELSE request[txn[w].req] = "new" /\ ~Malformed(txn[w].req)

\* Nothing a transaction still has to lock comes before what it holds.
InOrder(w) ==
    LET q == txn[w].req IN
    q # None =>
        /\ txn[w].held \subseteq MayLock(q)
        /\ \A r \in txn[w].held, o \in Rows(q) \ txn[w].held : ~Before(q, o, r)

\* What a transaction found when it locked a row still holds while it has the row.
SaleChecked(q, held) ==
    /\ Each("product", Goods(q)) \subseteq held =>
         SaleValid(q) /\ \A p \in Goods(q) : Qty(q, p) <= stock[p].onHand + stock[p].lost
    /\ <<"customer", Asks[q].who>> \in held =>
         card[Asks[q].who].active /\ ~OverLimit(q, Asks[q].who)
VoidChecked(q, held) ==
    <<"sale", Asks[q].of>> \in held =>
        sale[Asks[q].of].status = "settled" /\ Returns(Asks[q].of) = {}
RefundChecked(q, held) ==
    <<"sale", Asks[q].of>> \in held =>
        sale[Asks[q].of].status = "settled" /\ ~RefundInvalid(q, Asks[q].of)
SeenChecked(q, held, seen) ==
    <<"customer", Asks[Asks[q].of].who>> \in held => seen = debt[Asks[Asks[q].of].who]
PaidChecked(q, held) ==
    <<"customer", Asks[q].who>> \in held => Asks[q].n > 0 /\ Asks[q].n <= debt[Asks[q].who]
PayChecked(q, held) ==
    <<"supplier", Asks[q].who>> \in held => Asks[q].n <= bill[Asks[q].who]
ReceiptChecked(q, held) ==
    Each("product", Goods(q)) \subseteq held => LinesValid(q) /\ Asks[q].n >= 0

Checked(w) ==
    LET q == txn[w].req
        held == txn[w].held IN
    q # None =>
        /\ Asks[q].kind = "sale" => SaleChecked(q, held)
        /\ Asks[q].kind = "void" => VoidChecked(q, held)
        /\ Asks[q].kind = "refund" => RefundChecked(q, held)
        /\ Asks[q].kind \in {"void", "refund"} => SeenChecked(q, held, txn[w].seen)
        /\ Asks[q].kind \in {"payment", "writeoff"} => PaidChecked(q, held)
        /\ Asks[q].kind = "pay" => PayChecked(q, held)
        /\ Asks[q].kind = "receive" => ReceiptChecked(q, held)

\* What a sale's row says, and what its returns add up to.
SaleKept(s) ==
    /\ sale[s].status # "none" <=> Asks[s].kind = "sale" /\ request[s] = "done"
    /\ sale[s].status = "none" => sale[s] = NoSale
    /\ sale[s].status # "none" => SaleValid(s) /\ Goods(s) # {}
    /\ sale[s].status = "voided" <=> Voids(s) # {}
    /\ \A u, v \in Voids(s) : u = v
    /\ Returns(s) # {} => sale[s].status = "settled"
    /\ sale[s].status # "none" =>
         /\ \A p \in Goods(s) : Left(s, p) >= 0
         /\ sale[s].given <= Total(s) /\ sale[s].takenBack <= Charge(s)
         /\ (\A p \in Goods(s) : Left(s, p) = 0) => sale[s].given = Total(s)

Inv ==
    /\ TypeOK
    /\ Exclusive
    /\ \A w \in Worker : Served(w) /\ InOrder(w) /\ Checked(w)
    /\ \A s \in Request : SaleKept(s)
    /\ BalancesHold
-----------------------------------------------------------------------------
(* What requests are about *)

\* The fields of a request.
LEMMA AskFacts ==
    ASSUME NEW q \in Request
    PROVE  /\ Asks[q] \in Ask /\ Asks[q].kind \in Kinds /\ Asks[q].of \in Request
           /\ Asks[q].lines \in Seq(Line) /\ Asks[q].discount \in Int
           /\ Asks[q].who \in Customer \cup Supplier \cup {None}
           /\ Asks[q].shift \in Shift \cup {None}
           /\ Goods(q) \subseteq Product
<1>1. Asks[q] \in Ask
  BY AsksAssumption
<1> DEFINE a == Asks[q]
<1>2. a \in Ask
  BY <1>1
<1>3. \A i \in DOMAIN a.lines : a.lines[i] \in Line
  <2>1. a.lines \in Seq(Line)
    BY <1>2 DEF Ask
  <2> QED BY <2>1
<1> QED BY <1>2, <1>3 DEF Ask, Goods, Line

(* The lines of a request, those of one product, and the products they are of. *)
LEMMA LineFacts ==
    ASSUME NEW q \in Request
    PROVE  /\ IsFiniteSet(Goods(q)) /\ Goods(q) \subseteq Product
           /\ \A i \in DOMAIN Asks[q].lines : Asks[q].lines[i].qty \in Int
           /\ \A p : /\ IsFiniteSet(LinesOf(q, p)) /\ (p \in Goods(q) <=> LinesOf(q, p) # {})
                     /\ \A i \in LinesOf(q, p) : Asks[q].lines[i].qty \in Int
<1> DEFINE ls == Asks[q].lines
<1>1. ls \in Seq(Line) /\ Goods(q) \subseteq Product
  BY AskFacts
<1>2. DOMAIN ls = 1 .. Len(ls) /\ Len(ls) \in Nat /\ \A i \in DOMAIN ls : ls[i] \in Line
  BY <1>1
<1>3. IsFiniteSet(DOMAIN ls)
  BY <1>2, FS_Interval
<1>4. IsFiniteSet(Goods(q))
  <2>1. Goods(q) = {ls[i].product : i \in DOMAIN ls}
    BY DEF Goods
  <2> DEFINE of == [i \in DOMAIN ls |-> ls[i].product]
  <2>2. of \in Surjection(DOMAIN ls, Goods(q))
    BY <2>1 DEF Surjection
  <2>. QED BY <1>3, <2>2, FS_Surjection
<1>5. \A i \in DOMAIN ls : ls[i].qty \in Int
  BY <1>2 DEF Line
<1>6. \A p : LinesOf(q, p) \subseteq DOMAIN ls /\ (p \in Goods(q) <=> LinesOf(q, p) # {})
  BY DEF LinesOf, Goods
<1>7. \A p : IsFiniteSet(LinesOf(q, p))
  BY <1>3, <1>6, FS_Subset
<1>. QED BY <1>1, <1>4, <1>5, <1>6, <1>7

\* What of a product a request is about, by its lines.
LEMMA QtyIs ==
    ASSUME NEW q \in Request, NEW p \in Product
    PROVE  LET qty == [i \in LinesOf(q, p) |-> Asks[q].lines[i].qty] IN
           /\ IsFiniteSet(LinesOf(q, p))
           /\ \A i \in LinesOf(q, p) : Asks[q].lines[i].qty \in Int
           /\ Qty(q, p) = SumOf(qty, LinesOf(q, p))
<1> DEFINE S == LinesOf(q, p)
           qty == [i \in S |-> Asks[q].lines[i].qty]
           all(g) == [s \in SUBSET S |-> IF s = {} THEN 0 ELSE Asks[q].lines[Chosen(s)].qty + g[s \ {Chosen(s)}]]
           h == CHOOSE g : g = all(g)
<1>1. IsFiniteSet(S) /\ \A i \in S : Asks[q].lines[i].qty \in Int
  BY LineFacts
<1>2. Qty(q, p) = h[S]
  BY DEF Qty, Sum, MapThenSumSet, MapThenFoldSet, Chosen
<1>3. ASSUME NEW g PROVE IsTally(g, qty, S) <=> g = all(g)
  <2>1. \A s \in SUBSET S : s # {} => qty[Chosen(s)] = Asks[q].lines[Chosen(s)].qty
    BY ChosenIn
  <2> HIDE DEF S, qty
  <2>. QED BY <2>1 DEF IsTally
<1> HIDE DEF S, qty, all
<1>4. IsTally(h, qty, S)
  BY <1>1, <1>3, TallyExists
<1> HIDE DEF h
<1>5. Qty(q, p) = SumOf(qty, S)
  BY <1>1, <1>2, <1>4, AnyTally
<1>. QED BY <1>1, <1>5 DEF S, qty

\* What a sale charges for a product, by its lines.
LEMMA WorthIs ==
    ASSUME NEW q \in Request, NEW p \in Product
    PROVE  LET each == [i \in LinesOf(q, p) |-> Div(Price[p] * Asks[q].lines[i].qty, Unit[p])] IN
           Worth(q, p) = SumOf(each, LinesOf(q, p))
<1> DEFINE S == LinesOf(q, p)
           each == [i \in S |-> Div(Price[p] * Asks[q].lines[i].qty, Unit[p])]
           all(g) == [s \in SUBSET S |->
                        IF s = {} THEN 0 ELSE Div(Price[p] * Asks[q].lines[Chosen(s)].qty, Unit[p])
                                              + g[s \ {Chosen(s)}]]
           h == CHOOSE g : g = all(g)
<1>1. IsFiniteSet(S)
  BY LineFacts
<1>2. Worth(q, p) = h[S]
  BY DEF Worth, Sum, MapThenSumSet, MapThenFoldSet, Chosen
<1>3. ASSUME NEW g PROVE IsTally(g, each, S) <=> g = all(g)
  <2>1. \A s \in SUBSET S : s # {} =>
          each[Chosen(s)] = Div(Price[p] * Asks[q].lines[Chosen(s)].qty, Unit[p])
    BY ChosenIn
  <2> HIDE DEF S, each
  <2>. QED BY <2>1 DEF IsTally
<1> HIDE DEF S, each, all
<1>4. IsTally(h, each, S)
  BY <1>1, <1>3, TallyExists
<1> HIDE DEF h
<1>5. Worth(q, p) = SumOf(each, S)
  BY <1>1, <1>2, <1>4, AnyTally
<1>. QED BY <1>5 DEF S, each

\* What a sale charges, by product.
LEMMA SubtotalIs ==
    ASSUME NEW q \in Request
    PROVE  Subtotal(q) = SumOf([p \in Goods(q) |-> Worth(q, p)], Goods(q))
<1> DEFINE S == Goods(q)
           each == [p \in S |-> Worth(q, p)]
           all(g) == [s \in SUBSET S |-> IF s = {} THEN 0 ELSE Worth(q, Chosen(s)) + g[s \ {Chosen(s)}]]
           h == CHOOSE g : g = all(g)
<1>1. IsFiniteSet(S)
  BY LineFacts
<1>2. Subtotal(q) = h[S]
  BY DEF Subtotal, Sum, MapThenSumSet, MapThenFoldSet, Chosen
<1>3. ASSUME NEW g PROVE IsTally(g, each, S) <=> g = all(g)
  <2>1. \A s \in SUBSET S : s # {} => each[Chosen(s)] = Worth(q, Chosen(s))
    BY ChosenIn
  <2> HIDE DEF S, each
  <2>. QED BY <2>1 DEF IsTally
<1> HIDE DEF S, each, all
<1>4. IsTally(h, each, S)
  BY <1>1, <1>3, TallyExists
<1> HIDE DEF h
<1>5. Subtotal(q) = SumOf(each, S)
  BY <1>1, <1>2, <1>4, AnyTally
<1>. QED BY <1>5 DEF S, each

(* What the goods of a return were sold for, by product. *)
Made(q, p) ==
    LET s == Asks[q].of IN
    IF Qty(s, p) <= 0 THEN 0 ELSE Div(Worth(s, p) * Qty(q, p), Qty(s, p))

\* What a return's goods were sold for, by product.
LEMMA GrossIs ==
    ASSUME NEW q \in Request
    PROVE  Gross(q) = SumOf([p \in Goods(q) |-> Made(q, p)], Goods(q))
<1> DEFINE S == Goods(q)
           each == [p \in S |-> Made(q, p)]
           all(g) == [s \in SUBSET S |-> IF s = {} THEN 0 ELSE Made(q, Chosen(s)) + g[s \ {Chosen(s)}]]
           h == CHOOSE g : g = all(g)
<1>1. IsFiniteSet(S)
  BY LineFacts
<1>2. Gross(q) = h[S]
  BY DEF Gross, Made, Sum, MapThenSumSet, MapThenFoldSet, Chosen
<1>3. ASSUME NEW g PROVE IsTally(g, each, S) <=> g = all(g)
  <2>1. \A s \in SUBSET S : s # {} => each[Chosen(s)] = Made(q, Chosen(s))
    BY ChosenIn
  <2> HIDE DEF S, each
  <2>. QED BY <2>1 DEF IsTally
<1> HIDE DEF S, each, all
<1>4. IsTally(h, each, S)
  BY <1>1, <1>3, TallyExists
<1> HIDE DEF h
<1>5. Gross(q) = SumOf(each, S)
  BY <1>1, <1>2, <1>4, AnyTally
<1>. QED BY <1>5 DEF S, each

(* Numbers rounded are numbers, and not negative if they were not. *)
LEMMA DivNumber ==
    ASSUME NEW a \in Int, NEW b \in Nat, b > 0
    PROVE  Div(a, b) \in Int /\ (a >= 0 => Div(a, b) \in Nat)
  BY DEF Div

\* Products of numbers.
LEMMA Times ==
    /\ \A a, b \in Int : a * b \in Int
    /\ \A a, b \in Nat : a * b \in Nat
  OBVIOUS

(* The sums are numbers; no goods that are not on a line; and what valid lines come to is *)
(* not negative.                                                                          *)
LEMMA QtyFacts ==
    ASSUME NEW q \in Request, NEW p \in Product
    PROVE  /\ Qty(q, p) \in Int /\ (p \notin Goods(q) => Qty(q, p) = 0)
           /\ LinesValid(q) => Qty(q, p) \in Nat /\ (p \in Goods(q) => Qty(q, p) > 0)
<1> DEFINE S == LinesOf(q, p)
           qty == [i \in S |-> Asks[q].lines[i].qty]
<1>1. /\ IsFiniteSet(S) /\ Qty(q, p) = SumOf(qty, S) /\ \A i \in S : qty[i] \in Int
      /\ p \in Goods(q) <=> S # {}
  BY QtyIs, LineFacts
<1>2. LinesValid(q) => \A i \in S : qty[i] \in Nat /\ qty[i] > 0
  BY <1>1 DEF LinesValid, LinesOf
<1> HIDE DEF S, qty
<1>3. SumOf(qty, S) \in Int
  BY <1>1, SumTakeOut
<1>4. S = {} => SumOf(qty, S) = 0
  BY SumOfNone
<1>5. LinesValid(q) => SumOf(qty, S) \in Nat /\ (S # {} => SumOf(qty, S) > 0)
  BY <1>1, <1>2, SumNat
<1>. QED BY <1>1, <1>3, <1>4, <1>5

\* What a product is sold for is a number, not negative for valid lines.
LEMMA WorthFacts ==
    ASSUME NEW q \in Request, NEW p \in Product
    PROVE  Worth(q, p) \in Int /\ (LinesValid(q) => Worth(q, p) \in Nat)
<1> DEFINE S == LinesOf(q, p)
           each == [i \in S |-> Div(Price[p] * Asks[q].lines[i].qty, Unit[p])]
<1>1. IsFiniteSet(S) /\ Worth(q, p) = SumOf(each, S) /\ \A i \in S : Asks[q].lines[i].qty \in Int
  BY WorthIs, LineFacts
<1>2. Price[p] \in Nat /\ Unit[p] \in Nat /\ Unit[p] > 0
  BY StartAssumption
<1>3. ASSUME NEW i \in S
      PROVE  each[i] \in Int /\ (LinesValid(q) => each[i] \in Nat)
  <2> DEFINE n == Asks[q].lines[i].qty
             m == Price[p] * n
  <2>1. n \in Int /\ (LinesValid(q) => n \in Nat)
    BY <1>1 DEF LinesValid, LinesOf
  <2>2. m \in Int /\ (LinesValid(q) => m \in Nat)
    <3> HIDE DEF n
    <3>. QED BY <1>2, <2>1, Times
  <2>3. each[i] = Div(m, Unit[p])
    OBVIOUS
  <2> HIDE DEF m, each
  <2>. QED BY <1>2, <2>2, <2>3, DivNumber
<1> HIDE DEF S, each
<1>4. SumOf(each, S) \in Int
  BY <1>1, <1>3, SumTakeOut
<1>5. LinesValid(q) => SumOf(each, S) \in Nat
  BY <1>1, <1>3, SumNat
<1>. QED BY <1>1, <1>4, <1>5

\* So is what a sale comes to.
LEMMA SubtotalFacts ==
    ASSUME NEW q \in Request
    PROVE  Subtotal(q) \in Int /\ (LinesValid(q) => Subtotal(q) \in Nat)
<1> DEFINE S == Goods(q)
           each == [p \in S |-> Worth(q, p)]
<1>1. IsFiniteSet(S) /\ Subtotal(q) = SumOf(each, S) /\ S \subseteq Product
  BY SubtotalIs, LineFacts
<1>2. \A p \in S : each[p] \in Int /\ (LinesValid(q) => each[p] \in Nat)
  BY <1>1, WorthFacts
<1> HIDE DEF S, each
<1>3. SumOf(each, S) \in Int
  BY <1>1, <1>2, SumTakeOut
<1>4. LinesValid(q) => SumOf(each, S) \in Nat
  BY <1>1, <1>2, SumNat
<1>. QED BY <1>1, <1>3, <1>4

\* So is what the goods of a return were sold for.
LEMMA GrossFacts ==
    ASSUME NEW q \in Request
    PROVE  /\ Gross(q) \in Int
           /\ LinesValid(Asks[q].of) /\ (\A p \in Goods(q) : Qty(q, p) > 0) => Gross(q) \in Nat
<1> DEFINE S == Goods(q)
           s == Asks[q].of
           each == [p \in S |-> Made(q, p)]
           valid == LinesValid(s) /\ \A p \in S : Qty(q, p) > 0
<1>1. IsFiniteSet(S) /\ Gross(q) = SumOf(each, S) /\ S \subseteq Product /\ s \in Request
  BY GrossIs, LineFacts, AskFacts
<1>2. ASSUME NEW p \in S
      PROVE  each[p] \in Int /\ (valid => each[p] \in Nat)
  <2> DEFINE a == Worth(s, p)
             b == Qty(q, p)
             c == Qty(s, p)
             m == a * b
  <2>1. a \in Int /\ b \in Int /\ c \in Int /\ (valid => a \in Nat /\ b \in Nat)
    BY <1>1, WorthFacts, QtyFacts
  <2>2. m \in Int /\ (valid => m \in Nat)
    <3> HIDE DEF a, b, valid
    <3>. QED BY <2>1, Times
  <2>3. each[p] = IF c <= 0 THEN 0 ELSE Div(m, c)
    BY DEF Made
  <2>4. ~(c <= 0) => Div(m, c) \in Int /\ (m >= 0 => Div(m, c) \in Nat)
    <3> HIDE DEF m, c
    <3>. QED BY <2>1, <2>2, DivNumber
  <2> HIDE DEF m, c, each, valid
  <2>. QED BY <2>1, <2>2, <2>3, <2>4
<1> HIDE DEF S, each
<1>3. SumOf(each, S) \in Int
  BY <1>1, <1>2, SumTakeOut
<1>4. valid => SumOf(each, S) \in Nat
  <2> HIDE DEF valid
  <2>. QED BY <1>1, <1>2, SumNat
<1>. QED BY <1>1, <1>3, <1>4 DEF S

\* What the proofs need of all of them.
LEMMA SumFacts ==
    ASSUME NEW q \in Request
    PROVE  /\ \A p \in Product : Qty(q, p) \in Int /\ (p \notin Goods(q) => Qty(q, p) = 0)
           /\ Subtotal(q) \in Int /\ Gross(q) \in Int
           /\ LinesValid(q) => Subtotal(q) >= 0 /\ \A p \in Goods(q) : Qty(q, p) > 0
           /\ LinesValid(Asks[q].of) /\ (\A p \in Goods(q) : Qty(q, p) > 0) => Gross(q) >= 0
<1>1. \A n \in Nat : n >= 0
  OBVIOUS
<1>2. Goods(q) \subseteq Product
  BY LineFacts
<1>. QED BY <1>1, <1>2, QtyFacts, SubtotalFacts, GrossFacts

\* What a sale charges is a number, whoever asks.
LEMMA SaleNumbers ==
    ASSUME NEW s \in Request, Asks[s].kind = "sale"
    PROVE  /\ Subtotal(s) \in Int /\ Total(s) \in Int /\ Paid(s) \in Int /\ Charge(s) \in Int
           /\ Asks[s].who \in Customer \cup {None}
           /\ \A p \in Product : Qty(s, p) \in Int
<1>1. Subtotal(s) \in Int /\ \A p \in Product : Qty(s, p) \in Int
  BY SumFacts
<1>2. Asks[s].discount \in Int /\ Asks[s].n \in Int /\ Asks[s].who \in Customer \cup {None}
  BY AskFacts, AsksAssumption
<1> QED BY <1>1, <1>2 DEF Total, Paid, Charge

\* A valid sale charges what is not negative, credit only to a customer, and takes some of
\* every product in its cart.
LEMMA SaleAmounts ==
    ASSUME NEW s \in Request, Asks[s].kind = "sale", SaleValid(s)
    PROVE  /\ Subtotal(s) \in Nat /\ Asks[s].discount \in Nat
           /\ Asks[s].discount <= Subtotal(s)
           /\ Total(s) \in Nat /\ Charge(s) \in Nat
           /\ Charge(s) > 0 => Asks[s].who \in Customer
           /\ LinesValid(s)
           /\ \A p \in Goods(s) : Qty(s, p) \in Nat /\ Qty(s, p) > 0
           /\ \A p \in Product : Qty(s, p) \in Nat
<1>1. LinesValid(s) /\ DiscountValid(s) /\ Settleable(s) /\ NotOverpaid(s)
  BY DEF SaleValid
<1>2. /\ Subtotal(s) \in Int /\ Total(s) \in Int /\ Paid(s) \in Int /\ Charge(s) \in Int
      /\ Asks[s].who \in Customer \cup {None}
      /\ \A p \in Product : Qty(s, p) \in Int
  BY SaleNumbers
<1>3. Subtotal(s) >= 0 /\ \A p \in Goods(s) : Qty(s, p) > 0
  BY <1>1, SumFacts
<1>4. \A p \in Product : p \notin Goods(s) => Qty(s, p) = 0
  BY SumFacts
<1>5. Asks[s].discount \in Int /\ Goods(s) \subseteq Product
  BY AskFacts
<1>6. Subtotal(s) \in Nat /\ Asks[s].discount \in Nat /\ Asks[s].discount <= Subtotal(s)
  BY <1>1, <1>2, <1>3, <1>5 DEF DiscountValid
<1>7. Total(s) \in Nat
  BY <1>6, <1>2 DEF Total
<1>8. Charge(s) \in Nat
  BY <1>1, <1>2, <1>7 DEF Charge, NotOverpaid
<1>9. Charge(s) > 0 => Asks[s].who \in Customer
  BY <1>1, <1>2, <1>7 DEF Charge, Settleable
<1> QED BY <1>1, <1>2, <1>3, <1>4, <1>5, <1>6, <1>7, <1>8, <1>9

\* What of a settled sale can still be given back is not negative.
LEMMA RestOfSale ==
    ASSUME TypeOK, NEW s \in Request, SaleKept(s), sale[s].status = "settled"
    PROVE  /\ Asks[s].kind = "sale" /\ SaleValid(s) /\ Goods(s) # {}
           /\ sale[s].given \in Nat /\ sale[s].takenBack \in Nat
           /\ Total(s) - sale[s].given \in Nat /\ Charge(s) - sale[s].takenBack \in Nat
           /\ Total(s) \in Nat /\ Charge(s) \in Nat
           /\ \A p \in Goods(s) : Left(s, p) \in Nat
           /\ \A p \in Product : Left(s, p) \in Int /\ sale[s].returned[p] \in Nat
<1>1. Asks[s].kind = "sale" /\ SaleValid(s) /\ Goods(s) # {}
  BY DEF SaleKept
<1>2. sale[s] \in [status : {"none", "settled", "voided"},
                   returned : [Product -> Nat], given : Nat, takenBack : Nat]
  BY DEF TypeOK
<1>3. sale[s].given <= Total(s) /\ sale[s].takenBack <= Charge(s)
      /\ \A p \in Goods(s) : Left(s, p) >= 0
  BY DEF SaleKept
<1>4. sale[s].given \in Nat /\ sale[s].takenBack \in Nat /\ sale[s].returned \in [Product -> Nat]
  BY <1>2
<1>5. Goods(s) \subseteq Product
  BY AskFacts
<1> QED BY <1>1, <1>3, <1>4, <1>5, SaleAmounts DEF Left

\* A valid return is worth something between nothing and what is left of the sale, and
\* all of that if it takes the last of the goods.
LEMMA RefundTotalRange ==
    ASSUME TypeOK, NEW q \in Request, Asks[q].kind = "refund",
           SaleKept(Asks[q].of), sale[Asks[q].of].status = "settled",
           ~RefundInvalid(q, Asks[q].of)
    PROVE  LET s == Asks[q].of IN
           /\ RefundTotal(q) \in Nat /\ RefundTotal(q) <= Total(s) - sale[s].given
           /\ (\A p \in Goods(s) : Left(s, p) = Qty(q, p)) =>
                RefundTotal(q) = Total(s) - sale[s].given
<1> DEFINE s == Asks[q].of
           rest == Total(s) - sale[s].given
           last == \A p \in Goods(s) : Left(s, p) = Qty(q, p)
           g == Gross(q)
           d == DiscountShare(q)
<1>0. s \in Request
  BY AskFacts
<1>1. rest \in Nat /\ Asks[s].kind = "sale" /\ SaleValid(s)
  BY <1>0, RestOfSale
<1>2. g \in Nat
  <2>1. LinesValid(s)
    BY <1>0, <1>1, SaleAmounts
  <2>2. Goods(q) \subseteq Product
    BY AskFacts
  <2>3. \A p \in Goods(q) : Qty(q, p) \in Int /\ Qty(q, p) > 0
    BY <2>2, SumFacts DEF RefundInvalid
  <2> QED BY <2>1, <2>3, SumFacts
<1>3. d \in Nat /\ d <= g
  <2>1. Subtotal(s) \in Nat /\ Asks[s].discount \in Nat /\ Asks[s].discount <= Subtotal(s)
    BY <1>0, <1>1, SaleAmounts
  <2>2. CASE Subtotal(s) <= 0
    BY <2>2, <1>2 DEF DiscountShare
  <2>3. CASE Subtotal(s) > 0
    <3>1. d = Div(Asks[s].discount * g, Subtotal(s))
      BY <2>1, <2>3 DEF DiscountShare
    <3> QED BY <3>1, <2>1, <2>3, <1>2, DivPart
  <2> QED BY <2>1, <2>2, <2>3
<1>4. RefundTotal(q) = IF last THEN rest ELSE Min({g - d, rest})
  BY DEF RefundTotal
<1> HIDE DEF rest, last, g, d
<1>5. Min({g - d, rest}) = IF g - d <= rest THEN g - d ELSE rest
  BY <1>1, <1>2, <1>3, Min2
<1>6. RefundTotal(q) \in Nat /\ RefundTotal(q) <= rest /\ (last => RefundTotal(q) = rest)
  BY <1>1, <1>2, <1>3, <1>4, <1>5
<1> QED BY <1>6 DEF rest, last

\* What it takes off the debt is no more than it is worth, than is left of the sale's charge,
\* and than is owed.
LEMMA DebtBackRange ==
    ASSUME TypeOK, NEW q \in Request, Asks[q].kind = "refund",
           SaleKept(Asks[q].of), sale[Asks[q].of].status = "settled",
           ~RefundInvalid(q, Asks[q].of), NEW seen \in Nat
    PROVE  LET s == Asks[q].of IN
           /\ DebtBack(q, seen) \in Nat /\ DebtBack(q, seen) <= seen
           /\ DebtBack(q, seen) <= Charge(s) - sale[s].takenBack
           /\ DebtBack(q, seen) # 0 => Charge(s) > sale[s].takenBack
<1> DEFINE s == Asks[q].of
           charged == Charge(s) - sale[s].takenBack
           total == RefundTotal(q)
           m == Min({total, charged, seen})
<1>0. s \in Request
  BY AskFacts
<1>1. charged \in Nat /\ total \in Nat /\ Charge(s) \in Nat /\ sale[s].takenBack \in Nat
  BY <1>0, RestOfSale, RefundTotalRange
<1>2. DebtBack(q, seen) = IF charged <= 0 THEN 0 ELSE Max({0, m})
  BY DEF DebtBack
<1>2a. charged > 0 => Charge(s) > sale[s].takenBack
  BY <1>1
<1> HIDE DEF charged, total
<1>3. m \in Int /\ m <= charged /\ m <= seen /\ m >= 0
  <2>a. total \in Int /\ charged \in Int /\ seen \in Int
    BY <1>1
  <2>1. m \in {total, charged, seen} /\ m <= charged /\ m <= seen
    BY <2>a, Min3, Zenon
  <2> QED BY <2>1, <1>1
<1> HIDE DEF m
<1>4. Max({0, m}) = m
  BY <1>3, Max0
<1>5. /\ DebtBack(q, seen) \in Nat /\ DebtBack(q, seen) <= seen /\ DebtBack(q, seen) <= charged
      /\ DebtBack(q, seen) # 0 => charged > 0
  BY <1>1, <1>2, <1>3, <1>4
<1> QED BY <1>5, <1>2a DEF charged

-----------------------------------------------------------------------------
(* Rows and their order *)

\* The rows of a request are rows of the database.
LEMMA RowsType ==
    ASSUME NEW q \in Request
    PROVE  Rows(q) \subseteq Row
<1> DEFINE Id == Product \cup Customer \cup Supplier \cup Shift \cup Request
<1>1. /\ Asks[q].kind \in Kinds /\ Asks[q].of \in Request /\ Goods(q) \subseteq Product
      /\ Asks[q].who \in Id \cup {None} /\ Asks[q].shift \in Id \cup {None}
      /\ Asks[Asks[q].of].who \in Id \cup {None} /\ Asks[Asks[q].of].shift \in Id \cup {None}
  BY AskFacts
<1>2. /\ Asks[q].kind \in {"payment", "writeoff", "limit", "active"} => Asks[q].who \in Id
      /\ Asks[q].kind = "pay" => Asks[q].who \in Id
      /\ Asks[q].kind = "close" => Asks[q].shift \in Id
  BY AsksAssumption
<1>3. Row = Table \X Id
  BY DEF Row
<1>4. \A t \in Table, id \in Id : <<t, id>> \in Row
  BY <1>3
<1>5. \A t \in Table, id \in Id \cup {None} : Opt(t, id) \subseteq Row
  BY <1>4 DEF Opt
<1>6. Each("product", Goods(q)) \subseteq Row
  BY <1>1, <1>4 DEF Each, Table
<1> HIDE DEF Id
<1>7. SaleRows(q) \subseteq Row
  BY <1>1, <1>5, <1>6 DEF SaleRows, Table
<1>8. VoidRows(q) \subseteq Row /\ RefundRows(q) \subseteq Row
  <2>1. Asks[q].of \in Id
    BY <1>1 DEF Id
  <2> QED BY <2>1, <1>1, <1>4, <1>5 DEF VoidRows, RefundRows, Table
<1>9. /\ Asks[q].kind = "payment" => PaymentRows(q) \subseteq Row
      /\ Asks[q].kind \in {"writeoff", "limit", "active"} => CardRows(q) \subseteq Row
      /\ Asks[q].kind = "pay" => PayRows(q) \subseteq Row
      /\ Asks[q].kind = "close" => CloseRows(q) \subseteq Row
  BY <1>1, <1>2, <1>4, <1>5 DEF PaymentRows, CardRows, PayRows, CloseRows, Table
<1> QED BY <1>1, <1>6, <1>7, <1>8, <1>9 DEF Rows, ReceiptRows, Kinds

\* No row has the key "none".
LEMMA NoneIsNoKey ==
    ASSUME NEW t, NEW x, <<t, x>> \in Row
    PROVE  x # None
<1>1. x \in Product \cup Customer \cup Supplier \cup Shift \cup Request
  BY DEF Row
<1>2. Product \subseteq Int
  BY ProductAssumption
<1> QED BY <1>1, <1>2, NoneAssumption

\* What a request locks is among what it may lock.
LEMMA RowsMay ==
    ASSUME NEW q \in Request
    PROVE  Rows(q) \subseteq MayLock(q)
  BY AskFacts DEF Rows, MayLock, SaleRows, VoidRows, RefundRows, Kinds

\* A request locks the same rows as before, but for a return of a sale that was returned
\* in part meanwhile.
LEMMA RowsSame ==
    ASSUME NEW q \in Request,
           \/ Asks[q].kind # "refund"
           \/ sale'[Asks[q].of].takenBack = sale[Asks[q].of].takenBack
    PROVE  Rows(q)' = Rows(q) /\ MayLock(q)' = MayLock(q)
<1>1. Asks[q].kind \in Kinds
  BY AskFacts
<1> QED BY <1>1 DEF Rows, MayLock, SaleRows, VoidRows, RefundRows, PaymentRows, CardRows,
               ReceiptRows, PayRows, CloseRows, Charge, Total, Paid, Kinds

\* A void and a return lock their sale first.
LEMMA SaleFirst ==
    ASSUME NEW q \in Request, Asks[q].kind \in {"void", "refund"},
           NEW r \in MayLock(q), r # <<"sale", Asks[q].of>>
    PROVE  Before(q, <<"sale", Asks[q].of>>, r)
<1>1. Tables(Asks[q].kind) = <<"sale", "shift", "customer">>
  BY DEF Tables
<1>2. r[1] = "shift" \/ r[1] = "customer"
  BY DEF MayLock, Opt
<1>3. CASE r[1] = "shift"
  BY <1>1, <1>3 DEF Before
<1>4. CASE r[1] = "customer"
  BY <1>1, <1>4 DEF Before
<1> QED BY <1>2, <1>3, <1>4

\* So one that has not locked its sale has locked nothing.
LEMMA SaleHeld ==
    ASSUME Inv, NEW w \in Worker, txn[w].req # None,
           Asks[txn[w].req].kind \in {"void", "refund"},
           NEW r \in txn[w].held
    PROVE  <<"sale", Asks[txn[w].req].of>> \in txn[w].held
<1> DEFINE q == txn[w].req
           sl == <<"sale", Asks[q].of>>
<1>1. q \in Request /\ InOrder(w)
  BY DEF Inv, TypeOK, Txn
<1>2. r \in MayLock(q) /\ \A o \in Rows(q) \ txn[w].held : ~Before(q, o, r)
  BY <1>1 DEF InOrder
<1>3. sl \in Rows(q)
  BY DEF Rows, VoidRows, RefundRows
<1>4. r # sl => Before(q, sl, r)
  BY <1>1, <1>2, SaleFirst
<1> QED BY <1>2, <1>3, <1>4

-----------------------------------------------------------------------------
(* What a step leaves as it was *)

\* What a thread works on is well typed.
LEMMA TxnType ==
    ASSUME TypeOK, NEW w \in Worker
    PROVE  /\ txn[w] \in Txn /\ txn[w].req \in Request \cup {None}
           /\ txn[w].held \subseteq Row /\ txn[w].seen \in Int
<1>1. txn[w] \in Txn
  BY DEF TypeOK
<1> QED BY <1>1 DEF Txn

\* A thread that is done with its request holds nothing.
LEMMA IdleKeeps ==
    ASSUME Inv, NEW w \in Worker, GoOn(w, Idle)
    PROVE  /\ txn' \in [Worker -> Txn] /\ Exclusive'
           /\ Served(w)' /\ InOrder(w)' /\ Checked(w)'
<1>1. Idle \in Txn
  BY DEF Idle, Txn
<1>2. txn' = [txn EXCEPT ![w] = Idle] /\ txn \in [Worker -> Txn]
  BY DEF GoOn, Inv, TypeOK
<1>3. txn' \in [Worker -> Txn] /\ txn'[w] = Idle /\ \A v \in Worker \ {w} : txn'[v] = txn[v]
  BY <1>1, <1>2
<1>4. Exclusive'
  BY <1>3 DEF Inv, Exclusive, Idle
<1> QED BY <1>3, <1>4 DEF Served, InOrder, Checked, Idle

\* A thread other than w keeps what it was promised, if what is written spares the rows
\* it holds.
LEMMA OthersKeep ==
    ASSUME Inv, TypeOK', NEW v \in Worker, txn'[v] = txn[v],
           txn[v].req # None => request'[txn[v].req] = request[txn[v].req],
           \A p \in Product :
               \/ stock'[p].onHand + stock'[p].lost >= stock[p].onHand + stock[p].lost
               \/ <<"product", p>> \notin txn[v].held,
           \A c \in Customer :
               \/ debt'[c] = debt[c] /\ card'[c] = card[c]
               \/ <<"customer", c>> \notin txn[v].held,
           \A x \in Supplier : bill'[x] >= bill[x] \/ <<"supplier", x>> \notin txn[v].held,
           \A s \in Request :
               \/ sale'[s] = sale[s] /\ Returns(s)' = Returns(s)
               \/ /\ <<"sale", s>> \notin txn[v].held
                  /\ \/ sale'[s].takenBack = sale[s].takenBack
                     \/ sale[s].status = "settled"
    PROVE  Served(v)' /\ InOrder(v)' /\ Checked(v)'
<1> DEFINE q == txn[v].req
           s == Asks[q].of
           held == txn[v].held
<1>1. Served(v) /\ InOrder(v) /\ Checked(v) /\ TypeOK
  BY DEF Inv
<1>2. Served(v)'
  BY <1>1 DEF Served, Malformed
<1>3. CASE q = None
  BY <1>3, <1>2 DEF InOrder, Checked
<1>4. CASE q # None
  <2>1. q \in Request /\ s \in Request /\ Asks[q].kind \in Kinds /\ held \subseteq Row
    BY <1>1, <1>4, TxnType, AskFacts
  <2>2. InOrder(v)'
    <3>1. CASE Asks[q].kind # "refund" \/ sale'[s].takenBack = sale[s].takenBack
      <4>1. Rows(q)' = Rows(q) /\ MayLock(q)' = MayLock(q)
        BY <2>1, <3>1, RowsSame
      <4>2. /\ held \subseteq MayLock(q)
            /\ \A r \in held, o \in Rows(q) \ held : ~Before(q, o, r)
        BY <1>1, <1>4 DEF InOrder
      <4> QED BY <4>1, <4>2 DEF InOrder
    <3>2. CASE Asks[q].kind = "refund" /\ sale'[s].takenBack # sale[s].takenBack
      <4>1. <<"sale", s>> \notin held
        BY <2>1, <3>2
      <4>2. held = {}
        BY <4>1, <1>4, <3>2, SaleHeld
      <4> QED BY <4>2 DEF InOrder
    <3> QED BY <3>1, <3>2
  <2>3. Asks[q].kind = "sale" => SaleChecked(q, held)'
    <3> SUFFICES ASSUME Asks[q].kind = "sale" PROVE SaleChecked(q, held)'
      OBVIOUS
    <3>1. SaleChecked(q, held)
      BY <1>1, <1>4 DEF Checked
    <3>2. ASSUME Each("product", Goods(q)) \subseteq held
          PROVE  (SaleValid(q) /\ \A p \in Goods(q) : Qty(q, p) <= stock[p].onHand + stock[p].lost)'
      <4>1. SaleValid(q) /\ \A p \in Goods(q) : Qty(q, p) <= stock[p].onHand + stock[p].lost
        BY <3>1, <3>2 DEF SaleChecked
      <4>2. SaleValid(q)'
        BY <4>1 DEF SaleValid, LinesValid, DiscountValid, Settleable, NotOverpaid, Paid, Total
      <4>3. ASSUME NEW p \in Goods(q)
            PROVE  Qty(q, p) <= stock'[p].onHand + stock'[p].lost
        <5>1. p \in Product /\ <<"product", p>> \in held /\ Qty(q, p) \in Int
          BY <2>1, <3>2, <4>3, AskFacts, SumFacts DEF Each
        <5>2. stock[p] \in [onHand : Int, lost : Nat] /\ stock'[p] \in [onHand : Int, lost : Nat]
          BY <5>1, <1>1 DEF TypeOK
        <5>3. stock'[p].onHand + stock'[p].lost >= stock[p].onHand + stock[p].lost
          BY <5>1
        <5> DEFINE a == stock[p].onHand + stock[p].lost
                   b == stock'[p].onHand + stock'[p].lost
        <5>4. a \in Int /\ b \in Int /\ b >= a /\ Qty(q, p) <= a
          BY <5>2, <5>3, <4>1, <4>3
        <5> HIDE DEF a, b
        <5>5. Qty(q, p) <= b
          BY <5>4, <5>1
        <5> QED BY <5>5 DEF b
      <4>4. \A p \in Goods(q) : Qty(q, p) <= stock'[p].onHand + stock'[p].lost
        BY <4>3
      <4> QED BY <4>2, <4>4
    <3>3. ASSUME <<"customer", Asks[q].who>> \in held
          PROVE  (card[Asks[q].who].active /\ ~OverLimit(q, Asks[q].who))'
      <4>1. Asks[q].who \in Customer
        <5>1. Asks[q].who \in Customer \cup {None}
          BY <2>1, SaleNumbers
        <5>2. <<"customer", Asks[q].who>> \in Row
          BY <2>1, <3>3
        <5> QED BY <5>1, <5>2, NoneIsNoKey
      <4>2. debt'[Asks[q].who] = debt[Asks[q].who] /\ card'[Asks[q].who] = card[Asks[q].who]
        BY <4>1, <3>3
      <4> QED BY <4>2, <3>1, <3>3 DEF SaleChecked, OverLimit, Charge, Total, Paid
    <3> QED BY <3>2, <3>3 DEF SaleChecked
  <2>4. Asks[q].kind = "void" => VoidChecked(q, held)'
    BY <1>1, <1>4, <2>1 DEF Checked, VoidChecked
  <2>5. Asks[q].kind = "refund" => RefundChecked(q, held)'
    BY <1>1, <1>4, <2>1 DEF Checked, RefundChecked, RefundInvalid, Left
  <2>6. Asks[q].kind \in {"void", "refund"} => SeenChecked(q, held, txn[v].seen)'
    <3> SUFFICES ASSUME Asks[q].kind \in {"void", "refund"}, <<"customer", Asks[s].who>> \in held
                 PROVE  txn[v].seen = debt'[Asks[s].who]
      BY DEF SeenChecked
    <3>1. txn[v].seen = debt[Asks[s].who]
      BY <1>1, <1>4 DEF Checked, SeenChecked
    <3>2. Asks[s].who \in Customer
      <4>1. <<"sale", s>> \in held
        BY <1>4, SaleHeld
      <4>2. sale[s].status = "settled"
        BY <4>1, <1>1, <1>4 DEF Checked, VoidChecked, RefundChecked
      <4>3. Asks[s].kind = "sale"
        BY <4>2, <2>1 DEF Inv, SaleKept
      <4>4. Asks[s].who \in Customer \cup {None}
        BY <4>3, <2>1, SaleNumbers
      <4>5. <<"customer", Asks[s].who>> \in Row
        BY <2>1
      <4> QED BY <4>4, <4>5, NoneIsNoKey
    <3> QED BY <3>1, <3>2
  <2>7. Asks[q].kind \in {"payment", "writeoff"} => PaidChecked(q, held)'
    BY <1>1, <1>4, <2>1, AsksAssumption DEF Checked, PaidChecked
  <2>8. Asks[q].kind = "pay" => PayChecked(q, held)'
    <3> SUFFICES ASSUME Asks[q].kind = "pay", <<"supplier", Asks[q].who>> \in held
                 PROVE  Asks[q].n <= bill'[Asks[q].who]
      BY DEF PayChecked
    <3> DEFINE x == Asks[q].who
    <3>1. x \in Supplier /\ Asks[q].n \in Int
      BY <2>1, AsksAssumption
    <3>2. Asks[q].n <= bill[x] /\ bill[x] \in Int /\ bill'[x] \in Int /\ bill'[x] >= bill[x]
      BY <3>1, <1>1, <1>4 DEF Checked, PayChecked, TypeOK
    <3> QED BY <3>1, <3>2
  <2>9. Asks[q].kind = "receive" => ReceiptChecked(q, held)'
    BY <1>1, <1>4 DEF Checked, ReceiptChecked, LinesValid
  <2> QED BY <1>2, <1>4, <2>2, <2>3, <2>4, <2>5, <2>6, <2>7, <2>8, <2>9 DEF Checked
<1> QED BY <1>3, <1>4

-----------------------------------------------------------------------------
(* Writes *)

\* What is known of a request that writes.
LEMMA Writing ==
    ASSUME Inv, NEW w \in Worker, NEW kind, Ready(w, kind), Commit(w)
    PROVE  LET q == txn[w].req IN
           /\ q \in Request /\ Asks[q].kind = kind /\ request[q] = "new" /\ ~Malformed(q)
           /\ Rows(q) \subseteq txn[w].held /\ Checked(w)
           /\ Asks[q].of \in Request /\ Goods(q) \subseteq Product
           /\ asked' \subseteq Request
           /\ request' = [request EXCEPT ![q] = "done"]
           /\ request' \in [Request -> {"new", "done", "refused"}]
           /\ txn' \in [Worker -> Txn]
           /\ Exclusive' /\ Served(w)' /\ InOrder(w)' /\ Checked(w)'
           /\ \A v \in Worker \ {w} :
                /\ txn'[v] = txn[v] /\ txn[v].held \cap txn[w].held = {}
                /\ txn[v].req # None => request'[txn[v].req] = request[txn[v].req]
<1> DEFINE q == txn[w].req
<1>1. q \in Request /\ Asks[q].kind = kind /\ Rows(q) \subseteq txn[w].held
  BY TxnType DEF Ready, Inv
<1>2. request[q] = "new" /\ ~Malformed(q) /\ Checked(w)
  BY <1>1, NoneAssumption DEF Inv, Served, Ready
<1>3. request' = [request EXCEPT ![q] = "done"] /\ asked' = asked /\ GoOn(w, Idle)
  BY DEF Commit
<1>4. request' \in [Request -> {"new", "done", "refused"}] /\ asked' \subseteq Request
  BY <1>3 DEF Inv, TypeOK
<1>5. txn' \in [Worker -> Txn] /\ Exclusive' /\ Served(w)' /\ InOrder(w)' /\ Checked(w)'
  BY <1>3, IdleKeeps
<1>6. ASSUME NEW v \in Worker \ {w}
      PROVE  /\ txn'[v] = txn[v] /\ txn[v].held \cap txn[w].held = {}
             /\ txn[v].req # None => request'[txn[v].req] = request[txn[v].req]
  <2>1. txn'[v] = txn[v]
    BY <1>3 DEF GoOn, Inv, TypeOK
  <2>2. txn[v].held \cap txn[w].held = {} /\ (txn[v].req # None => txn[v].req # q)
    BY DEF Inv, Exclusive
  <2>3. txn[v].req \in Request \cup {None}
    BY TxnType DEF Inv
  <2> QED BY <2>1, <2>2, <2>3, <1>3 DEF Inv, TypeOK
<1> QED BY <1>1, <1>2, <1>3, <1>4, <1>5, <1>6, AskFacts

\* A request other than a sale, a void and a return leaves every sale as it was.
LEMMA SalesSame ==
    ASSUME Inv, NEW w \in Worker, NEW kind, Ready(w, kind), Commit(w), sale' = sale,
           kind \notin {"sale", "void", "refund"}
    PROVE  \A s \in Request : SaleKept(s)' /\ Returns(s)' = Returns(s)
<1> DEFINE q == txn[w].req
<1>1. q \in Request /\ Asks[q].kind = kind /\ request' = [request EXCEPT ![q] = "done"]
  BY Writing
<1>2. request \in [Request -> {"new", "done", "refused"}]
  BY DEF Inv, TypeOK
<1>3. ASSUME NEW s \in Request
      PROVE  SaleKept(s)' /\ Returns(s)' = Returns(s)
  <2>1. Returns(s)' = Returns(s) /\ Voids(s)' = Voids(s)
    BY <1>1, <1>2 DEF Returns, Voids, Is, Done
  <2>2. Asks[s].kind = "sale" => request'[s] = request[s]
    BY <1>1, <1>2
  <2>3. SaleKept(s)
    BY DEF Inv
  <2>4. /\ (sale[s] = NoSale)' <=> sale[s] = NoSale
        /\ SaleValid(s)' <=> SaleValid(s)
        /\ Goods(s)' = Goods(s) /\ Total(s)' = Total(s) /\ Charge(s)' = Charge(s)
        /\ \A p \in Goods(s) : Left(s, p)' = Left(s, p)
    BY DEF SaleValid, LinesValid, DiscountValid, Settleable, NotOverpaid, Paid, Total, Charge,
           Goods, NoSale, Left
  <2> QED BY <2>1, <2>2, <2>3, <2>4 DEF SaleKept
<1> QED BY <1>3

\* Stock changes by whole numbers.
LEMMA MoveType ==
    ASSUME TypeOK, NEW d \in [Product -> Int],
           stock' = [p \in Product |-> [stock[p] EXCEPT !.onHand = @ + d[p]]]
    PROVE  /\ stock' \in [Product -> [onHand : Int, lost : Nat]]
           /\ \A p \in Product : /\ stock'[p].onHand = stock[p].onHand + d[p]
                                 /\ stock'[p].lost = stock[p].lost
                                 /\ stock[p].onHand \in Int /\ stock[p].lost \in Nat
<1>1. \A p \in Product : stock[p] \in [onHand : Int, lost : Nat]
  BY DEF TypeOK
<1>2. \A p \in Product : [stock[p] EXCEPT !.onHand = @ + d[p]] \in [onHand : Int, lost : Nat]
  <2> TAKE p \in Product
  <2>1. stock[p] \in [onHand : Int, lost : Nat] /\ stock[p].onHand + d[p] \in Int
    BY <1>1
  <2> QED BY <2>1
<1> QED BY <1>1, <1>2

\* A ledger entry changes one balance.
LEMMA EnterOne ==
    ASSUME TypeOK, NEW c, NEW amount \in Int, amount # 0 => c \in Customer, Enter(c, amount)
    PROVE  /\ debt' \in [Customer -> Int]
           /\ \A k \in Customer : /\ debt[k] \in Int
                                  /\ debt'[k] = IF k = c /\ amount # 0 THEN debt[k] + amount
                                                ELSE debt[k]
<1>1. debt \in [Customer -> Int]
  BY DEF TypeOK
<1>2. debt' = IF amount = 0 THEN debt ELSE [debt EXCEPT ![c] = @ + amount]
  BY DEF Enter
<1> QED BY <1>1, <1>2

\* Collecting and forgiving a debt: no more than is owed.
LEMMA PaidKeeps ==
    ASSUME Inv, NEW w \in Worker, NEW kind \in {"payment", "writeoff"}, Ready(w, kind),
           Enter(Asks[txn[w].req].who, -Asks[txn[w].req].n), Commit(w),
           UNCHANGED <<stock, sale, bill, card, drawer>>
    PROVE  Inv' /\ \A c \in Customer : debt'[c] <= debt[c]
<1> DEFINE q == txn[w].req
           c == Asks[q].who
           n == Asks[q].n
<1>1. /\ q \in Request /\ Asks[q].kind = kind /\ ~Malformed(q) /\ Rows(q) \subseteq txn[w].held
      /\ Checked(w) /\ txn[w].req # None
  BY Writing DEF Ready
<1>2. c \in Customer /\ n \in Int
  BY <1>1, AsksAssumption
<1>3. <<"customer", c>> \in txn[w].held
  BY <1>1 DEF Rows, PaymentRows, CardRows
<1>4. n > 0 /\ n <= debt[c]
  BY <1>1, <1>3 DEF Checked, PaidChecked
<1>5. /\ debt' \in [Customer -> Int]
      /\ \A k \in Customer : /\ debt[k] \in Int
                             /\ debt'[k] = IF k = c THEN debt[k] - n ELSE debt[k]
  <2>1. -n \in Int /\ -n # 0
    BY <1>2, <1>4
  <2>2. /\ debt' \in [Customer -> Int]
        /\ \A k \in Customer : /\ debt[k] \in Int
                               /\ debt'[k] = IF k = c /\ -n # 0 THEN debt[k] + -n ELSE debt[k]
    BY <2>1, <1>2, EnterOne DEF Inv
  <2> QED BY <2>1, <2>2, <1>2
<1>6. TypeOK'
  BY <1>5, Writing DEF Inv, TypeOK
<1>7. \A s \in Request : SaleKept(s)' /\ Returns(s)' = Returns(s)
  BY SalesSame
<1>8. BalancesHold'
  BY <1>2, <1>4, <1>5 DEF Inv, BalancesHold
<1>9. \A v \in Worker \ {w} : Served(v)' /\ InOrder(v)' /\ Checked(v)'
  <2> SUFFICES ASSUME NEW v \in Worker \ {w} PROVE Served(v)' /\ InOrder(v)' /\ Checked(v)'
    OBVIOUS
  <2>1. /\ txn'[v] = txn[v] /\ txn[v].held \cap txn[w].held = {}
        /\ txn[v].req # None => request'[txn[v].req] = request[txn[v].req]
    BY Writing
  <2>2. \A k \in Customer : \/ debt'[k] = debt[k] /\ card'[k] = card[k]
                            \/ <<"customer", k>> \notin txn[v].held
    BY <2>1, <1>3, <1>5
  <2>3. /\ \A p \in Product : stock'[p].onHand + stock'[p].lost >= stock[p].onHand + stock[p].lost
        /\ \A x \in Supplier : bill'[x] >= bill[x]
    BY DEF Inv, TypeOK
  <2> QED BY <2>1, <2>2, <2>3, <1>6, <1>7, OthersKeep
<1>10. Exclusive' /\ Served(w)' /\ InOrder(w)' /\ Checked(w)'
  BY Writing
<1> QED BY <1>4, <1>5, <1>6, <1>7, <1>8, <1>9, <1>10, <1>2 DEF Inv

\* A step that writes none of the rows the other threads hold.
LEMMA OthersSpared ==
    ASSUME Inv, TypeOK', NEW w \in Worker, NEW kind, Ready(w, kind), Commit(w),
           \A p \in Product :
               \/ stock'[p].onHand + stock'[p].lost >= stock[p].onHand + stock[p].lost
               \/ <<"product", p>> \in txn[w].held,
           \A c \in Customer :
               \/ debt'[c] = debt[c] /\ card'[c] = card[c]
               \/ <<"customer", c>> \in txn[w].held,
           \A x \in Supplier : bill'[x] >= bill[x] \/ <<"supplier", x>> \in txn[w].held,
           \A s \in Request :
               \/ sale'[s] = sale[s] /\ Returns(s)' = Returns(s)
               \/ sale[s].status = "settled" /\ <<"sale", s>> \in txn[w].held
               \/ sale[s].status = "none" /\ sale'[s].takenBack = sale[s].takenBack
    PROVE  \A v \in Worker : Served(v)' /\ InOrder(v)' /\ Checked(v)'
<1>1. Served(w)' /\ InOrder(w)' /\ Checked(w)'
  BY Writing
<1>2. ASSUME NEW v \in Worker \ {w}
      PROVE  Served(v)' /\ InOrder(v)' /\ Checked(v)'
  <2>1. /\ txn'[v] = txn[v] /\ txn[v].held \cap txn[w].held = {}
        /\ txn[v].req # None => request'[txn[v].req] = request[txn[v].req]
    BY Writing
  <2>2. ASSUME NEW s \in Request
        PROVE  \/ sale'[s] = sale[s] /\ Returns(s)' = Returns(s)
               \/ /\ <<"sale", s>> \notin txn[v].held
                  /\ \/ sale'[s].takenBack = sale[s].takenBack
                     \/ sale[s].status = "settled"
    <3>1. CASE sale[s].status = "settled" /\ <<"sale", s>> \in txn[w].held
      BY <3>1, <2>1
    <3>2. CASE sale[s].status = "none" /\ sale'[s].takenBack = sale[s].takenBack
      <4>1. ASSUME <<"sale", s>> \in txn[v].held
            PROVE  FALSE
        <5> DEFINE q == txn[v].req
        <5>1. Served(v) /\ InOrder(v) /\ Checked(v)
          BY DEF Inv
        <5>2. q # None /\ q \in Request /\ <<"sale", s>> \in MayLock(q)
          BY <4>1, <5>1, TxnType DEF Inv, Served, InOrder
        <5>3. Asks[q].kind \in {"void", "refund"} /\ Asks[q].of = s
          <6>1. Asks[q].kind \in Kinds
            BY <5>2, AskFacts
          <6> QED BY <5>2, <6>1 DEF MayLock, Opt, Each, Rows, PaymentRows, CardRows, ReceiptRows,
                                    PayRows, CloseRows, Kinds
        <5> QED BY <4>1, <5>1, <5>2, <5>3, <3>2 DEF Checked, VoidChecked, RefundChecked
      <4> QED BY <4>1, <3>2
    <3> QED BY <3>1, <3>2
  <2>3. \A p \in Product :
            \/ stock'[p].onHand + stock'[p].lost >= stock[p].onHand + stock[p].lost
            \/ <<"product", p>> \notin txn[v].held
    BY <2>1
  <2>4. \A c \in Customer : \/ debt'[c] = debt[c] /\ card'[c] = card[c]
                            \/ <<"customer", c>> \notin txn[v].held
    BY <2>1
  <2>5. \A x \in Supplier : bill'[x] >= bill[x] \/ <<"supplier", x>> \notin txn[v].held
    BY <2>1
  <2> QED BY <2>1, <2>2, <2>3, <2>4, <2>5, OthersKeep
<1> QED BY <1>1, <1>2

\* A sale takes what is in stock, and puts no more on a debt than its limit.
LEMMA SettleSaleKeeps ==
    ASSUME Inv, NEW w \in Worker, SettleSale(w)
    PROVE  Inv' /\ \A c \in Customer : debt'[c] > debt[c] =>
                       card[c].active /\ (card[c].limit = None \/ debt'[c] <= card[c].limit)
<1> DEFINE s == txn[w].req
           who == Asks[s].who
           d == [p \in Product |-> -Qty(s, p)]
<1>0. Ready(w, "sale") /\ Commit(w) /\ UNCHANGED <<bill, card, drawer>> /\ s # None
  BY DEF SettleSale, Ready
<1>1. /\ s \in Request /\ Asks[s].kind = "sale" /\ request[s] = "new" /\ ~Malformed(s)
      /\ Rows(s) \subseteq txn[w].held /\ Checked(w) /\ Goods(s) \subseteq Product
      /\ request' = [request EXCEPT ![s] = "done"]
  BY <1>0, Writing
<1>2. Each("product", Goods(s)) \subseteq txn[w].held
  BY <1>1 DEF Rows, SaleRows
<1>3. SaleValid(s) /\ \A p \in Goods(s) : Qty(s, p) <= stock[p].onHand + stock[p].lost
  BY <1>0, <1>1, <1>2 DEF Checked, SaleChecked
<1>4. /\ Charge(s) \in Nat /\ (Charge(s) > 0 => who \in Customer)
      /\ Total(s) \in Nat
      /\ \A p \in Product : Qty(s, p) \in Nat
      /\ \A p \in Goods(s) : Qty(s, p) > 0
  BY <1>1, <1>3, SaleAmounts
<1>5. \A p \in Product : p \notin Goods(s) => Qty(s, p) = 0
  BY <1>1, SumFacts
<1>6. sale[s] = NoSale /\ sale[s].status = "none"
  BY <1>1 DEF Inv, SaleKept, TypeOK
<1>7. Goods(s) # {}
  <2>1. Asks[s].lines # <<>> /\ Asks[s].lines \in Seq(Line)
    BY <1>1, AskFacts DEF Malformed
  <2>2. 1 \in DOMAIN Asks[s].lines
    BY <2>1
  <2> QED BY <2>2 DEF Goods
<1>8. /\ stock' \in [Product -> [onHand : Int, lost : Nat]]
      /\ \A p \in Product : /\ stock'[p].onHand = stock[p].onHand - Qty(s, p)
                            /\ stock'[p].lost = stock[p].lost
                            /\ stock[p].onHand \in Int /\ stock[p].lost \in Nat
  <2>1. d \in [Product -> Int]
    BY <1>4
  <2>2. stock' = [p \in Product |-> [stock[p] EXCEPT !.onHand = @ + d[p]]]
    BY DEF SettleSale, Move
  <2>3. \A p \in Product : d[p] = -Qty(s, p)
    OBVIOUS
  <2> HIDE DEF d
  <2>4. /\ stock' \in [Product -> [onHand : Int, lost : Nat]]
        /\ \A p \in Product : /\ stock'[p].onHand = stock[p].onHand + d[p]
                              /\ stock'[p].lost = stock[p].lost
                              /\ stock[p].onHand \in Int /\ stock[p].lost \in Nat
    BY <2>1, <2>2, MoveType DEF Inv
  <2> QED BY <2>3, <2>4, <1>4
<1>9. /\ debt' \in [Customer -> Int]
      /\ \A c \in Customer : /\ debt[c] \in Int
                             /\ debt'[c] = IF c = who /\ Charge(s) # 0 THEN debt[c] + Charge(s)
                                           ELSE debt[c]
  <2>1. Charge(s) \in Int /\ (Charge(s) # 0 => who \in Customer)
    BY <1>4
  <2>2. Enter(who, Charge(s)) /\ TypeOK
    BY DEF SettleSale, Inv
  <2> HIDE DEF s, who
  <2> QED BY <2>1, <2>2, EnterOne
<1>10. /\ sale' = [sale EXCEPT ![s].status = "settled"]
       /\ sale'[s].status = "settled" /\ sale'[s].returned = sale[s].returned
       /\ sale'[s].given = sale[s].given /\ sale'[s].takenBack = sale[s].takenBack
       /\ \A t \in Request : t # s => sale'[t] = sale[t]
  <2>1. sale' = [sale EXCEPT ![s].status = "settled"]
    BY DEF SettleSale
  <2>2. sale \in [Request -> [status : {"none", "settled", "voided"},
                              returned : [Product -> Nat], given : Nat, takenBack : Nat]]
    BY DEF Inv, TypeOK
  <2> HIDE DEF s
  <2>3. sale'[s] = [sale[s] EXCEPT !.status = "settled"]
        /\ \A t \in Request : t # s => sale'[t] = sale[t]
    BY <1>1, <2>1, <2>2
  <2>4. sale[s] \in [status : {"none", "settled", "voided"},
                     returned : [Product -> Nat], given : Nat, takenBack : Nat]
    BY <1>1, <2>2
  <2> QED BY <2>1, <2>3, <2>4
<1>11. TypeOK'
  <2>1. sale' \in [Request -> [status : {"none", "settled", "voided"},
                               returned : [Product -> Nat], given : Nat, takenBack : Nat]]
    BY ZenonT(60), <1>10 DEF Inv, TypeOK
  <2> QED BY <2>1, <1>0, <1>8, <1>9, Writing DEF Inv, TypeOK
<1>12. Charge(s) # 0 =>
         /\ who \in Customer /\ <<"customer", who>> \in txn[w].held
         /\ card[who].active /\ ~OverLimit(s, who)
  <2> SUFFICES ASSUME Charge(s) # 0
               PROVE  /\ who \in Customer /\ <<"customer", who>> \in txn[w].held
                      /\ card[who].active /\ ~OverLimit(s, who)
    OBVIOUS
  <2>1. Charge(s) > 0 /\ who \in Customer /\ who # None
    BY <1>4, NoneAssumption
  <2>2. <<"customer", who>> \in Rows(s)
    BY <1>1, <2>1 DEF Rows, SaleRows, Opt
  <2> QED BY <2>1, <2>2, <1>0, <1>1 DEF Checked, SaleChecked
<1>13. \A t \in Request : Voids(t)' = Voids(t) /\ Returns(t)' = Returns(t)
  BY <1>1 DEF Voids, Returns, Is, Done, Inv, TypeOK
<1>14. ASSUME NEW t \in Request
       PROVE  SaleKept(t)'
  <2>1. SaleKept(t)
    BY DEF Inv
  <2>2. /\ SaleValid(t)' <=> SaleValid(t)
        /\ Goods(t)' = Goods(t) /\ Total(t)' = Total(t) /\ Charge(t)' = Charge(t)
    BY DEF SaleValid, LinesValid, DiscountValid, Settleable, NotOverpaid, Paid, Total, Charge, Goods
  <2>3. CASE t # s
    <3>1. sale'[t] = sale[t] /\ request'[t] = request[t]
      BY <2>3, <1>1, <1>10 DEF Inv, TypeOK
    <3>2. (sale[t] = NoSale)' <=> sale[t] = NoSale
      BY <3>1 DEF NoSale
    <3>3. \A p \in Goods(t) : Left(t, p)' = Left(t, p)
      BY <3>1 DEF Left
    <3> QED BY <2>1, <2>2, <3>1, <3>2, <3>3, <1>13 DEF SaleKept
  <2>4. CASE t = s
    <3>1. Voids(s) = {} /\ Returns(s) = {}
      BY <2>1, <2>4, <1>6 DEF SaleKept
    <3>2. \A p \in Goods(t) : Left(t, p)' = Qty(t, p)
      <4> SUFFICES ASSUME NEW p \in Goods(t) PROVE Left(t, p)' = Qty(t, p)
        OBVIOUS
      <4>1. p \in Product /\ Qty(t, p) \in Nat
        BY <2>4, <1>1, <1>4
      <4>2. sale'[t].returned[p] = 0
        BY <2>4, <4>1, <1>6, <1>10 DEF NoSale
      <4> QED BY <4>1, <4>2 DEF Left
    <3>3. sale'[t].given = 0 /\ sale'[t].takenBack = 0
      BY <2>4, <1>6, <1>10 DEF NoSale
    <3>4. request'[t] = "done" /\ sale'[t].status = "settled"
      BY <2>4, <1>1, <1>10 DEF Inv, TypeOK
    <3>5. \A p \in Goods(t) : Left(t, p)' \in Nat /\ Left(t, p)' > 0
      BY <3>2, <2>4, <1>1, <1>4
    <3>6. sale'[t].given <= Total(t)' /\ sale'[t].takenBack <= Charge(t)'
      BY <3>3, <2>2, <2>4, <1>4
    <3>7. Voids(t)' = {} /\ Returns(t)' = {}
      BY <3>1, <2>4, <1>13
    <3>8. SaleValid(t)' /\ Goods(t)' # {} /\ ~(\A p \in Goods(t)' : Left(t, p)' = 0)
      BY <3>5, <2>2, <2>4, <1>3, <1>7
    <3>9. Asks[t].kind = "sale"
      BY <2>4, <1>1
    <3> QED BY <2>2, <3>3, <3>4, <3>5, <3>6, <3>7, <3>8, <3>9 DEF SaleKept
  <2> QED BY <2>3, <2>4
<1>15. BalancesHold'
  <2>1. \A p \in Product : stock'[p].onHand + stock'[p].lost >= 0
    BY <1>1, <1>3, <1>4, <1>5, <1>8 DEF Inv, BalancesHold
  <2>2. \A c \in Customer : debt'[c] >= 0
    BY <1>4, <1>9 DEF Inv, BalancesHold
  <2> QED BY <2>1, <2>2, <1>0 DEF Inv, BalancesHold
<1>16. \A v \in Worker : Served(v)' /\ InOrder(v)' /\ Checked(v)'
  <2>1. ASSUME NEW p \in Product
        PROVE  \/ stock'[p].onHand + stock'[p].lost >= stock[p].onHand + stock[p].lost
               \/ <<"product", p>> \in txn[w].held
    BY <1>2, <1>5, <1>8 DEF Each
  <2>2. \A c \in Customer : \/ debt'[c] = debt[c] /\ card'[c] = card[c]
                            \/ <<"customer", c>> \in txn[w].held
    BY <1>0, <1>9, <1>12
  <2>3. \A x \in Supplier : bill'[x] >= bill[x]
    BY <1>0 DEF Inv, TypeOK
  <2>4. \A t \in Request :
          \/ sale'[t] = sale[t] /\ Returns(t)' = Returns(t)
          \/ sale[t].status = "none" /\ sale'[t].takenBack = sale[t].takenBack
    BY <1>6, <1>10, <1>13
  <2> QED BY <1>0, <1>11, <2>1, <2>2, <2>3, <2>4, OthersSpared
<1>17. ASSUME NEW c \in Customer, debt'[c] > debt[c]
       PROVE  card[c].active /\ (card[c].limit = None \/ debt'[c] <= card[c].limit)
  <2>1. c = who /\ Charge(s) # 0 /\ debt'[c] = debt[c] + Charge(s)
    BY <1>9, <1>17
  <2>2. card[c].limit \in Nat \cup {None} /\ debt[c] \in Int /\ Charge(s) \in Int
    BY <1>4, <1>9 DEF Inv, TypeOK
  <2>3. card[c].active /\ ~OverLimit(s, c)
    BY <2>1, <1>12
  <2>4. card[c].limit = None \/ ~(debt'[c] > card[c].limit)
    BY <2>1, <2>3 DEF OverLimit
  <2>5. debt'[c] \in Int
    BY <1>9
  <2> QED BY <2>2, <2>3, <2>4, <2>5, NoneAssumption
<1>18. Exclusive'
  BY <1>0, Writing
<1> QED BY <1>11, <1>14, <1>15, <1>16, <1>17, <1>18 DEF Inv

\* A void puts the goods back and takes off the debt no more than is owed.
LEMMA VoidSaleKeeps ==
    ASSUME Inv, NEW w \in Worker, VoidSale(w)
    PROVE  Inv' /\ \A c \in Customer : debt'[c] <= debt[c]
<1> DEFINE q == txn[w].req
           owed == Max({0, txn[w].seen})
<1>0. Ready(w, "void") /\ Commit(w) /\ UNCHANGED <<bill, card, drawer>> /\ q # None
  BY DEF VoidSale, Ready
<1>1. /\ q \in Request /\ Asks[q].kind = "void" /\ Asks[q].of \in Request
      /\ Rows(q) \subseteq txn[w].held /\ Checked(w)
      /\ request' = [request EXCEPT ![q] = "done"] /\ request[q] = "new"
  BY <1>0, Writing
<1>2. PICK s \in Request : s = Asks[q].of
  BY <1>1
<1>3. <<"sale", s>> \in txn[w].held
  BY <1>1, <1>2 DEF Rows, VoidRows
<1>4. sale[s].status = "settled" /\ Returns(s) = {} /\ SaleKept(s)
  BY <1>0, <1>1, <1>2, <1>3 DEF Inv, Checked, VoidChecked
<1>5. Asks[s].kind = "sale" /\ SaleValid(s)
  BY <1>4, RestOfSale DEF Inv
<1>6. /\ Charge(s) \in Nat /\ (Charge(s) > 0 => Asks[s].who \in Customer)
      /\ \A p \in Product : Qty(s, p) \in Nat
  BY <1>5, SaleAmounts
<1> DEFINE who == Asks[s].who
           back == IF Charge(s) = 0 THEN 0 ELSE -Min({Charge(s), owed})
           d == [p \in Product |-> Qty(s, p)]
<1>7. Charge(s) # 0 =>
        /\ who \in Customer /\ <<"customer", who>> \in txn[w].held
        /\ txn[w].seen = debt[who] /\ debt[who] \in Nat
  <2> SUFFICES ASSUME Charge(s) # 0
               PROVE  /\ who \in Customer /\ <<"customer", who>> \in txn[w].held
                      /\ txn[w].seen = debt[who] /\ debt[who] \in Nat
    OBVIOUS
  <2>1. Charge(s) > 0 /\ who \in Customer /\ who # None
    BY <1>6, NoneAssumption
  <2>2. <<"customer", who>> \in Rows(q)
    BY <1>1, <1>2, <2>1 DEF Rows, VoidRows, Opt
  <2>3. txn[w].seen = debt[who]
    BY <1>0, <1>1, <1>2, <2>2 DEF Checked, SeenChecked
  <2>4. debt[who] \in Nat
    BY <2>1 DEF Inv, TypeOK, BalancesHold
  <2> QED BY <1>1, <2>1, <2>2, <2>3, <2>4
<1>8. /\ back \in Int /\ back <= 0
      /\ back # 0 => Charge(s) # 0 /\ debt[who] + back >= 0
  <2>1. CASE Charge(s) = 0
    BY <2>1
  <2>2. CASE Charge(s) # 0
    <3>1. txn[w].seen \in Nat /\ txn[w].seen = debt[who]
      BY <1>7, <2>2
    <3>2. owed = debt[who] /\ owed \in Nat
      BY <3>1, Max0
    <3> HIDE DEF owed
    <3>3. Min({Charge(s), owed}) = IF Charge(s) <= owed THEN Charge(s) ELSE owed
      BY <1>6, <3>2, Min2
    <3> QED BY <1>6, <2>2, <3>2, <3>3
  <2> QED BY <2>1, <2>2
<1>9. /\ debt' \in [Customer -> Int]
      /\ \A c \in Customer : /\ debt[c] \in Int
                             /\ debt'[c] = IF c = who /\ back # 0 THEN debt[c] + back ELSE debt[c]
  <2>1. back \in Int /\ (back # 0 => who \in Customer)
    BY <1>7, <1>8
  <2>2. Enter(who, back) /\ TypeOK
    BY <1>2 DEF VoidSale, Inv
  <2> HIDE DEF who, back
  <2> QED BY <2>1, <2>2, EnterOne
<1>10. /\ stock' \in [Product -> [onHand : Int, lost : Nat]]
       /\ \A p \in Product : stock'[p].onHand + stock'[p].lost >= stock[p].onHand + stock[p].lost
  <2>1. d \in [Product -> Int]
    BY <1>6
  <2>2. stock' = [p \in Product |-> [stock[p] EXCEPT !.onHand = @ + d[p]]]
    BY <1>2 DEF VoidSale, Move
  <2>3. \A p \in Product : d[p] \in Nat
    BY <1>6
  <2> HIDE DEF d
  <2>4. /\ stock' \in [Product -> [onHand : Int, lost : Nat]]
        /\ \A p \in Product : /\ stock'[p].onHand = stock[p].onHand + d[p]
                              /\ stock'[p].lost = stock[p].lost
                              /\ stock[p].onHand \in Int /\ stock[p].lost \in Nat
    BY <2>1, <2>2, MoveType DEF Inv
  <2> QED BY <2>3, <2>4
<1>11. /\ sale' \in [Request -> [status : {"none", "settled", "voided"},
                                 returned : [Product -> Nat], given : Nat, takenBack : Nat]]
       /\ sale'[s].status = "voided" /\ sale'[s].returned = sale[s].returned
       /\ sale'[s].given = sale[s].given /\ sale'[s].takenBack = sale[s].takenBack
       /\ \A t \in Request : t # s => sale'[t] = sale[t]
  <2>1. sale' = [sale EXCEPT ![s].status = "voided"]
    BY <1>2 DEF VoidSale
  <2>2. sale \in [Request -> [status : {"none", "settled", "voided"},
                              returned : [Product -> Nat], given : Nat, takenBack : Nat]]
    BY DEF Inv, TypeOK
  <2>3. sale[s] \in [status : {"none", "settled", "voided"},
                     returned : [Product -> Nat], given : Nat, takenBack : Nat]
    BY <2>2
  <2> QED BY <2>1, <2>2, <2>3
<1>12. TypeOK'
  BY <1>0, <1>9, <1>10, <1>11, Writing DEF Inv, TypeOK
<1>13. /\ \A t \in Request : Returns(t)' = Returns(t)
       /\ \A t \in Request : t # s => Voids(t)' = Voids(t)
       /\ Voids(s)' = {q}
  <2>1. Voids(s) = {}
    BY <1>4 DEF SaleKept
  <2> QED BY <2>1, <1>1, <1>2 DEF Voids, Returns, Is, Done, Inv, TypeOK
<1>14. ASSUME NEW t \in Request
       PROVE  SaleKept(t)'
  <2>1. SaleKept(t)
    BY DEF Inv
  <2>2. /\ SaleValid(t)' <=> SaleValid(t)
        /\ Goods(t)' = Goods(t) /\ Total(t)' = Total(t) /\ Charge(t)' = Charge(t)
        /\ \A p \in Goods(t) : Left(t, p)' = Left(t, p)
    <3>1. \A p \in Goods(t) : Left(t, p)' = Left(t, p)
      BY <1>11 DEF Left
    <3> QED BY <3>1 DEF SaleValid, LinesValid, DiscountValid, Settleable, NotOverpaid, Paid, Total,
                        Charge, Goods
  <2>3. request'[t] = request[t] \/ Asks[t].kind = "void"
    BY <1>1 DEF Inv, TypeOK
  <2>4. CASE t # s
    <3>1. sale'[t] = sale[t]
      BY <2>4, <1>11
    <3>2. (sale[t] = NoSale)' <=> sale[t] = NoSale
      BY <3>1 DEF NoSale
    <3> QED BY <2>1, <2>2, <2>3, <2>4, <3>1, <3>2, <1>13 DEF SaleKept
  <2>5. CASE t = s
    <3>1. Voids(t)' # {} /\ (\A u, v \in Voids(t)' : u = v) /\ Returns(t)' = {}
      BY <2>5, <1>4, <1>13
    <3>2. request'[t] = "done" /\ sale'[t].status = "voided" /\ Asks[t].kind = "sale"
      BY <2>1, <2>3, <2>5, <1>4, <1>5, <1>11 DEF SaleKept
    <3> QED BY <2>1, <2>2, <2>5, <3>1, <3>2, <1>4, <1>11 DEF SaleKept
  <2> QED BY <2>4, <2>5
<1>15. BalancesHold'
  <2>1. \A p \in Product : stock'[p].onHand + stock'[p].lost >= 0
    <3> SUFFICES ASSUME NEW p \in Product PROVE stock'[p].onHand + stock'[p].lost >= 0
      OBVIOUS
    <3>1. stock[p].onHand + stock[p].lost >= 0
      BY DEF Inv, BalancesHold
    <3>2. stock[p] \in [onHand : Int, lost : Nat] /\ stock'[p] \in [onHand : Int, lost : Nat]
      BY <1>10 DEF Inv, TypeOK
    <3> QED BY <3>1, <3>2, <1>10
  <2>2. \A c \in Customer : debt'[c] >= 0
    BY <1>8, <1>9 DEF Inv, BalancesHold
  <2> QED BY <2>1, <2>2, <1>0 DEF Inv, BalancesHold
<1>16. \A v \in Worker : Served(v)' /\ InOrder(v)' /\ Checked(v)'
  <2>1. \A c \in Customer : \/ debt'[c] = debt[c] /\ card'[c] = card[c]
                            \/ <<"customer", c>> \in txn[w].held
    BY <1>0, <1>7, <1>8, <1>9
  <2>2. \A x \in Supplier : bill'[x] >= bill[x]
    BY <1>0 DEF Inv, TypeOK
  <2>3. \A t \in Request :
          \/ sale'[t] = sale[t] /\ Returns(t)' = Returns(t)
          \/ sale[t].status = "settled" /\ <<"sale", t>> \in txn[w].held
    BY <1>3, <1>4, <1>11, <1>13
  <2> QED BY <1>0, <1>10, <1>12, <2>1, <2>2, <2>3, OthersSpared
<1>17. \A c \in Customer : debt'[c] <= debt[c]
  <2> HIDE DEF back, who
  <2> QED BY <1>8, <1>9
<1>18. Exclusive'
  BY <1>0, Writing
<1> QED BY <1>12, <1>14, <1>15, <1>16, <1>17, <1>18 DEF Inv

\* A return puts goods back, and gives back and takes off the debt no more than is left.
LEMMA RefundSaleKeeps ==
    ASSUME Inv, NEW w \in Worker, RefundSale(w)
    PROVE  Inv' /\ \A c \in Customer : debt'[c] <= debt[c]
<1>0. Ready(w, "refund") /\ Commit(w) /\ UNCHANGED <<bill, card, drawer>> /\ txn[w].req # None
  BY DEF RefundSale, Ready
<1>a. PICK q \in Request : q = txn[w].req
  BY <1>0, Writing
<1>1. /\ Asks[q].kind = "refund" /\ Asks[q].of \in Request
      /\ Rows(q) \subseteq txn[w].held /\ Checked(w)
      /\ request' = [request EXCEPT ![q] = "done"] /\ request[q] = "new"
  BY <1>0, <1>a, Writing
<1>2. PICK s \in Request : s = Asks[q].of
  BY <1>1
<1>3. <<"sale", s>> \in txn[w].held
  BY <1>1, <1>2 DEF Rows, RefundRows
<1>4. sale[s].status = "settled" /\ ~RefundInvalid(q, s) /\ SaleKept(s)
  BY <1>0, <1>a, <1>1, <1>2, <1>3 DEF Inv, Checked, RefundChecked
<1>5. /\ Asks[s].kind = "sale" /\ SaleValid(s)
      /\ sale[s].given \in Nat /\ sale[s].takenBack \in Nat
      /\ Total(s) - sale[s].given \in Nat /\ Charge(s) - sale[s].takenBack \in Nat
      /\ \A p \in Product : Left(s, p) \in Int /\ sale[s].returned[p] \in Nat
      /\ Total(s) \in Nat /\ Charge(s) \in Nat
  BY <1>4, RestOfSale DEF Inv
<1>6. /\ Charge(s) > 0 => Asks[s].who \in Customer
      /\ \A p \in Product : Qty(s, p) \in Nat
      /\ Goods(s) \subseteq Product
  BY <1>5, SaleAmounts, AskFacts
<1>7. /\ \A p \in Product : Qty(q, p) \in Nat
      /\ \A p \in Product : p \notin Goods(q) => Qty(q, p) = 0
      /\ \A p \in Goods(q) : Qty(q, p) <= Left(s, p)
  <2>1. \A p \in Product : Qty(q, p) \in Int /\ (p \notin Goods(q) => Qty(q, p) = 0)
    BY SumFacts
  <2>2. \A p \in Goods(q) : ~(Qty(q, p) <= 0) /\ ~(Qty(q, p) > Left(s, p)) /\ p \in Product
    BY <1>4, AskFacts DEF RefundInvalid
  <2> QED BY <2>1, <2>2, <1>5
<1> DEFINE who == Asks[s].who
           total == RefundTotal(q)
           back == DebtBack(q, txn[w].seen)
           d == [p \in Product |-> Qty(q, p)]
<1>8. /\ total \in Nat /\ total <= Total(s) - sale[s].given
      /\ (\A p \in Goods(s) : Left(s, p) = Qty(q, p)) => total = Total(s) - sale[s].given
  BY <1>1, <1>2, <1>4, RefundTotalRange DEF Inv
<1>9. Charge(s) > sale[s].takenBack =>
        /\ who \in Customer /\ <<"customer", who>> \in txn[w].held
        /\ txn[w].seen = debt[who] /\ debt[who] \in Nat
  <2> SUFFICES ASSUME Charge(s) > sale[s].takenBack
               PROVE  /\ who \in Customer /\ <<"customer", who>> \in txn[w].held
                      /\ txn[w].seen = debt[who] /\ debt[who] \in Nat
    OBVIOUS
  <2>1. who \in Customer /\ who # None
    BY <1>5, <1>6, NoneAssumption
  <2>2. <<"customer", who>> \in Rows(q)
    BY <1>1, <1>2, <2>1 DEF Rows, RefundRows, Opt
  <2>3. txn[w].seen = debt[who]
    BY <1>0, <1>a, <1>1, <1>2, <2>2 DEF Checked, SeenChecked
  <2>4. debt[who] \in Nat
    BY <2>1 DEF Inv, TypeOK, BalancesHold
  <2> QED BY <1>1, <2>1, <2>2, <2>3, <2>4
<1>10. /\ back \in Nat /\ back <= Charge(s) - sale[s].takenBack
       /\ back # 0 => Charge(s) > sale[s].takenBack /\ debt[who] - back >= 0
  <2>1. CASE Charge(s) > sale[s].takenBack
    <3>1. txn[w].seen \in Nat /\ txn[w].seen = debt[who]
      BY <1>9, <2>1
    <3>2. back \in Nat /\ back <= txn[w].seen /\ back <= Charge(s) - sale[s].takenBack
      BY <3>1, <1>1, <1>2, <1>4, DebtBackRange DEF Inv
    <3> HIDE DEF back
    <3> QED BY <2>1, <3>1, <3>2
  <2>2. CASE ~(Charge(s) > sale[s].takenBack)
    <3>1. back = 0
      BY <2>2, <1>2, <1>5 DEF DebtBack
    <3> QED BY <3>1, <1>5
  <2> QED BY <2>1, <2>2
<1> HIDE DEF total, back
<1>11. /\ debt' \in [Customer -> Int]
       /\ \A c \in Customer : /\ debt[c] \in Int
                              /\ debt'[c] = IF c = who /\ back # 0 THEN debt[c] - back ELSE debt[c]
  <2>1. -back \in Int /\ (-back # 0 => who \in Customer) /\ (-back # 0 <=> back # 0)
    BY <1>9, <1>10
  <2>2. Enter(who, -back) /\ TypeOK
    BY <1>a, <1>2 DEF RefundSale, Inv, back
  <2> DEFINE amount == -back
  <2> HIDE DEF who, amount
  <2>3. /\ debt' \in [Customer -> Int]
        /\ \A c \in Customer : /\ debt[c] \in Int
                               /\ debt'[c] = IF c = who /\ amount # 0 THEN debt[c] + amount
                                             ELSE debt[c]
    BY <2>1, <2>2, EnterOne DEF amount
  <2> QED BY <2>1, <2>3, <1>10 DEF amount
<1>12. /\ stock' \in [Product -> [onHand : Int, lost : Nat]]
       /\ \A p \in Product : stock'[p].onHand + stock'[p].lost >= stock[p].onHand + stock[p].lost
  <2>1. d \in [Product -> Int]
    BY <1>7
  <2>2. stock' = [p \in Product |-> [stock[p] EXCEPT !.onHand = @ + d[p]]]
    BY <1>a DEF RefundSale, Move
  <2>3. \A p \in Product : d[p] \in Nat
    BY <1>7
  <2> HIDE DEF d
  <2>4. /\ stock' \in [Product -> [onHand : Int, lost : Nat]]
        /\ \A p \in Product : /\ stock'[p].onHand = stock[p].onHand + d[p]
                              /\ stock'[p].lost = stock[p].lost
                              /\ stock[p].onHand \in Int /\ stock[p].lost \in Nat
    BY <2>1, <2>2, MoveType DEF Inv
  <2> QED BY <2>3, <2>4
<1>13. /\ sale' \in [Request -> [status : {"none", "settled", "voided"},
                                 returned : [Product -> Nat], given : Nat, takenBack : Nat]]
       /\ sale'[s].status = "settled"
       /\ \A p \in Product : sale'[s].returned[p] = sale[s].returned[p] + Qty(q, p)
       /\ sale'[s].given = sale[s].given + total /\ sale'[s].takenBack = sale[s].takenBack + back
       /\ \A t \in Request : t # s => sale'[t] = sale[t]
  <2> DEFINE row == [status |-> sale[s].status,
                     returned |-> [p \in Product |-> sale[s].returned[p] + Qty(q, p)],
                     given |-> sale[s].given + total, takenBack |-> sale[s].takenBack + back]
  <2>1. sale' = [sale EXCEPT ![s] = row]
    BY <1>a, <1>2 DEF RefundSale, total, back
  <2>2. sale \in [Request -> [status : {"none", "settled", "voided"},
                              returned : [Product -> Nat], given : Nat, takenBack : Nat]]
    BY DEF Inv, TypeOK
  <2>3. [p \in Product |-> sale[s].returned[p] + Qty(q, p)] \in [Product -> Nat]
    BY <1>5, <1>7
  <2>4. sale[s].given + total \in Nat /\ sale[s].takenBack + back \in Nat
    BY <1>5, <1>8, <1>10
  <2>5. row \in [status : {"none", "settled", "voided"},
                 returned : [Product -> Nat], given : Nat, takenBack : Nat]
    BY <2>3, <2>4, <1>4
  <2>6. /\ row.status = "settled" /\ row.given = sale[s].given + total
        /\ row.takenBack = sale[s].takenBack + back
        /\ \A p \in Product : row.returned[p] = sale[s].returned[p] + Qty(q, p)
    BY <1>4
  <2> HIDE DEF row
  <2> QED BY <2>1, <2>2, <2>5, <2>6
<1>14. TypeOK'
  BY <1>0, <1>11, <1>12, <1>13, Writing DEF Inv, TypeOK
<1>15. /\ \A t \in Request : Voids(t)' = Voids(t)
       /\ \A t \in Request : t # s => Returns(t)' = Returns(t)
  BY <1>1, <1>2 DEF Voids, Returns, Is, Done, Inv, TypeOK
<1>16. ASSUME NEW t \in Request
       PROVE  SaleKept(t)'
  <2>1. SaleKept(t)
    BY DEF Inv
  <2>2. /\ SaleValid(t)' <=> SaleValid(t)
        /\ Goods(t)' = Goods(t) /\ Total(t)' = Total(t) /\ Charge(t)' = Charge(t)
    BY DEF SaleValid, LinesValid, DiscountValid, Settleable, NotOverpaid, Paid, Total, Charge, Goods
  <2>3. request'[t] = request[t] \/ Asks[t].kind = "refund"
    BY <1>1 DEF Inv, TypeOK
  <2>4. CASE t # s
    <3>1. sale'[t] = sale[t]
      BY <2>4, <1>13
    <3>2. (sale[t] = NoSale)' <=> sale[t] = NoSale
      BY <3>1 DEF NoSale
    <3>3. \A p \in Goods(t) : Left(t, p)' = Left(t, p)
      BY <3>1 DEF Left
    <3> QED BY <2>1, <2>2, <2>3, <2>4, <3>1, <3>2, <3>3, <1>15 DEF SaleKept
  <2>5. CASE t = s
    <3>1. request'[t] = "done" /\ sale'[t].status = "settled" /\ Asks[t].kind = "sale"
      BY <2>1, <2>3, <2>5, <1>4, <1>5, <1>13 DEF SaleKept
    <3>2. Voids(t)' = {}
      BY <2>1, <2>5, <1>4, <1>15 DEF SaleKept
    <3>3. \A p \in Goods(t) : Left(t, p)' = Left(t, p) - Qty(q, p)
      <4> SUFFICES ASSUME NEW p \in Goods(t) PROVE Left(t, p)' = Left(t, p) - Qty(q, p)
        OBVIOUS
      <4>1. p \in Product /\ Qty(t, p) \in Nat /\ Qty(q, p) \in Nat /\ sale[t].returned[p] \in Nat
        BY <2>5, <1>5, <1>6, <1>7
      <4>2. sale'[t].returned[p] = sale[t].returned[p] + Qty(q, p)
        BY <2>5, <4>1, <1>13
      <4> QED BY <4>1, <4>2 DEF Left
    <3>4. \A p \in Goods(t) : Left(t, p) \in Nat /\ Qty(q, p) \in Nat /\ Qty(q, p) <= Left(t, p)
      <4> SUFFICES ASSUME NEW p \in Goods(t)
                   PROVE  Left(t, p) \in Nat /\ Qty(q, p) \in Nat /\ Qty(q, p) <= Left(t, p)
        OBVIOUS
      <4>1. p \in Product /\ Left(t, p) \in Int /\ Left(t, p) >= 0 /\ Qty(q, p) \in Nat
        BY <2>1, <2>5, <1>4, <1>5, <1>6, <1>7 DEF SaleKept
      <4>2. p \in Goods(q) => Qty(q, p) <= Left(t, p)
        BY <2>5, <1>7
      <4>3. p \notin Goods(q) => Qty(q, p) = 0
        BY <4>1, <1>7
      <4> QED BY <4>1, <4>2, <4>3
    <3>5. \A p \in Goods(t) : Left(t, p)' >= 0 /\ (Left(t, p)' = 0 => Left(t, p) = Qty(q, p))
      BY <3>3, <3>4
    <3>6. sale'[t].given <= Total(t) /\ sale'[t].takenBack <= Charge(t)
      BY <2>5, <1>5, <1>8, <1>10, <1>13
    <3>7. (\A p \in Goods(t) : Left(t, p)' = 0) => sale'[t].given = Total(t)
      BY <2>5, <3>5, <1>5, <1>8, <1>13
    <3> QED BY <2>1, <2>2, <2>5, <3>1, <3>2, <3>5, <3>6, <3>7, <1>4 DEF SaleKept
  <2> QED BY <2>4, <2>5
<1>17. BalancesHold'
  <2>1. \A p \in Product : stock'[p].onHand + stock'[p].lost >= 0
    <3> SUFFICES ASSUME NEW p \in Product PROVE stock'[p].onHand + stock'[p].lost >= 0
      OBVIOUS
    <3>1. stock[p].onHand + stock[p].lost >= 0
      BY DEF Inv, BalancesHold
    <3>2. stock[p] \in [onHand : Int, lost : Nat] /\ stock'[p] \in [onHand : Int, lost : Nat]
      BY <1>12 DEF Inv, TypeOK
    <3> QED BY <3>1, <3>2, <1>12
  <2>2. \A c \in Customer : debt'[c] >= 0
    BY <1>10, <1>11 DEF Inv, BalancesHold
  <2> QED BY <2>1, <2>2, <1>0 DEF Inv, BalancesHold
<1>18. \A v \in Worker : Served(v)' /\ InOrder(v)' /\ Checked(v)'
  <2>1. \A c \in Customer : \/ debt'[c] = debt[c] /\ card'[c] = card[c]
                            \/ <<"customer", c>> \in txn[w].held
    BY <1>0, <1>9, <1>10, <1>11
  <2>2. \A x \in Supplier : bill'[x] >= bill[x]
    BY <1>0 DEF Inv, TypeOK
  <2>3. \A t \in Request :
          \/ sale'[t] = sale[t] /\ Returns(t)' = Returns(t)
          \/ sale[t].status = "settled" /\ <<"sale", t>> \in txn[w].held
    BY <1>3, <1>4, <1>13, <1>15
  <2> QED BY <1>0, <1>12, <1>14, <2>1, <2>2, <2>3, OthersSpared
<1>19. \A c \in Customer : debt'[c] <= debt[c]
  BY <1>10, <1>11
<1>20. Exclusive'
  BY <1>0, Writing
<1> QED BY <1>14, <1>16, <1>17, <1>18, <1>19, <1>20 DEF Inv

\* The other writes leave the sales as they were.
LEMMA OtherWrites ==
    ASSUME Inv, NEW w \in Worker, NEW kind, Ready(w, kind), Commit(w), sale' = sale,
           kind \notin {"sale", "void", "refund"},
           stock' \in [Product -> [onHand : Int, lost : Nat]],
           debt' = debt, bill' \in [Supplier -> Int],
           card' \in [Customer -> [limit : Nat \cup {None}, active : BOOLEAN, version : Nat]],
           drawer' \in [Shift -> {"open", "closed"}],
           \A p \in Product :
               stock'[p].onHand + stock'[p].lost >= stock[p].onHand + stock[p].lost,
           \A c \in Customer : card'[c] = card[c] \/ <<"customer", c>> \in txn[w].held,
           \A x \in Supplier :
               /\ bill'[x] >= 0
               /\ bill'[x] >= bill[x] \/ <<"supplier", x>> \in txn[w].held
    PROVE  Inv' /\ \A c \in Customer : debt'[c] <= debt[c]
<1>1. TypeOK'
  BY Writing DEF Inv, TypeOK
<1>2. \A s \in Request : SaleKept(s)' /\ Returns(s)' = Returns(s)
  BY SalesSame
<1>3. BalancesHold'
  <2>1. \A p \in Product : stock'[p].onHand + stock'[p].lost >= 0
    <3> SUFFICES ASSUME NEW p \in Product PROVE stock'[p].onHand + stock'[p].lost >= 0
      OBVIOUS
    <3>1. stock[p].onHand + stock[p].lost >= 0
      BY DEF Inv, BalancesHold
    <3>2. stock[p] \in [onHand : Int, lost : Nat] /\ stock'[p] \in [onHand : Int, lost : Nat]
      BY DEF Inv, TypeOK
    <3>3. stock'[p].onHand + stock'[p].lost >= stock[p].onHand + stock[p].lost
      OBVIOUS
    <3> QED BY <3>1, <3>2, <3>3
  <2> QED BY <2>1 DEF Inv, BalancesHold
<1>4. \A v \in Worker : Served(v)' /\ InOrder(v)' /\ Checked(v)'
  <2>1. \A c \in Customer : \/ debt'[c] = debt[c] /\ card'[c] = card[c]
                            \/ <<"customer", c>> \in txn[w].held
    OBVIOUS
  <2>2. \A x \in Supplier : bill'[x] >= bill[x] \/ <<"supplier", x>> \in txn[w].held
    OBVIOUS
  <2> QED BY <1>1, <1>2, <2>1, <2>2, OthersSpared
<1>5. \A c \in Customer : debt'[c] <= debt[c]
  BY DEF Inv, TypeOK
<1> QED BY <1>1, <1>2, <1>3, <1>4, <1>5, Writing DEF Inv

\* A write that leaves the stock and what suppliers are owed as they were.
LEMMA StockSame ==
    ASSUME Inv
    PROVE  /\ stock \in [Product -> [onHand : Int, lost : Nat]]
           /\ \A p \in Product : stock[p].onHand + stock[p].lost >= stock[p].onHand + stock[p].lost
           /\ bill \in [Supplier -> Int] /\ \A x \in Supplier : bill[x] >= 0 /\ bill[x] >= bill[x]
           /\ card \in [Customer -> [limit : Nat \cup {None}, active : BOOLEAN, version : Nat]]
           /\ drawer \in [Shift -> {"open", "closed"}]
<1>1. TypeOK /\ BalancesHold
  BY DEF Inv
<1>2. \A p \in Product : stock[p] \in [onHand : Int, lost : Nat]
  BY <1>1 DEF TypeOK
<1> QED BY <1>1, <1>2 DEF TypeOK, BalancesHold

\* A manager's changes of a customer's row, which the transaction has locked.
LEMMA CardKeeps ==
    ASSUME Inv, NEW w \in Worker, SetCreditLimit(w) \/ SetActive(w)
    PROVE  Inv' /\ \A c \in Customer : debt'[c] <= debt[c]
<1>1. PICK kind \in {"limit", "active"} : Ready(w, kind)
  BY DEF SetCreditLimit, SetActive
<1>2. Commit(w) /\ UNCHANGED <<stock, sale, debt, bill, drawer>> /\ TypeOK
  BY DEF SetCreditLimit, SetActive, Inv
<1>3. PICK q \in Request : /\ q = txn[w].req /\ Asks[q].kind = kind /\ ~Malformed(q)
                           /\ Rows(q) \subseteq txn[w].held
  BY <1>1, <1>2, Writing
<1>4. PICK c \in Customer : c = Asks[q].who
  BY <1>3, AsksAssumption
<1>5. <<"customer", c>> \in txn[w].held
  BY <1>3, <1>4 DEF Rows, CardRows
<1>6. card[c] \in [limit : Nat \cup {None}, active : BOOLEAN, version : Nat]
  BY <1>2 DEF TypeOK
<1>7. PICK row \in [limit : Nat \cup {None}, active : BOOLEAN, version : Nat] :
        card' = [card EXCEPT ![c] = row]
  <2>1. CASE SetCreditLimit(w)
    <3>1. Asks[q].n \in Nat \cup {None}
      <4>1. Asks[q].kind = "limit"
        BY <1>3, <2>1, NoneAssumption DEF SetCreditLimit, Ready
      <4>2. Asks[q].n \in Int \cup {None}
        BY AskFacts DEF Ask
      <4> QED BY <1>3, <4>1, <4>2 DEF Malformed
    <3>2. card' = [card EXCEPT ![c].limit = Asks[q].n, ![c].version = @ + 1]
      BY <2>1, <1>3, <1>4 DEF SetCreditLimit
    <3> DEFINE row == [limit |-> Asks[q].n, active |-> card[c].active,
                       version |-> card[c].version + 1]
    <3>3. row \in [limit : Nat \cup {None}, active : BOOLEAN, version : Nat]
      BY <1>6, <3>1
    <3>4. card' = [card EXCEPT ![c] = row]
      BY <3>2, <1>2, <1>6 DEF TypeOK
    <3> QED BY <3>3, <3>4
  <2>2. CASE SetActive(w)
    <3>1. card' = [card EXCEPT ![c].active = (Asks[q].n = 1), ![c].version = @ + 1]
      BY <2>2, <1>3, <1>4 DEF SetActive
    <3> DEFINE row == [limit |-> card[c].limit, active |-> (Asks[q].n = 1),
                       version |-> card[c].version + 1]
    <3>2. row \in [limit : Nat \cup {None}, active : BOOLEAN, version : Nat]
      BY <1>6
    <3>3. card' = [card EXCEPT ![c] = row]
      BY <3>1, <1>2, <1>6 DEF TypeOK
    <3> QED BY <3>2, <3>3
  <2> QED BY <2>1, <2>2
<1>8. /\ card' \in [Customer -> [limit : Nat \cup {None}, active : BOOLEAN, version : Nat]]
      /\ \A k \in Customer : card'[k] = card[k] \/ <<"customer", k>> \in txn[w].held
  BY <1>2, <1>5, <1>7 DEF TypeOK
<1> QED BY <1>1, <1>2, <1>8, StockSame, OtherWrites

\* A receipt adds to stock and to what a supplier is owed.
LEMMA ReceiveGoodsKeeps ==
    ASSUME Inv, NEW w \in Worker, ReceiveGoods(w)
    PROVE  Inv' /\ \A c \in Customer : debt'[c] <= debt[c]
<1>1. Ready(w, "receive") /\ Commit(w) /\ UNCHANGED <<sale, debt, card, drawer>>
  BY DEF ReceiveGoods
<1>2. PICK q \in Request : /\ q = txn[w].req /\ Asks[q].kind = "receive"
                           /\ Rows(q) \subseteq txn[w].held /\ Checked(w)
  BY <1>1, Writing
<1>3. LinesValid(q) /\ Asks[q].n >= 0 /\ Asks[q].n \in Int
  <2>1. Each("product", Goods(q)) \subseteq txn[w].held
    BY <1>2 DEF Rows, ReceiptRows
  <2> QED BY <1>1, <1>2, <2>1, AsksAssumption DEF Checked, ReceiptChecked, Ready
<1> DEFINE d == [p \in Product |-> Qty(q, p)]
<1>4. d \in [Product -> Int] /\ \A p \in Product : d[p] \in Nat
  BY <1>3, SumFacts
<1>5. stock' = [p \in Product |-> [stock[p] EXCEPT !.onHand = @ + d[p]]]
  BY <1>2 DEF ReceiveGoods, Move
<1> HIDE DEF d
<1>6. /\ stock' \in [Product -> [onHand : Int, lost : Nat]]
      /\ \A p \in Product : stock'[p].onHand + stock'[p].lost >= stock[p].onHand + stock[p].lost
  <2>1. /\ stock' \in [Product -> [onHand : Int, lost : Nat]]
        /\ \A p \in Product : /\ stock'[p].onHand = stock[p].onHand + d[p]
                              /\ stock'[p].lost = stock[p].lost
                              /\ stock[p].onHand \in Int /\ stock[p].lost \in Nat
    BY <1>4, <1>5, MoveType DEF Inv
  <2> QED BY <1>4, <2>1
<1>7. bill' \in [Supplier -> Int] /\ \A x \in Supplier : bill'[x] >= 0 /\ bill'[x] >= bill[x]
  <2>1. Asks[q].who \in Supplier \cup {None}
    BY <1>2, AsksAssumption
  <2>2. bill \in [Supplier -> Int] /\ \A x \in Supplier : bill[x] >= 0
    BY DEF Inv, TypeOK, BalancesHold
  <2>3. bill' = IF Asks[q].who = None THEN bill ELSE [bill EXCEPT ![Asks[q].who] = @ + Asks[q].n]
    BY <1>2 DEF ReceiveGoods
  <2> QED BY <2>1, <2>2, <2>3, <1>3
<1> QED BY <1>1, <1>6, <1>7, StockSame, OtherWrites

\* A supplier is paid no more than is owed.
LEMMA PaySupplierKeeps ==
    ASSUME Inv, NEW w \in Worker, PaySupplier(w)
    PROVE  Inv' /\ \A c \in Customer : debt'[c] <= debt[c]
<1>1. Ready(w, "pay") /\ Commit(w) /\ UNCHANGED <<stock, sale, debt, card, drawer>>
  BY DEF PaySupplier
<1>2. PICK q \in Request : /\ q = txn[w].req /\ Asks[q].kind = "pay"
                           /\ Rows(q) \subseteq txn[w].held /\ Checked(w)
  BY <1>1, Writing
<1>3. PICK x \in Supplier : x = Asks[q].who
  BY <1>2, AsksAssumption
<1>4. <<"supplier", x>> \in txn[w].held
  BY <1>2, <1>3 DEF Rows, PayRows
<1>5. Asks[q].n <= bill[x] /\ Asks[q].n \in Int
  BY <1>1, <1>2, <1>3, <1>4, AsksAssumption DEF Checked, PayChecked, Ready
<1>6. bill' = [bill EXCEPT ![x] = @ - Asks[q].n]
  BY <1>2, <1>3 DEF PaySupplier
<1>7. /\ bill' \in [Supplier -> Int]
      /\ \A y \in Supplier : /\ bill'[y] >= 0
                             /\ bill'[y] >= bill[y] \/ <<"supplier", y>> \in txn[w].held
  <2>1. bill \in [Supplier -> Int] /\ \A y \in Supplier : bill[y] >= 0
    BY DEF Inv, TypeOK, BalancesHold
  <2> QED BY <2>1, <1>4, <1>5, <1>6
<1> QED BY <1>1, <1>7, StockSame, OtherWrites

\* A correction takes out of stock what it counts as lost.
LEMMA AdjustStockKeeps ==
    ASSUME Inv, NEW w \in Worker, AdjustStock(w)
    PROVE  Inv' /\ \A c \in Customer : debt'[c] <= debt[c]
<1>1. Ready(w, "adjust") /\ Commit(w) /\ UNCHANGED <<sale, debt, bill, card, drawer>>
  BY DEF AdjustStock
<1>2. PICK q \in Request : q = txn[w].req /\ Asks[q].kind = "adjust"
  BY <1>1, Writing
<1>3. PICK n \in Int : n = Asks[q].n
  BY <1>2, AsksAssumption
<1>4. stock' = [p \in Product |->
                  IF p \notin Goods(q) THEN stock[p]
                  ELSE [onHand |-> stock[p].onHand + n,
                        lost |-> stock[p].lost + (IF n < 0 THEN -n ELSE 0)]]
  BY <1>2, <1>3 DEF AdjustStock
<1>5. ASSUME NEW p \in Product
      PROVE  /\ stock'[p] \in [onHand : Int, lost : Nat]
             /\ stock'[p].onHand + stock'[p].lost >= stock[p].onHand + stock[p].lost
  <2>1. stock[p] \in [onHand : Int, lost : Nat]
    BY DEF Inv, TypeOK
  <2> DEFINE a == stock[p].onHand
             b == stock[p].lost
  <2>2. a \in Int /\ b \in Nat
    BY <2>1
  <2>3. CASE p \notin Goods(q)
    BY <1>4, <2>1, <2>3
  <2>4. CASE p \in Goods(q)
    <3>1. stock'[p] = [onHand |-> a + n, lost |-> b + (IF n < 0 THEN -n ELSE 0)]
      BY <1>4, <2>4
    <3> HIDE DEF a, b
    <3>2. a + n \in Int /\ b + (IF n < 0 THEN -n ELSE 0) \in Nat
          /\ (a + n) + (b + (IF n < 0 THEN -n ELSE 0)) >= a + b
      BY <2>2
    <3> QED BY <3>1, <3>2 DEF a, b
  <2> QED BY <2>3, <2>4
<1>6. stock' \in [Product -> [onHand : Int, lost : Nat]]
  <2>1. stock' = [p \in Product |-> stock'[p]]
    BY <1>4
  <2> QED BY <2>1, <1>5
<1> QED BY <1>1, <1>5, <1>6, StockSame, OtherWrites

\* The close of a drawer.
LEMMA CloseShiftKeeps ==
    ASSUME Inv, NEW w \in Worker, CloseShift(w)
    PROVE  Inv' /\ \A c \in Customer : debt'[c] <= debt[c]
<1>1. Ready(w, "close") /\ Commit(w) /\ UNCHANGED <<stock, sale, debt, bill, card>>
  BY DEF CloseShift
<1>2. drawer' \in [Shift -> {"open", "closed"}]
  <2>1. drawer' = [drawer EXCEPT ![Asks[txn[w].req].shift] = "closed"]
    BY DEF CloseShift
  <2> QED BY <2>1 DEF Inv, TypeOK
<1> QED BY <1>1, <1>2, StockSame, OtherWrites

-----------------------------------------------------------------------------
(* Begin, lock, fail *)

\* A step that writes nothing but the thread's own row of txn, and at most refuses a request
\* that nobody else serves.
LEMMA Stepping ==
    ASSUME Inv, NEW w \in Worker, NEW t \in Txn, GoOn(w, t), UNCHANGED <<asked, books>>,
           \/ request' = request
           \/ \E q \in Request : /\ request[q] = "new"
                                 /\ request' = [request EXCEPT ![q] = "refused"]
                                 /\ \A v \in Worker \ {w} : txn[v].req # q
    PROVE  /\ TypeOK' /\ BalancesHold' /\ \A s \in Request : SaleKept(s)'
           /\ txn'[w] = t
           /\ \A v \in Worker \ {w} :
                txn'[v] = txn[v] /\ Served(v)' /\ InOrder(v)' /\ Checked(v)'
<1>1. TypeOK /\ BalancesHold /\ \A s \in Request : SaleKept(s)
  BY DEF Inv
<1>2. txn' = [txn EXCEPT ![w] = t] /\ txn \in [Worker -> Txn]
  BY <1>1 DEF GoOn, TypeOK
<1>3. /\ txn' \in [Worker -> Txn] /\ txn'[w] = t
      /\ \A v \in Worker \ {w} : txn'[v] = txn[v]
  BY <1>2
<1>4. request \in [Request -> {"new", "done", "refused"}]
  BY <1>1 DEF TypeOK
<1>5. /\ request' \in [Request -> {"new", "done", "refused"}]
      /\ \A s \in Request : request'[s] = "done" <=> request[s] = "done"
      /\ \A v \in Worker \ {w} :
           txn[v].req # None => request'[txn[v].req] = request[txn[v].req]
  <2>1. \A v \in Worker \ {w} : txn[v].req \in Request \cup {None}
    BY <1>1, TxnType
  <2> QED BY <2>1, <1>4
<1>6. TypeOK'
  BY <1>1, <1>3, <1>5 DEF TypeOK
<1>7. \A s \in Request : Voids(s)' = Voids(s) /\ Returns(s)' = Returns(s)
  BY <1>5 DEF Voids, Returns, Is, Done
<1>8. ASSUME NEW s \in Request
      PROVE  SaleKept(s)'
  <2>1. /\ (sale[s] = NoSale)' <=> sale[s] = NoSale
        /\ SaleValid(s)' <=> SaleValid(s)
        /\ Goods(s)' = Goods(s) /\ Total(s)' = Total(s) /\ Charge(s)' = Charge(s)
        /\ \A p \in Goods(s) : Left(s, p)' = Left(s, p)
    BY DEF SaleValid, LinesValid, DiscountValid, Settleable, NotOverpaid, Paid, Total, Charge,
           Goods, NoSale, Left
  <2>2. SaleKept(s)
    BY <1>1
  <2> QED BY <2>1, <2>2, <1>5, <1>7 DEF SaleKept
<1>9. BalancesHold'
  BY <1>1 DEF BalancesHold
<1>10. ASSUME NEW v \in Worker \ {w}
       PROVE  Served(v)' /\ InOrder(v)' /\ Checked(v)'
  <2>1. /\ \A p \in Product : stock'[p].onHand + stock'[p].lost >= stock[p].onHand + stock[p].lost
        /\ \A x \in Supplier : bill'[x] >= bill[x]
    BY StockSame
  <2> QED BY <1>3, <1>5, <1>6, <1>7, <2>1, OthersKeep
<1> QED BY <1>3, <1>6, <1>8, <1>9, <1>10

\* Taking a request up, or refusing what makes no sense.
LEMMA BeginKeeps ==
    ASSUME Inv, NEW w \in Worker, NEW q \in Request, Begin(w, q)
    PROVE  Inv'
<1>1. /\ txn[w] = Idle /\ request[q] = "new" /\ (\A v \in Worker : txn[v].req # q)
      /\ UNCHANGED <<asked, books>> /\ TypeOK
  BY DEF Begin, Inv
<1>2. CASE Malformed(q)
  <2>1. txn' = txn /\ request' = [request EXCEPT ![q] = "refused"]
    BY <1>2 DEF Begin
  <2>2. GoOn(w, Idle) /\ Idle \in Txn
    BY <1>1, <2>1 DEF GoOn, TypeOK, Txn, Idle
  <2>3. /\ TypeOK' /\ BalancesHold' /\ \A s \in Request : SaleKept(s)'
        /\ \A v \in Worker \ {w} : Served(v)' /\ InOrder(v)' /\ Checked(v)'
    BY <1>1, <2>1, <2>2, Stepping
  <2> QED BY <2>2, <2>3, IdleKeeps DEF Inv
<1>3. CASE ~Malformed(q)
  <2> DEFINE t == [Idle EXCEPT !.req = q]
  <2>1. GoOn(w, t) /\ request' = request
    BY <1>3 DEF Begin
  <2>2. t \in Txn /\ t.req = q /\ t.held = {}
    BY DEF Txn, Idle
  <2> HIDE DEF t
  <2>3. /\ TypeOK' /\ BalancesHold' /\ \A s \in Request : SaleKept(s)'
        /\ txn'[w] = t
        /\ \A v \in Worker \ {w} :
             txn'[v] = txn[v] /\ Served(v)' /\ InOrder(v)' /\ Checked(v)'
    BY <1>1, <2>1, <2>2, Stepping
  <2>4. Exclusive'
    BY <1>1, <2>2, <2>3 DEF Exclusive, Inv
  <2>5. txn'[w].req = q /\ txn'[w].held = {}
    BY <2>2, <2>3
  <2>6. Served(w)' /\ InOrder(w)'
    BY <2>1, <2>5, <1>1, <1>3, NoneAssumption DEF Served, InOrder, Malformed
  <2>7. Asks[q].kind \in {"sale", "receive"} => ~(Each("product", Goods(q)) \subseteq {})
    <3> SUFFICES ASSUME Asks[q].kind \in {"sale", "receive"}
                 PROVE  ~(Each("product", Goods(q)) \subseteq {})
      OBVIOUS
    <3>1. Asks[q].lines # <<>> /\ Asks[q].lines \in Seq(Line)
      BY <1>3, AskFacts DEF Malformed
    <3>2. 1 \in DOMAIN Asks[q].lines
      BY <3>1
    <3> QED BY <3>2 DEF Goods, Each
  <2>8. Checked(w)'
    BY <2>5, <2>7 DEF Checked, SaleChecked, VoidChecked, RefundChecked, SeenChecked, PaidChecked,
                      PayChecked, ReceiptChecked, Each, Goods
  <2> QED BY <2>3, <2>4, <2>6, <2>8 DEF Inv
<1> QED BY <1>2, <1>3

\* A transaction that ends without a write gives its rows back.
LEMMA FailKeeps ==
    ASSUME Inv, NEW w \in Worker, Fail(w)
    PROVE  Inv'
<1>1. GoOn(w, Idle) /\ Idle \in Txn /\ UNCHANGED <<asked, request, books>>
  BY DEF Fail, Idle, Txn
<1>2. /\ TypeOK' /\ BalancesHold' /\ \A s \in Request : SaleKept(s)'
      /\ \A v \in Worker \ {w} : Served(v)' /\ InOrder(v)' /\ Checked(v)'
  BY <1>1, Stepping
<1> QED BY <1>1, <1>2, IdleKeeps DEF Inv

\* A customer row that a request locks next is that of a customer.
LEMMA CustomerRow ==
    ASSUME Inv, NEW w \in Worker, txn[w].req # None, NEW r, IsNext(txn[w], r), r[1] = "customer"
    PROVE  /\ r[2] \in Customer
           /\ Asks[txn[w].req].kind \in {"void", "refund"} =>
                r = <<"customer", Asks[Asks[txn[w].req].of].who>>
<1>1. PICK q \in Request : q = txn[w].req
  BY TxnType DEF Inv
<1>2. /\ r \in Rows(q) /\ r \in MayLock(q) /\ r \notin txn[w].held
      /\ \A o \in Rows(q) \ txn[w].held : ~Before(q, o, r)
  BY <1>1, RowsMay DEF IsNext
<1>3. Asks[q].kind \in Kinds /\ Asks[q].of \in Request
  BY AskFacts
<1>4. CASE Asks[q].kind = "sale"
  <2>1. r = <<"customer", Asks[q].who>> /\ Asks[q].who # None
    BY <1>2, <1>4 DEF MayLock, Opt, Each
  <2> QED BY <2>1, <1>1, <1>4, AsksAssumption
<1>5. CASE Asks[q].kind \in {"void", "refund"}
  <2>1. PICK s \in Request : s = Asks[q].of
    BY <1>3
  <2>2. r = <<"customer", Asks[s].who>> /\ Asks[s].who # None
    BY <1>2, <1>5, <2>1 DEF MayLock, Opt
  <2>3. <<"sale", s>> \in Rows(q)
    BY <1>5, <2>1 DEF Rows, VoidRows, RefundRows
  <2>4. Before(q, <<"sale", s>>, r)
    BY <1>2, <1>5, <2>1, <2>2, SaleFirst
  <2>5. <<"sale", s>> \in txn[w].held
    BY <1>2, <2>3, <2>4
  <2>6. sale[s].status = "settled"
    BY <1>1, <1>5, <2>1, <2>5 DEF Inv, Checked, VoidChecked, RefundChecked
  <2>7. Asks[s].kind = "sale"
    BY <2>6 DEF Inv, SaleKept
  <2> QED BY <2>1, <2>2, <2>7, <1>1, AsksAssumption
<1>6. CASE Asks[q].kind \in {"payment", "writeoff", "limit", "active"}
  <2>1. r = <<"customer", Asks[q].who>>
    BY <1>2, <1>6 DEF Rows, PaymentRows, CardRows, Opt
  <2> QED BY <2>1, <1>1, <1>6, AsksAssumption
<1>7. CASE Asks[q].kind \in {"receive", "pay", "adjust", "close"}
  BY <1>2, <1>7 DEF Rows, ReceiptRows, PayRows, CloseRows, Each, Opt
<1> QED BY <1>3, <1>4, <1>5, <1>6, <1>7 DEF Kinds

\* Locking a row: what the request checks by it holds, and nothing it still has to lock
\* comes before it.
LEMMA LockKeeps ==
    ASSUME Inv, NEW w \in Worker, NEW r, Lock(w, r)
    PROVE  Inv'
<1>1. /\ txn[w].req # None /\ IsNext(txn[w], r) /\ ~Taken(w, r) /\ UNCHANGED <<asked, books>>
      /\ TypeOK
  BY DEF Lock, Inv
<1>2. PICK q \in Request : q = txn[w].req
  BY <1>1, TxnType
<1>3. /\ request[q] = "new" /\ ~Malformed(q) /\ InOrder(w) /\ Checked(w)
      /\ \A v \in Worker \ {w} : txn[v].req # q
  BY <1>1, <1>2 DEF Inv, Served, Exclusive
<1>4. PICK held : held = txn[w].held
  OBVIOUS
<1>5. /\ r \in Rows(q) /\ r \in MayLock(q) /\ r \in Row /\ r \notin held /\ held \subseteq Row
      /\ \A o \in Rows(q) \ held : ~Before(q, o, r)
  BY <1>1, <1>2, <1>4, RowsMay, RowsType, TxnType DEF IsNext
<1>6. CASE Refused(q, r, held)
  <2>1. GoOn(w, Idle) /\ Idle \in Txn /\ request' = [request EXCEPT ![q] = "refused"]
    BY <1>2, <1>4, <1>6 DEF Lock, Idle, Txn
  <2>2. /\ TypeOK' /\ BalancesHold' /\ \A s \in Request : SaleKept(s)'
        /\ \A v \in Worker \ {w} : Served(v)' /\ InOrder(v)' /\ Checked(v)'
    BY <1>1, <1>3, <2>1, Stepping
  <2> QED BY <2>1, <2>2, IdleKeeps DEF Inv
<1>7. CASE ~Refused(q, r, held)
  <2> DEFINE t == [req |-> q, held |-> held \cup {r}, seen |-> Seen(txn[w], r)]
  <2>1. GoOn(w, t) /\ request' = request
    BY <1>2, <1>4, <1>7 DEF Lock
  <2>2. Seen(txn[w], r) \in Int
    <3>1. CASE r[1] = "customer"
      <4>1. r[2] \in Customer
        BY <1>1, <3>1, CustomerRow
      <4> QED BY <3>1, <4>1, <1>1 DEF Seen, TypeOK
    <3>2. CASE r[1] # "customer"
      BY <3>2, <1>1, TxnType DEF Seen
    <3> QED BY <3>1, <3>2
  <2>3. t \in Txn
    BY <2>2, <1>5 DEF Txn
  <2>4. /\ TypeOK' /\ BalancesHold' /\ \A s \in Request : SaleKept(s)'
        /\ txn'[w] = t
        /\ \A v \in Worker \ {w} :
             txn'[v] = txn[v] /\ Served(v)' /\ InOrder(v)' /\ Checked(v)'
    BY <1>1, <2>1, <2>3, Stepping
  <2>5. /\ txn'[w].req = q /\ txn'[w].held = held \cup {r}
        /\ txn'[w].seen = IF r[1] = "customer" THEN debt[r[2]] ELSE txn[w].seen
    BY <2>4 DEF Seen
  <2>6. Exclusive'
    <3>1. \A v \in Worker \ {w} : r \notin txn[v].held /\ held \cap txn[v].held = {}
      BY <1>1, <1>4 DEF Taken, Inv, Exclusive
    <3> QED BY <3>1, <2>4, <2>5, <1>3 DEF Inv, Exclusive
  <2>7. Served(w)'
    BY <2>1, <2>5, <1>3, NoneAssumption DEF Served, Malformed
  <2>8. InOrder(w)'
    <3>1. Rows(q)' = Rows(q) /\ MayLock(q)' = MayLock(q)
      BY <1>1, RowsSame
    <3>2. held \subseteq MayLock(q) /\ \A x \in held, o \in Rows(q) \ held : ~Before(q, o, x)
      BY <1>1, <1>2, <1>3, <1>4 DEF InOrder
    <3>3. \A x \in held \cup {r}, o \in Rows(q) \ (held \cup {r}) : ~Before(q, o, x)
      BY <3>2, <1>5
    <3> QED BY <3>1, <3>2, <3>3, <2>5, <1>5 DEF InOrder, Before, InCart, Tables
  <2>9. Checked(w)'
    <3> DEFINE qq == txn[w].req
               hh == txn[w].held
    <3>1. Asks[q].kind = "sale" => SaleChecked(qq, hh)'
      <4> SUFFICES ASSUME Asks[q].kind = "sale" PROVE SaleChecked(qq, hh)'
        OBVIOUS
      <4>1. ~SaleRefused(q, r, held) /\ SaleChecked(q, held)
        BY <1>1, <1>2, <1>3, <1>4, <1>7 DEF Refused, Checked
      <4>2. ASSUME Each("product", Goods(q)) \subseteq held \cup {r}
            PROVE  SaleValid(q) /\ \A p \in Goods(q) : Qty(q, p) <= stock[p].onHand + stock[p].lost
        <5>1. CASE r[1] = "product"
          <6>1. SaleValid(q) /\ ~Short(q)
            BY <4>1, <4>2, <5>1 DEF SaleRefused
          <6>2. ASSUME NEW p \in Goods(q)
                PROVE  Qty(q, p) <= stock[p].onHand + stock[p].lost
            <7>1. p \in Product /\ Qty(q, p) \in Int
              BY AskFacts, SumFacts
            <7>2. stock[p] \in [onHand : Int, lost : Nat]
              BY <7>1, <1>1 DEF TypeOK
            <7>3. ~(Qty(q, p) > stock[p].onHand)
              BY <6>1 DEF Short
            <7> QED BY <7>1, <7>2, <7>3
          <6> QED BY <6>1, <6>2
        <5>2. CASE r[1] # "product"
          <6>1. Each("product", Goods(q)) \subseteq held
            BY <4>2, <5>2 DEF Each
          <6> QED BY <6>1, <4>1 DEF SaleChecked
        <5> QED BY <5>1, <5>2
      <4>3. ASSUME <<"customer", Asks[q].who>> \in held \cup {r}
            PROVE  card[Asks[q].who].active /\ ~OverLimit(q, Asks[q].who)
        BY <4>1, <4>3 DEF SaleRefused, SaleChecked
      <4>4. SaleValid(q)' <=> SaleValid(q)
        BY DEF SaleValid, LinesValid, DiscountValid, Settleable, NotOverpaid, Paid, Total
      <4>5. OverLimit(q, Asks[q].who)' <=> OverLimit(q, Asks[q].who)
        BY <1>1 DEF OverLimit, Charge, Total, Paid
      <4> QED BY <4>2, <4>3, <4>4, <4>5, <2>5, <1>1 DEF SaleChecked
    <3>2. Asks[q].kind = "void" => VoidChecked(qq, hh)'
      <4> SUFFICES ASSUME Asks[q].kind = "void" PROVE VoidChecked(qq, hh)'
        OBVIOUS
      <4>1. ~VoidRefused(q, r) /\ VoidChecked(q, held)
        BY <1>1, <1>2, <1>3, <1>4, <1>7 DEF Refused, Checked
      <4>2. <<"sale", Asks[q].of>> \in held \cup {r} =>
              sale[Asks[q].of].status = "settled" /\ Returns(Asks[q].of) = {}
        BY <4>1 DEF VoidRefused, VoidChecked
      <4>3. Returns(Asks[q].of)' = Returns(Asks[q].of)
        BY <2>1 DEF Returns, Is, Done
      <4> QED BY <4>2, <4>3, <2>5, <1>1 DEF VoidChecked
    <3>3. Asks[q].kind = "refund" => RefundChecked(qq, hh)'
      <4> SUFFICES ASSUME Asks[q].kind = "refund" PROVE RefundChecked(qq, hh)'
        OBVIOUS
      <4>1. ~RefundRefused(q, r) /\ RefundChecked(q, held)
        BY <1>1, <1>2, <1>3, <1>4, <1>7 DEF Refused, Checked
      <4>2. <<"sale", Asks[q].of>> \in held \cup {r} =>
              sale[Asks[q].of].status = "settled" /\ ~RefundInvalid(q, Asks[q].of)
        BY <4>1 DEF RefundRefused, RefundChecked
      <4>3. RefundInvalid(q, Asks[q].of)' <=> RefundInvalid(q, Asks[q].of)
        BY <1>1 DEF RefundInvalid, Left
      <4> QED BY <4>2, <4>3, <2>5, <1>1 DEF RefundChecked
    <3>4. Asks[q].kind \in {"void", "refund"} => SeenChecked(qq, hh, txn[w].seen)'
      <4> SUFFICES ASSUME Asks[q].kind \in {"void", "refund"} PROVE SeenChecked(qq, hh, txn[w].seen)'
        OBVIOUS
      <4>1. SeenChecked(q, held, txn[w].seen)
        BY <1>1, <1>2, <1>3, <1>4 DEF Checked
      <4>2. r[1] = "customer" => r = <<"customer", Asks[Asks[q].of].who>>
        BY <1>1, <1>2, CustomerRow
      <4> QED BY <4>1, <4>2, <2>5, <1>1 DEF SeenChecked
    <3>5. Asks[q].kind \in {"payment", "writeoff"} => PaidChecked(qq, hh)'
      <4> SUFFICES ASSUME Asks[q].kind \in {"payment", "writeoff"} PROVE PaidChecked(qq, hh)'
        OBVIOUS
      <4>1. PaidChecked(q, held) /\ Asks[q].n \in Int
        BY <1>1, <1>2, <1>3, <1>4, AsksAssumption DEF Checked
      <4>2. r = <<"customer", Asks[q].who>> => Asks[q].n > 0 /\ Asks[q].n <= debt[Asks[q].who]
        <5> SUFFICES ASSUME r = <<"customer", Asks[q].who>>
                     PROVE  Asks[q].n > 0 /\ Asks[q].n <= debt[Asks[q].who]
          OBVIOUS
        <5>1. Asks[q].who \in Customer
          BY AsksAssumption
        <5>2. debt[Asks[q].who] \in Int
          BY <5>1, <1>1 DEF TypeOK
        <5>3. Asks[q].kind = "payment" => ~PaymentRefused(q, r) /\ ~(Asks[q].n <= 0)
          BY <1>3, <1>7 DEF Refused, Malformed
        <5>4. Asks[q].kind = "writeoff" => ~WriteOffRefused(q, r)
          BY <1>7 DEF Refused
        <5> QED BY <5>2, <5>3, <5>4, <4>1 DEF PaymentRefused, WriteOffRefused
      <4> QED BY <4>1, <4>2, <2>5, <1>1 DEF PaidChecked
    <3>6. Asks[q].kind = "pay" => PayChecked(qq, hh)'
      <4> SUFFICES ASSUME Asks[q].kind = "pay" PROVE PayChecked(qq, hh)'
        OBVIOUS
      <4>1. PayChecked(q, held) /\ Asks[q].n \in Int /\ Asks[q].who \in Supplier
        BY <1>1, <1>2, <1>3, <1>4, AsksAssumption DEF Checked
      <4>2. bill[Asks[q].who] \in Int /\ ~PayRefused(q, r)
        BY <4>1, <1>1, <1>7 DEF TypeOK, Refused
      <4>3. r = <<"supplier", Asks[q].who>> => Asks[q].n <= bill[Asks[q].who]
        BY <4>1, <4>2 DEF PayRefused
      <4> QED BY <4>1, <4>3, <2>5, <1>1 DEF PayChecked
    <3>7. Asks[q].kind = "receive" => ReceiptChecked(qq, hh)'
      <4> SUFFICES ASSUME Asks[q].kind = "receive" PROVE ReceiptChecked(qq, hh)'
        OBVIOUS
      <4>1. ~ReceiptRefused(q, r, held) /\ Asks[q].n \in Int
        BY <1>7, AsksAssumption DEF Refused
      <4> QED BY <4>1, <2>5, <1>1 DEF ReceiptRefused, ReceiptChecked, LinesValid, Each, Goods
    <3> QED BY <2>5, <3>1, <3>2, <3>3, <3>4, <3>5, <3>6, <3>7 DEF Checked
  <2> QED BY <2>4, <2>6, <2>7, <2>8, <2>9 DEF Inv
<1> QED BY <1>6, <1>7
-----------------------------------------------------------------------------
(* The invariant holds, and what follows *)

\* At the start no request is served and no sale is made.
LEMMA InvInit == Init => Inv
<1> SUFFICES ASSUME Init PROVE Inv
  OBVIOUS
<1>1. TypeOK
  <2>1. NoSale \in [status : {"none", "settled", "voided"},
                    returned : [Product -> Nat], given : Nat, takenBack : Nat]
    BY DEF NoSale
  <2>2. Idle \in Txn
    BY DEF Idle, Txn
  <2>3. \A p \in Product : [onHand |-> OnHand0[p], lost |-> 0] \in [onHand : Int, lost : Nat]
    BY StartAssumption
  <2>4. \A c \in Customer : [limit |-> Limit0[c], active |-> TRUE, version |-> 0]
                           \in [limit : Nat \cup {None}, active : BOOLEAN, version : Nat]
    BY StartAssumption
  <2> QED BY <2>1, <2>2, <2>3, <2>4, StartAssumption DEF Init, TypeOK
<1>2. BalancesHold
  BY StartAssumption DEF Init, BalancesHold
<1>3. Exclusive /\ \A w \in Worker : Served(w) /\ InOrder(w) /\ Checked(w)
  BY DEF Init, Idle, Exclusive, Served, InOrder, Checked
<1>4. \A s \in Request : SaleKept(s)
  BY DEF Init, SaleKept, NoSale, Voids, Returns, Is, Done
<1> QED BY <1>1, <1>2, <1>3, <1>4 DEF Inv

\* Every step keeps it, and a debt grows only by a sale.
LEMMA InvNext ==
    ASSUME Inv, [Next]_vars
    PROVE  Inv' /\ \A c \in Customer : debt'[c] > debt[c] =>
                       card[c].active /\ (card[c].limit = None \/ debt'[c] <= card[c].limit)
<1> DEFINE Kept == \A c \in Customer : debt'[c] > debt[c] =>
                       card[c].active /\ (card[c].limit = None \/ debt'[c] <= card[c].limit)
           Falls == \A c \in Customer : debt'[c] <= debt[c]
<1> HIDE DEF Kept, Falls
<1> SUFFICES Inv' /\ Kept
  BY DEF Kept
<1>1. ASSUME Inv', Falls
      PROVE  Kept
  <2>1. \A c \in Customer : debt[c] \in Int /\ debt'[c] \in Int
    BY <1>1 DEF Inv, TypeOK
  <2> QED BY <1>1, <2>1 DEF Kept, Falls
<1>2. ASSUME debt' = debt
      PROVE  Kept
  <2>1. \A c \in Customer : debt[c] \in Int
    BY DEF Inv, TypeOK
  <2> QED BY <1>2, <2>1 DEF Kept
<1>3. CASE UNCHANGED vars
  <2>1. TypeOK' /\ Exclusive' /\ BalancesHold'
    BY <1>3 DEF Inv, TypeOK, Exclusive, BalancesHold
  <2>2. ASSUME NEW w \in Worker
        PROVE  Served(w)' /\ InOrder(w)' /\ Checked(w)'
    <3>1. /\ txn'[w] = txn[w] /\ \A s \in Request : Returns(s)' = Returns(s)
          /\ \A p \in Product : stock'[p].onHand + stock'[p].lost >= stock[p].onHand + stock[p].lost
          /\ \A x \in Supplier : bill'[x] >= bill[x]
      BY <1>3, StockSame DEF Returns, Is, Done
    <3> QED BY <1>3, <2>1, <3>1, OthersKeep
  <2>3. ASSUME NEW s \in Request
        PROVE  SaleKept(s)'
    <3>1. /\ (sale[s] = NoSale)' <=> sale[s] = NoSale
          /\ SaleValid(s)' <=> SaleValid(s)
          /\ Voids(s)' = Voids(s) /\ Returns(s)' = Returns(s)
          /\ Goods(s)' = Goods(s) /\ Total(s)' = Total(s) /\ Charge(s)' = Charge(s)
          /\ \A p \in Goods(s) : Left(s, p)' = Left(s, p)
      BY <1>3 DEF SaleValid, LinesValid, DiscountValid, Settleable, NotOverpaid, Paid, Total, Charge,
                  Goods, NoSale, Left, Voids, Returns, Is, Done
    <3>2. SaleKept(s)
      BY DEF Inv
    <3> QED BY <3>1, <3>2, <1>3 DEF SaleKept
  <2> QED BY <2>1, <2>2, <2>3, <1>2, <1>3 DEF Inv
<1>4. ASSUME NEW w \in Worker, NEW q \in Request, Begin(w, q)
      PROVE  Inv' /\ Kept
  <2>1. debt' = debt
    BY <1>4 DEF Begin
  <2>2. Inv'
    BY <1>4, BeginKeeps
  <2> QED BY <1>2, <2>1, <2>2
<1>5. ASSUME NEW w \in Worker, NEW r, Lock(w, r)
      PROVE  Inv' /\ Kept
  <2>1. debt' = debt
    BY <1>5 DEF Lock
  <2>2. Inv'
    BY <1>5, LockKeeps
  <2> QED BY <1>2, <2>1, <2>2
<1>6. ASSUME NEW w \in Worker, Fail(w)
      PROVE  Inv' /\ Kept
  <2>1. debt' = debt
    BY <1>6 DEF Fail
  <2>2. Inv'
    BY <1>6, FailKeeps
  <2> QED BY <1>2, <2>1, <2>2
<1>7. ASSUME NEW w \in Worker, SettleSale(w)
      PROVE  Inv' /\ Kept
  BY <1>7, SettleSaleKeeps DEF Kept
<1>8. ASSUME NEW w \in Worker, VoidSale(w) \/ RefundSale(w)
      PROVE  Inv' /\ Kept
  BY <1>1, <1>8, VoidSaleKeeps, RefundSaleKeeps DEF Falls
<1>9. ASSUME NEW w \in Worker, RecordPayment(w) \/ WriteOff(w)
      PROVE  Inv' /\ Kept
  <2>1. PICK kind \in {"payment", "writeoff"} : Ready(w, kind)
    BY <1>9 DEF RecordPayment, WriteOff
  <2>2. /\ Enter(Asks[txn[w].req].who, -Asks[txn[w].req].n) /\ Commit(w)
        /\ UNCHANGED <<stock, sale, bill, card, drawer>>
    BY <1>9 DEF RecordPayment, WriteOff
  <2>3. Inv' /\ Falls
    BY <2>1, <2>2, PaidKeeps DEF Falls
  <2> QED BY <1>1, <2>3
<1>10. ASSUME NEW w \in Worker, SetCreditLimit(w) \/ SetActive(w)
       PROVE  Inv' /\ Kept
  BY <1>1, <1>10, CardKeeps DEF Falls
<1>11. ASSUME NEW w \in Worker, ReceiveGoods(w) \/ PaySupplier(w)
       PROVE  Inv' /\ Kept
  BY <1>1, <1>11, ReceiveGoodsKeeps, PaySupplierKeeps DEF Falls
<1>12. ASSUME NEW w \in Worker, AdjustStock(w) \/ CloseShift(w)
       PROVE  Inv' /\ Kept
  BY <1>1, <1>12, AdjustStockKeeps, CloseShiftKeeps DEF Falls
<1> QED
  <2>1. CASE UNCHANGED vars
    BY <1>3, <2>1
  <2>2. CASE Next
    <3>1. PICK w \in Worker : \/ \E q \in Request : Begin(w, q)
                              \/ \E r : Lock(w, r)
                              \/ Fail(w) \/ Write(w)
      BY <2>2 DEF Next
    <3>2. CASE (\E q \in Request : Begin(w, q)) \/ (\E r : Lock(w, r)) \/ Fail(w)
      BY <1>4, <1>5, <1>6, <3>2
    <3>3. CASE Write(w)
      <4>1. \/ SettleSale(w) \/ VoidSale(w) \/ RefundSale(w)
            \/ RecordPayment(w) \/ WriteOff(w) \/ SetCreditLimit(w) \/ SetActive(w)
            \/ ReceiveGoods(w) \/ PaySupplier(w) \/ AdjustStock(w) \/ CloseShift(w)
        BY <3>3 DEF Write
      <4> QED BY <4>1, <1>7, <1>8, <1>9, <1>10, <1>11, <1>12
    <3> QED BY <3>1, <3>2, <3>3
  <2> QED BY <2>1, <2>2

\* The state is well formed whatever requests arrive and in whatever order their
\* transactions lock, write and fail (sales_service.py, customers_service.py,
\* purchasing_service.py).
THEOREM CounterTypeOK == Spec => []TypeOK
<1>1. Inv => TypeOK
  BY DEF Inv
<1> QED BY <1>1, InvInit, InvNext, PTL DEF Spec

\* No interleaving of sales, voids, returns, payments, receipts and corrections takes more
\* out of stock than came in, makes the shop owe a customer or overpays a supplier: what a
\* transaction checked under its row locks (FOR UPDATE) is still so when it writes.
THEOREM BalancesAlwaysHold == Spec => []BalancesHold
<1>1. Inv => BalancesHold
  BY DEF Inv
<1> QED BY <1>1, InvInit, InvNext, PTL DEF Spec

\* A sale is voided once or returned from, not both; its returns add up to no more than was
\* sold and charged, and to exactly what was charged when every piece is back, for every
\* split into returns and every rounding of the shares (domain/sales.py, refund_sale).
THEOREM ReturnsAlwaysAddUp == Spec => []ReturnsAddUp
<1>1. Inv => ReturnsAddUp
  <2> SUFFICES ASSUME Inv, NEW s \in Is("sale") \cap Done
               PROVE  /\ Voids(s) = {} \/ Returns(s) = {}
                      /\ \A u, v \in Voids(s) : u = v
                      /\ \A p \in Goods(s) : Left(s, p) >= 0
                      /\ sale[s].given <= Total(s) /\ sale[s].takenBack <= Charge(s)
                      /\ (\A p \in Goods(s) : Left(s, p) = 0) => sale[s].given = Total(s)
    BY DEF ReturnsAddUp
  <2>1. s \in Request /\ SaleKept(s) /\ Asks[s].kind = "sale" /\ request[s] = "done"
    BY DEF Inv, Is, Done
  <2>2. sale[s].status # "none"
    BY <2>1 DEF SaleKept
  <2> QED BY <2>1, <2>2 DEF SaleKept
<1> QED BY <1>1, InvInit, InvNext, PTL DEF Spec

\* What a customer owes grows only by a sale, only while the account is open to credit and
\* only up to the limit, though a manager may change either while the sale is rung up
\* (settle_sale checks under the customer's row lock; set_credit_limit and set_active lock
\* the same row).
THEOREM CreditAlwaysKept == Spec => CreditKept
<1>1. Inv /\ [Next]_vars => [\A c \in Customer : debt'[c] > debt[c] => card[c].active /\ (card[c].limit = None \/ debt'[c] <= card[c].limit)]_vars
  BY InvNext
<1> QED BY <1>1, InvInit, InvNext, PTL DEF Spec, CreditKept

-----------------------------------------------------------------------------
(* Waiting in a circle *)

\* In a finite set, something is below nothing.
LEMMA Topmost ==
    ASSUME NEW S, IsFiniteSet(S), S # {}, NEW lt,
           \A x \in S : <<x, x>> \notin lt,
           \A x, y, z \in S : <<x, y>> \in lt /\ <<y, z>> \in lt => <<x, z>> \in lt
    PROVE  \E x \in S : \A y \in S : <<x, y>> \notin lt
<1> SUFFICES ASSUME \A x \in S : \E y \in S : <<x, y>> \in lt
             PROVE  FALSE
  OBVIOUS
<1> DEFINE Rising == {T \in SUBSET S : T # {} /\ \A x \in T : \E y \in T : <<x, y>> \in lt}
<1>1. IsWellFoundedOn(StrictSubsetOrdering(S), SUBSET S)
  <2>1. IsWellFoundedOn(StrictSubsetOrdering(S), FiniteSubsetsOf(S))
    BY FS_StrictSubsetOrderingWellFounded
  <2> QED BY <2>1, FS_FiniteSubsetsOfFinite
<1>2. Rising \subseteq SUBSET S /\ S \in Rising
  OBVIOUS
<1>3. PICK T \in Rising : \A U \in Rising : <<U, T>> \notin StrictSubsetOrdering(S)
  <2> HIDE DEF Rising
  <2>1. Rising # {}
    BY <1>2
  <2> QED BY <1>1, <1>2, <2>1, WFMin
<1>4. PICK x \in T : TRUE
  OBVIOUS
<1> DEFINE U == {y \in T : <<x, y>> \in lt}
<1>5. U \in Rising
  <2>1. U \subseteq S /\ U # {}
    BY <1>4
  <2>2. ASSUME NEW y \in U
        PROVE  \E z \in U : <<y, z>> \in lt
    <3>1. PICK z \in T : <<y, z>> \in lt
      OBVIOUS
    <3>2. <<x, z>> \in lt
      BY <3>1
    <3> QED BY <3>1, <3>2
  <2> QED BY <2>1, <2>2
<1>6. U \subseteq T /\ U # T /\ U \in SUBSET S /\ T \in SUBSET S
  BY <1>4
<1>7. <<U, T>> \in StrictSubsetOrdering(S)
  <2> HIDE DEF U
  <2> QED BY <1>6 DEF StrictSubsetOrdering
<1> QED BY <1>3, <1>5, <1>7

\* The one order all transactions lock tables in, and receipts lock products in.
Rank == [t \in Table |-> CASE t = "sale" -> 1 [] t = "supplier" -> 2 [] t = "shift" -> 3
                           [] t = "product" -> 4 [] t = "customer" -> 5]
Below(o, r) ==
    \/ Rank[o[1]] < Rank[r[1]]
    \/ o[1] = "product" /\ r[1] = "product" /\ o[2] < r[2]

\* The rows of the tables by name.
LEMMA MayLockTables ==
    ASSUME NEW q \in Request, NEW r \in MayLock(q)
    PROVE  /\ r = <<r[1], r[2]>> /\ r[1] \in Table
           /\ r[1] = "product" => r[2] \in Product
<1>1. Asks[q].kind \in Kinds /\ Goods(q) \subseteq Product
  BY AskFacts
<1>2. CASE Asks[q].kind \in {"sale", "void", "refund"}
  BY <1>1, <1>2 DEF MayLock, Opt, Each, Table
<1>3. CASE Asks[q].kind \notin {"sale", "void", "refund"}
  BY <1>1, <1>3 DEF MayLock, Rows, PaymentRows, CardRows, ReceiptRows, PayRows, CloseRows, Opt, Each,
                    Table, Kinds
<1> QED BY <1>2, <1>3

\* What a request waits for is above what it holds, but for the products of a cart.
LEMMA HeldBelow ==
    ASSUME Inv, NEW w \in Worker, txn[w].req # None, NEW o \in txn[w].held, NEW r,
           IsNext(txn[w], r),
           ~(/\ Asks[txn[w].req].kind = "sale"
             /\ o[1] = "product" /\ r[1] = "product" /\ r[2] < o[2])
    PROVE  Below(o, r)
<1>1. PICK q \in Request : q = txn[w].req
  BY TxnType DEF Inv
<1>2. o \in MayLock(q) /\ r \in Rows(q) /\ r \in MayLock(q) /\ r # o /\ ~Before(q, r, o)
  BY <1>1, RowsMay DEF Inv, InOrder, IsNext
<1>3. /\ o = <<o[1], o[2]>> /\ (o[1] = "product" => o[2] \in Nat)
      /\ r = <<r[1], r[2]>> /\ (r[1] = "product" => r[2] \in Nat)
  BY <1>2, MayLockTables, ProductAssumption
<1>4. Asks[q].kind \in Kinds
  BY AskFacts
<1>5. /\ Rank["sale"] = 1 /\ Rank["supplier"] = 2 /\ Rank["shift"] = 3
      /\ Rank["product"] = 4 /\ Rank["customer"] = 5
  BY DEF Rank, Table
<1>6. CASE Asks[q].kind = "sale"
  <2>1. Tables("sale") = <<"shift", "product", "customer">>
    BY DEF Tables
  <2>2. /\ o[1] \in {"shift", "product", "customer"} /\ r[1] \in {"shift", "product", "customer"}
        /\ o[1] = r[1] => o[1] = "product"
    BY <1>2, <1>6 DEF MayLock, Opt, Each
  <2>3. /\ ~(r[1] = "shift" /\ o[1] \in {"product", "customer"})
        /\ ~(r[1] = "product" /\ o[1] = "customer")
    BY <1>2, <1>6, <2>1 DEF Before
  <2>4. CASE o[1] = r[1]
    BY <2>2, <2>4, <1>1, <1>2, <1>3, <1>6 DEF Below
  <2>5. CASE o[1] # r[1]
    BY <2>2, <2>3, <2>5, <1>5 DEF Below
  <2> QED BY <2>4, <2>5
<1>7. CASE Asks[q].kind \in {"void", "refund"}
  <2>1. Tables(Asks[q].kind) = <<"sale", "shift", "customer">>
    BY <1>7 DEF Tables
  <2>2. /\ o[1] \in {"sale", "shift", "customer"} /\ r[1] \in {"sale", "shift", "customer"}
        /\ o[1] # r[1]
    BY <1>2, <1>7 DEF MayLock, Opt
  <2>3. /\ ~(r[1] = "sale" /\ o[1] \in {"shift", "customer"})
        /\ ~(r[1] = "shift" /\ o[1] = "customer")
    BY <1>2, <2>1 DEF Before
  <2> QED BY <2>2, <2>3, <1>5 DEF Below
<1>8. CASE Asks[q].kind = "payment"
  <2>1. Tables("payment") = <<"shift", "customer">>
    BY DEF Tables
  <2>2. o[1] \in {"shift", "customer"} /\ r[1] \in {"shift", "customer"} /\ o[1] # r[1]
    BY <1>2, <1>8 DEF MayLock, Rows, PaymentRows, Opt
  <2>3. ~(r[1] = "shift" /\ o[1] = "customer")
    BY <1>2, <1>8, <2>1 DEF Before
  <2> QED BY <2>2, <2>3, <1>5 DEF Below
<1>9. CASE Asks[q].kind = "pay"
  <2>1. Tables("pay") = <<"supplier", "shift">>
    BY DEF Tables
  <2>2. o[1] \in {"supplier", "shift"} /\ r[1] \in {"supplier", "shift"} /\ o[1] # r[1]
    BY <1>2, <1>9 DEF MayLock, Rows, PayRows, Opt
  <2>3. ~(r[1] = "supplier" /\ o[1] = "shift")
    BY <1>2, <1>9, <2>1 DEF Before
  <2> QED BY <2>2, <2>3, <1>5 DEF Below
<1>10. CASE Asks[q].kind = "receive"
  <2>1. o[1] = "product" /\ r[1] = "product"
    BY <1>2, <1>10 DEF MayLock, Rows, ReceiptRows, Each
  <2>2. ~(r[2] < o[2])
    BY <1>2, <1>10, <2>1 DEF Before
  <2> QED BY <2>1, <2>2, <1>2, <1>3 DEF Below
<1>11. CASE Asks[q].kind \in {"writeoff", "limit", "active", "close", "adjust"}
  BY <1>2, <1>11 DEF MayLock, Rows, CardRows, CloseRows
<1> QED BY <1>4, <1>6, <1>7, <1>8, <1>9, <1>10, <1>11 DEF Kinds

\* If no cart is part of it, every circle would climb for ever.
LEMMA NoCircleButOfCarts ==
    ASSUME Inv
    PROVE  CirclesAreOfCarts
<1> DEFINE Cart(w, r, o) == /\ Asks[txn[w].req].kind = "sale" /\ IsNext(txn[w], o)
                            /\ o[1] = "product" /\ r[1] = "product" /\ o[2] < r[2]
<1> SUFFICES ASSUME NEW ws \in (SUBSET Worker) \ {{}},
                    \A w \in ws : \E v \in ws : WaitsFor(w, v),
                    ~ \E w \in ws : \E r \in txn[w].held, o \in Rows(txn[w].req) : Cart(w, r, o)
             PROVE  FALSE
  BY DEF CirclesAreOfCarts
<1>a. ws \subseteq Worker /\ ws # {}
  OBVIOUS
<1> DEFINE Wait(w) == CHOOSE r : IsNext(txn[w], r) /\ \E v \in ws : r \in txn[v].held
           lt == {e \in ws \X ws : Below(Wait(e[1]), Wait(e[2]))}
<1>1. ASSUME NEW w \in ws
      PROVE  /\ txn[w].req # None /\ txn[w].req \in Request /\ IsNext(txn[w], Wait(w))
             /\ \E v \in ws : Wait(w) \in txn[v].held
  <2>1. PICK v \in ws : txn[w].req # None /\ \E r \in txn[v].held : IsNext(txn[w], r)
    BY DEF WaitsFor
  <2>2. txn[w].req \in Request
    BY <2>1, TxnType DEF Inv
  <2>3. IsNext(txn[w], Wait(w)) /\ \E u \in ws : Wait(w) \in txn[u].held
    BY <2>1
  <2> QED BY <2>1, <2>2, <2>3
<1> HIDE DEF Wait
<1>2. ASSUME NEW w \in ws
      PROVE  /\ Rank[Wait(w)[1]] \in Nat
             /\ Wait(w)[1] = "product" => Wait(w)[2] \in Nat
  <2>1. Wait(w) \in MayLock(txn[w].req)
    BY <1>1, RowsMay DEF IsNext
  <2>2. Wait(w)[1] \in Table /\ (Wait(w)[1] = "product" => Wait(w)[2] \in Nat)
    BY <1>1, <2>1, MayLockTables, ProductAssumption
  <2>3. \A t \in Table : Rank[t] \in Nat
    BY DEF Rank, Table
  <2> QED BY <2>2, <2>3
<1>3. ASSUME NEW w \in ws
      PROVE  \E v \in ws : <<w, v>> \in lt
  <2>1. PICK v \in ws : Wait(w) \in txn[v].held
    BY <1>1
  <2>2. Wait(v) \in Rows(txn[v].req)
    BY <1>1 DEF IsNext
  <2>3. Below(Wait(w), Wait(v))
    BY <1>a, <1>1, <2>1, <2>2, HeldBelow
  <2> QED BY <2>3
<1>4. IsFiniteSet(ws)
  BY <1>a, WorkerAssumption, FS_Subset
<1>5. \A w \in ws : <<w, w>> \notin lt
  BY <1>2 DEF Below
<1>6. ASSUME NEW u \in ws, NEW v \in ws, NEW w \in ws,
             Below(Wait(u), Wait(v)), Below(Wait(v), Wait(w))
      PROVE  Below(Wait(u), Wait(w))
  BY <1>2, <1>6 DEF Below
<1>7. \A u, v, w \in ws : <<u, v>> \in lt /\ <<v, w>> \in lt => <<u, w>> \in lt
  BY <1>6
<1> HIDE DEF lt
<1>8. \E w \in ws : \A v \in ws : <<w, v>> \notin lt
  BY <1>a, <1>4, <1>5, <1>7, Topmost
<1> QED BY <1>3, <1>8

\* Requests wait in a circle only because of a cart: every transaction locks the tables in one
\* order and receipts lock products by id, so that only a sale, which locks them as they come
\* in the cart, can close a circle (sales_service.py, FOR UPDATE; PostgreSQL then ends one of them).
THEOREM CirclesAreAlwaysOfCarts == Spec => []CirclesAreOfCarts
  BY InvInit, InvNext, NoCircleButOfCarts, PTL DEF Spec

=============================================================================
