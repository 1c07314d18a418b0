------------------------ MODULE DeviceTransactionProofs ------------------------
(***************************************************************************)
(* Proofs about DeviceTransaction, for any number of documents, of tills   *)
(* that send them and of server threads, and whatever is lost or broken    *)
(* off.                                                                    *)
(*                                                                         *)
(* Threads do not wait in a circle because whoever has written holds every *)
(* header it can still ask for.  The one document that needs two headers   *)
(* is a return: of its own, which is new, and of the sale, which its first *)
(* row locks.  That the first row is there to do so rests on the order in  *)
(* which rows are recorded: what a till no longer sends is recorded, and   *)
(* of what is recorded the first row came first.                           *)
(*                                                                         *)
(* A document is in the books as a whole or not at all, and the rows keep  *)
(* what Documents promises.  A transaction writes a document from its      *)
(* header on, and what the header was checked against holds until the      *)
(* commit, by the locks.  What is left of a document when its header is    *)
(* refused is refused too, where SettlesWhole holds.                       *)
(***************************************************************************)
EXTENDS DeviceTransaction, SequenceTheorems, FiniteSetTheorems, WellFoundedInduction, TLAPS

Whole(d) == 1 .. Len(Written[d])
First(d) == <<d, 1>>

-----------------------------------------------------------------------------
(* The invariant *)

\* What a thread works on is the document it serves, and it knows what is left to do.
Serves(w) ==
    LET t == txn[w] IN
    /\ IF t.step = "idle" THEN t.sent = {}
       ELSE t.doc \in Doc /\ t.sent \subseteq Whole(t.doc) /\ t.sent # {}
    /\ t.todo \subseteq t.sent
    /\ t.step \in {"look", "write", "settle", "singly"} => t.todo # {}
    /\ t.step \in {"plan", "write"} => t.wrote \subseteq Rows(t, t.sent)
    /\ t.step \notin {"plan", "write"} => t.wrote = {} /\ t.held = {}

Basic == TypeOK /\ \A w \in Worker : Serves(w)

\* What a till no longer shows as pending is recorded, and the first row of a
\* document is recorded first.
ShownRecorded == \A r \in Row : shown[r] # "pending" => recorded[r] # "none"
FirstRecorded == \A d \in Doc : \A r \in RowsOf[d] : recorded[r] # "none" => recorded[First(d)] # "none"

\* So who was not sent the whole document finds its first row recorded, and rows are
\* decided one by one only where it is, or where there is one row.
FirstSent(w) ==
    LET t == txn[w] IN
    t.step # "idle" =>
      /\ t.sent = Whole(t.doc) \/ recorded[First(t.doc)] # "none"
      /\ t.step \in {"look", "settle"} => 1 \in t.todo \/ recorded[First(t.doc)] # "none"
      /\ t.step = "singly" => recorded[First(t.doc)] # "none" \/ Whole(t.doc) = {1}

\* What a thread has to answer is recorded.
GotRecorded(w) ==
    LET t == txn[w] IN
    \A i \in t.sent : t.got[i] \in {"applied", "rejected"} => recorded[<<t.doc, i>>] # "none"

Recording == ShownRecorded /\ FirstRecorded /\ \A w \in Worker : FirstSent(w) /\ GotRecorded(w)

\* A return's header is in the books only once all of the return is recorded, and who
\* sends a return without it does not find it there.
HeaderRecorded ==
    \A d \in Doc : Says[d].kind = "refund" /\ First(d) \in db /\ Kind(First(d)) = "refund" =>
                   \A r \in RowsOf[d] : recorded[r] # "none"
NoHeader(w) ==
    LET t == txn[w] IN
    t.step \in {"plan", "write"} /\ 1 \notin t.sent /\ Says[t.doc].kind = "refund" =>
      ~(First(t.doc) \in db /\ Kind(First(t.doc)) = "refund")

Headed == HeaderRecorded /\ \A w \in Worker : NoHeader(w)

\* One transaction at a time writes, what it wrote is new, and no header is held twice.
OneWriter == \A w, v \in Worker : w # v => txn[w].wrote = {} \/ txn[v].wrote = {}
NewRows(w) == txn[w].wrote \cap db = {}
HeldOnce == \A w, v \in Worker : w # v => txn[w].held \cap txn[v].held = {}

Exclusive == OneWriter /\ HeldOnce /\ \A w \in Worker : NewRows(w)

\* What a transaction has written, the row it is about to write included.
Writes(t) == t.wrote \cup (IF t.step = "write" THEN {<<t.doc, At(t)>>} ELSE {})
\* Having begun, it holds the headers it will ask for, but for its own new one.
Prepared(w) ==
    LET t == txn[w]
        s == Says[t.doc] IN
    t.step = "write" \/ (t.step = "plan" /\ (t.wrote # {} \/ t.held # {})) =>
      /\ s.kind = "sale" => t.doc \in t.held \/ First(t.doc) \in Writes(t)
      /\ s.kind = "refund" => s.of \in t.held /\ First(t.doc) \in Writes(t)
      /\ s.kind = "void" => s.of \in t.held
\* Not having begun, it has everything it was sent still to do.
Fresh(w) ==
    LET t == txn[w] IN
    t.step = "look" \/ (t.step = "plan" /\ t.wrote = {} /\ t.held = {}) => t.todo = t.sent

Ready == \A w \in Worker : Prepared(w) /\ Fresh(w)

Inv == Basic /\ Recording /\ Headed /\ Exclusive /\ Ready

-----------------------------------------------------------------------------
(* The rows of a document *)

\* A sequence of at most m rows of these kinds, of which only the first can be an f.
Shape(f, kinds, s, m) ==
    /\ s \in Seq([kind : kinds, n : Int]) /\ Len(s) <= m
    /\ \A i \in 1 .. Len(s) : s[i].kind = f => i = 1

LEMMA OneRow ==
    ASSUME NEW k, NEW n \in Int
    PROVE  R(k, n) \in Seq([kind : {k}, n : Int]) /\ Len(R(k, n)) <= 1 /\ Len(R(k, n)) \in Nat
<1>1. CASE n = 0
  BY <1>1, EmptySeq DEF R
<1>2. CASE n # 0
  <2>1. PICK r : r = [kind |-> k, n |-> n]
    OBVIOUS
  <2>2. r \in [kind : {k}, n : Int] /\ R(k, n) = <<r>>
    BY <1>2, <2>1 DEF R
  <2> HIDE DEF R
  <2>3. <<r>> \in Seq([kind : {k}, n : Int]) /\ Len(<<r>>) = 1
    BY <2>2
  <2> QED BY <2>2, <2>3
<1> QED BY <1>1, <1>2

LEMMA RowsJoined ==
    ASSUME NEW f, NEW K, NEW s, NEW m \in Nat, Shape(f, K, s, m), NEW k, k # f, NEW n \in Int
    PROVE  Shape(f, K \cup {k}, s \o R(k, n), m + 1)
<1> DEFINE T == [kind : K \cup {k}, n : Int]
           r == R(k, n)
<1>1. s \in Seq([kind : K, n : Int]) /\ r \in Seq([kind : {k}, n : Int]) /\ Len(r) <= 1
      /\ Len(s) <= m /\ Len(s) \in Nat /\ Len(r) \in Nat
  BY OneRow, LenProperties DEF Shape
<1>2. s \in Seq(T) /\ r \in Seq(T)
  BY <1>1, SeqMonotonic
<1> HIDE DEF r
<1>3. /\ s \o r \in Seq(T) /\ Len(s \o r) = Len(s) + Len(r)
      /\ \A i \in 1 .. Len(s) + Len(r) :
           (s \o r)[i] = IF i <= Len(s) THEN s[i] ELSE r[i - Len(s)]
  BY <1>2, ConcatProperties
<1>4. ASSUME NEW i \in 1 .. Len(s \o r), (s \o r)[i].kind = f PROVE i = 1
  <2>1. CASE i <= Len(s)
    BY <1>1, <1>3, <1>4, <2>1 DEF Shape
  <2>2. CASE i > Len(s)
    <3>1. i - Len(s) \in 1 .. Len(r) /\ (s \o r)[i] = r[i - Len(s)]
      BY <1>1, <1>3, <2>2
    <3>2. r[i - Len(s)] \in [kind : {k}, n : Int]
      BY <1>1, <3>1, ElementOfSeq
    <3> QED BY <1>4, <3>1, <3>2
  <2> QED BY <1>1, <1>3, <2>1, <2>2
<1> QED BY <1>1, <1>3, <1>4 DEF Shape, r

LEMMA RowBegun ==
    ASSUME NEW k, NEW f, NEW n \in Int
    PROVE  Shape(f, {k}, R(k, n), 1)
<1>1. R(k, n) \in Seq([kind : {k}, n : Int]) /\ Len(R(k, n)) <= 1 /\ Len(R(k, n)) \in Nat
  BY OneRow
<1>2. \A i \in 1 .. Len(R(k, n)) : i = 1
  BY <1>1
<1> QED BY <1>1, <1>2 DEF Shape

Kinds(d) ==
    CASE Says[d].kind = "sale"    -> {"sale", "line", "out", "pay", "charge"}
      [] Says[d].kind = "void"    -> {"void", "voidback", "voiddebt"}
      [] Says[d].kind = "refund"  -> {"refund", "rline", "rback", "rpay", "rdebt"}
      [] Says[d].kind = "receipt" -> {"receive", "bill"}

LEMMA SaysFacts ==
    ASSUME NEW d \in Doc
    PROVE  /\ Says[d].kind \in {"sale", "void", "refund", "receipt"} /\ Says[d].of \in Doc
           /\ Says[d].qty \in Int /\ Says[d].owed \in Int
  BY DocsAssumption

LEMMA WrittenFacts ==
    ASSUME NEW d \in Doc
    PROVE  Shape(Says[d].kind, Kinds(d), Written[d], MaxRows)
<1> DEFINE s == Says[d]
<1>1. s.kind \in {"sale", "void", "refund", "receipt"} /\ s.of \in Doc
      /\ s.qty \in Int /\ s.owed \in Int /\ Says[s.of].qty \in Int /\ s.qty - s.owed \in Int
  BY SaysFacts
<1>2. CASE s.kind = "sale"
  <2>1. Shape("sale", {"sale"}, R("sale", s.qty), 1)
    BY <1>1, RowBegun
  <2>2. Shape("sale", {"sale"} \cup {"line"}, R("sale", s.qty) \o R("line", s.qty), 1 + 1)
    BY <1>1, <2>1, RowsJoined
  <2>3. Shape("sale", ({"sale"} \cup {"line"}) \cup {"out"},
              (R("sale", s.qty) \o R("line", s.qty)) \o R("out", s.qty), (1 + 1) + 1)
    BY <1>1, <2>2, RowsJoined
  <2>4. Shape("sale", (({"sale"} \cup {"line"}) \cup {"out"}) \cup {"pay"},
              ((R("sale", s.qty) \o R("line", s.qty)) \o R("out", s.qty)) \o R("pay", s.qty - s.owed),
              ((1 + 1) + 1) + 1)
    BY <1>1, <2>3, RowsJoined
  <2>5. Shape("sale", ((({"sale"} \cup {"line"}) \cup {"out"}) \cup {"pay"}) \cup {"charge"},
              (((R("sale", s.qty) \o R("line", s.qty)) \o R("out", s.qty)) \o R("pay", s.qty - s.owed))
                \o R("charge", s.owed), (((1 + 1) + 1) + 1) + 1)
    BY <1>1, <2>4, RowsJoined
  <2>6. /\ (((1 + 1) + 1) + 1) + 1 = MaxRows
        /\ ((({"sale"} \cup {"line"}) \cup {"out"}) \cup {"pay"}) \cup {"charge"} = Kinds(d)
    BY <1>2 DEF MaxRows, Kinds
  <2>7. Written[d] = (((R("sale", s.qty) \o R("line", s.qty)) \o R("out", s.qty)) \o R("pay", s.qty - s.owed))
                       \o R("charge", s.owed)
    BY <1>2 DEF Written, SaleRows
  <2> QED BY <1>2, <2>5, <2>6, <2>7
<1>3. CASE s.kind = "refund"
  <2>1. Shape("refund", {"refund"}, R("refund", s.qty), 1)
    BY <1>1, RowBegun
  <2>2. Shape("refund", {"refund"} \cup {"rline"}, R("refund", s.qty) \o R("rline", s.qty), 1 + 1)
    BY <1>1, <2>1, RowsJoined
  <2>3. Shape("refund", ({"refund"} \cup {"rline"}) \cup {"rback"},
              (R("refund", s.qty) \o R("rline", s.qty)) \o R("rback", s.qty), (1 + 1) + 1)
    BY <1>1, <2>2, RowsJoined
  <2>4. Shape("refund", (({"refund"} \cup {"rline"}) \cup {"rback"}) \cup {"rpay"},
              ((R("refund", s.qty) \o R("rline", s.qty)) \o R("rback", s.qty)) \o R("rpay", s.qty - s.owed),
              ((1 + 1) + 1) + 1)
    BY <1>1, <2>3, RowsJoined
  <2>5. Shape("refund", ((({"refund"} \cup {"rline"}) \cup {"rback"}) \cup {"rpay"}) \cup {"rdebt"},
              (((R("refund", s.qty) \o R("rline", s.qty)) \o R("rback", s.qty)) \o R("rpay", s.qty - s.owed))
                \o R("rdebt", s.owed), (((1 + 1) + 1) + 1) + 1)
    BY <1>1, <2>4, RowsJoined
  <2>6. /\ (((1 + 1) + 1) + 1) + 1 = MaxRows
        /\ ((({"refund"} \cup {"rline"}) \cup {"rback"}) \cup {"rpay"}) \cup {"rdebt"} = Kinds(d)
    BY <1>3 DEF MaxRows, Kinds
  <2>7. Written[d] = (((R("refund", s.qty) \o R("rline", s.qty)) \o R("rback", s.qty)) \o R("rpay", s.qty - s.owed))
                       \o R("rdebt", s.owed)
    BY <1>3 DEF Written, ReturnRows
  <2> QED BY <1>3, <2>5, <2>6, <2>7
<1>4. CASE s.kind = "void"
  <2>1. PICK v : v = <<[kind |-> "void", n |-> 0]>>
    OBVIOUS
  <2>2. Shape("void", {"void"}, v, 1)
    <3>1. PICK r : r = [kind |-> "void", n |-> 0]
      OBVIOUS
    <3>2. r \in [kind : {"void"}, n : Int]
      BY <3>1
    <3>3. <<r>> \in Seq([kind : {"void"}, n : Int]) /\ Len(<<r>>) = 1
      BY <3>2
    <3> QED BY <2>1, <3>1, <3>3 DEF Shape
  <2>3. Shape("void", {"void"} \cup {"voidback"}, v \o R("voidback", Says[s.of].qty), 1 + 1)
    BY <1>1, <2>2, RowsJoined
  <2>4. Shape("void", ({"void"} \cup {"voidback"}) \cup {"voiddebt"},
              (v \o R("voidback", Says[s.of].qty)) \o R("voiddebt", s.owed), (1 + 1) + 1)
    BY <1>1, <2>3, RowsJoined
  <2>5. ({"void"} \cup {"voidback"}) \cup {"voiddebt"} = Kinds(d) /\ (1 + 1) + 1 = 3
    BY <1>4 DEF Kinds
  <2>6. Written[d] = (v \o R("voidback", Says[s.of].qty)) \o R("voiddebt", s.owed)
    BY <1>4, <2>1 DEF Written, VoidRows
  <2>7. Shape("void", Kinds(d), Written[d], 3)
    BY <2>4, <2>5, <2>6
  <2> QED BY <1>4, <2>7, LenProperties DEF Shape, MaxRows
<1>5. CASE s.kind = "receipt"
  <2>1. PICK a, b, c : /\ a = [kind |-> "receive", n |-> 1] /\ b = [kind |-> "receive", n |-> 2]
                       /\ c = [kind |-> "bill", n |-> s.qty]
    OBVIOUS
  <2>2. Written[d] = <<a, b, c>>
    BY <1>5, <2>1 DEF Written, ReceiptRows
  <2>3. /\ a \in [kind : {"receive", "bill"}, n : Int] /\ b \in [kind : {"receive", "bill"}, n : Int]
        /\ c \in [kind : {"receive", "bill"}, n : Int]
    BY <1>1, <2>1
  <2>4. <<a, b, c>> \in Seq([kind : {"receive", "bill"}, n : Int]) /\ Len(<<a, b, c>>) = 3
    BY <2>3
  <2>5. \A i \in 1 .. 3 : <<a, b, c>>[i].kind # "receipt"
    BY <2>3, <2>4, ElementOfSeq
  <2>6. Kinds(d) = {"receive", "bill"}
    BY <1>5 DEF Kinds
  <2> QED BY <1>5, <2>2, <2>4, <2>5, <2>6 DEF Shape, MaxRows
<1> QED BY <1>1, <1>2, <1>3, <1>4, <1>5

LEMMA RowFacts ==
    ASSUME NEW d \in Doc, NEW i \in Whole(d)
    PROVE  /\ i \in 1 .. MaxRows /\ i \in Int /\ 1 \in Whole(d)
           /\ <<d, i>> \in RowsOf[d] /\ <<d, i>> \in Row
           /\ Kind(<<d, i>>) \in Kinds(d) /\ (Kind(<<d, i>>) = Says[d].kind => i = 1)
<1>1. Shape(Says[d].kind, Kinds(d), Written[d], MaxRows)
  BY WrittenFacts
<1>2. /\ Written[d] \in Seq([kind : Kinds(d), n : Int]) /\ Len(Written[d]) \in Nat
      /\ Len(Written[d]) <= MaxRows /\ MaxRows \in Nat
  BY <1>1, LenProperties DEF Shape, MaxRows
<1>3. Written[d][i] \in [kind : Kinds(d), n : Int]
  BY <1>2, ElementOfSeq DEF Whole
<1>4. <<d, i>> \in RowsOf[d] /\ <<d, i>> \in Row
  BY DEF RowsOf, Row, Whole
<1>5. Kind(<<d, i>>) = Written[d][i].kind
  BY DEF Kind
<1>6. i \in 1 .. MaxRows /\ i \in Int /\ 1 \in Whole(d)
  BY <1>2 DEF Whole
<1> QED BY <1>1, <1>3, <1>4, <1>5, <1>6 DEF Shape, Whole

LEMMA WholeFacts ==
    ASSUME NEW d \in Doc
    PROVE  /\ Len(Written[d]) \in Nat /\ Whole(d) \subseteq 1 .. MaxRows /\ RowsOf[d] \subseteq Row
           /\ RowsOf[d] = {<<d, i>> : i \in Whole(d)}
           /\ Whole(d) # {} => 1 \in Whole(d) /\ First(d) \in RowsOf[d] /\ First(d) \in Row
<1>1. Len(Written[d]) \in Nat
  BY WrittenFacts, LenProperties DEF Shape
<1>2. RowsOf[d] = {<<d, i>> : i \in Whole(d)}
  BY DEF RowsOf, Whole
<1> QED BY <1>1, <1>2, RowFacts DEF First

LEMMA IsRow == \A r \in Row : \E d \in Doc : \E i \in Whole(d) : r = <<d, i>>
  BY DEF Row, RowsOf, Whole

(* A sale or a return is in the books when its first row is. *)
LEMMA HeaderFacts ==
    ASSUME NEW seen, seen \subseteq Row, NEW d \in Doc
    PROVE  Exists(seen, d) <=> /\ First(d) \in seen /\ Kind(First(d)) = Says[d].kind
                               /\ Says[d].kind \in {"sale", "refund"}
<1>1. ASSUME NEW r \in seen, r[1] = d, Kind(r) \in {"sale", "refund"}
      PROVE  r = First(d) /\ Kind(r) = Says[d].kind
  <2>1. PICK i \in Whole(d) : r = <<d, i>>
    BY <1>1, IsRow
  <2>2. Kind(r) \in Kinds(d) /\ (Kind(r) = Says[d].kind => i = 1)
    BY <2>1, RowFacts
  <2>3. Kind(r) = Says[d].kind
    BY <1>1, <2>2, SaysFacts DEF Kinds
  <2> QED BY <2>1, <2>2, <2>3 DEF First
<1>2. First(d)[1] = d
  BY DEF First
<1> QED BY <1>1, <1>2 DEF Exists, Of

LEMMA ReadsFacts ==
    ASSUME NEW d \in Doc, NEW i \in Whole(d)
    PROVE  LET r == <<d, i>>
               s == Says[d] IN
           /\ Reads(r) \subseteq Doc
           /\ s.kind = "sale" => Reads(r) \subseteq {d} /\ (Kind(r) # "sale" => Reads(r) = {d})
           /\ s.kind = "refund" => /\ Reads(r) \subseteq {d, s.of}
                                   /\ Kind(r) = "refund" => Reads(r) = {s.of}
                                   /\ Kind(r) # "refund" => d \in Reads(r)
           /\ s.kind = "void" => Reads(r) = {s.of}
           /\ s.kind = "receipt" => Reads(r) = {}
<1>1. Kind(<<d, i>>) \in Kinds(d) /\ Says[d].of \in Doc /\ Says[d].kind \in {"sale", "void", "refund", "receipt"}
  BY RowFacts, SaysFacts
<1>2. <<d, i>>[1] = d
  OBVIOUS
<1>3. CASE Says[d].kind = "sale"
  BY <1>1, <1>2, <1>3 DEF Reads, Kinds
<1>4. CASE Says[d].kind = "refund"
  BY <1>1, <1>2, <1>4 DEF Reads, Kinds
<1>5. CASE Says[d].kind = "void"
  BY <1>1, <1>2, <1>5 DEF Reads, Kinds
<1>6. CASE Says[d].kind = "receipt"
  BY <1>1, <1>2, <1>6 DEF Reads, Kinds
<1> QED BY <1>1, <1>3, <1>4, <1>5, <1>6

LEMMA MissingFacts ==
    ASSUME NEW d \in Doc, NEW i \in Whole(d), NEW seen, ~Missing(<<d, i>>, seen)
    PROVE  LET r == <<d, i>>
               s == Says[d] IN
           /\ s.kind = "sale" /\ Kind(r) # "sale" => Exists(seen, d)
           /\ s.kind = "refund" => IF Kind(r) = "refund" THEN Exists(seen, s.of) ELSE Exists(seen, d)
           /\ s.kind = "void" => Exists(seen, s.of)
<1>1. Kind(<<d, i>>) \in Kinds(d) /\ <<d, i>>[1] = d
  BY RowFacts
<1>2. CASE Says[d].kind = "sale"
  BY <1>1, <1>2 DEF Missing, Kinds
<1>3. CASE Says[d].kind = "refund"
  BY <1>1, <1>3 DEF Missing, Kinds
<1>4. CASE Says[d].kind = "void"
  BY <1>1, <1>4 DEF Missing, Kinds
<1> QED BY <1>2, <1>3, <1>4

LEMMA Smallest ==
    ASSUME NEW n \in Nat, NEW S \in SUBSET (1 .. n), S # {}
    PROVE  \E i \in S : \A j \in S : i <= j
<1> DEFINE Up(i) == {j \in S : j <= i}
           Ups == {Up(i) : i \in S}
<1>0. IsFiniteSet(1 .. n) /\ \A i \in S : i \in Int
  BY FS_Interval
<1>1. IsFiniteSet(S)
  BY <1>0, FS_Subset
<1>2. IsWellFoundedOn(StrictSubsetOrdering(S), SUBSET S)
  BY <1>1, FS_StrictSubsetOrderingWellFounded, FS_FiniteSubsetsOfFinite
<1>3. Ups \subseteq SUBSET S /\ Ups # {}
  OBVIOUS
<1>4. PICK T \in Ups : \A U \in Ups : <<U, T>> \notin StrictSubsetOrdering(S)
  <2> HIDE DEF Ups
  <2> QED BY <1>2, <1>3, WFMin
<1>5. PICK i \in S : T = Up(i)
  BY <1>4
<1>6. ASSUME NEW j \in S, j < i PROVE FALSE
  <2>1. \A k \in S : k <= j => k <= i
    BY <1>0, <1>6
  <2>2. i <= i /\ ~(i <= j)
    BY <1>0, <1>6
  <2>3. Up(j) \subseteq T /\ i \in T /\ i \notin Up(j) /\ Up(j) \in Ups
    BY <1>5, <2>1, <2>2
  <2>4. <<Up(j), T>> \in StrictSubsetOrdering(S)
    <3> HIDE DEF Up
    <3> QED BY <1>3, <2>3 DEF StrictSubsetOrdering
  <2> QED BY <1>4, <2>3, <2>4
<1> QED BY <1>0, <1>6

LEMMA AtFacts ==
    ASSUME NEW t, t.todo \subseteq 1 .. MaxRows, t.todo # {}
    PROVE  At(t) \in t.todo /\ (1 \in t.todo => At(t) = 1) /\ \A j \in t.todo : At(t) <= j
<1>1. \E i \in t.todo : \A j \in t.todo : i <= j
  BY Smallest DEF MaxRows
<1>2. At(t) \in t.todo /\ \A j \in t.todo : At(t) <= j
  BY <1>1 DEF At
<1> QED BY <1>2

-----------------------------------------------------------------------------
(* Steps of one thread *)

\* The invariant, as one thread sees it.
Fits(w) == Serves(w) /\ FirstSent(w) /\ GotRecorded(w) /\ NoHeader(w) /\ NewRows(w) /\ Prepared(w) /\ Fresh(w)

LEMMA InvParts == Inv <=> /\ TypeOK /\ ShownRecorded /\ FirstRecorded /\ HeaderRecorded /\ OneWriter
                          /\ HeldOnce /\ \A w \in Worker : Fits(w)
  BY DEF Inv, Basic, Recording, Headed, Exclusive, Ready, Fits

LEMMA TxnType ==
    ASSUME TypeOK, NEW w \in Worker
    PROVE  /\ txn[w] \in Txn /\ txn \in [Worker -> Txn]
           /\ txn[w].todo \subseteq 1 .. MaxRows /\ txn[w].sent \subseteq 1 .. MaxRows
           /\ txn[w].wrote \subseteq Row /\ txn[w].held \subseteq Doc /\ txn[w].step \in Step
           /\ txn[w].doc \in Doc \cup {None} /\ txn[w].got \in [1 .. MaxRows -> Verdict]
  BY DEF TypeOK, Txn

LEMMA IdleFacts ==
    /\ Idle \in Txn /\ Idle.step = "idle" /\ Idle.todo = {} /\ Idle.wrote = {} /\ Idle.held = {}
    /\ Idle.sent = {}
  BY DEF Idle, Txn, Step, Verdict

\* A step of w records and enters what was not recorded, and nobody else writes while it
\* enters anything.
Adds(w) ==
    /\ \A r \in Row : recorded[r] # "none" => recorded'[r] # "none"
    /\ db \subseteq db' /\ \A r \in db' \ db : r \in Row /\ recorded[r] = "none"
    /\ db' = db \/ FeedFree(w)

LEMMA OthersFit ==
    ASSUME Inv, NEW w \in Worker, NEW v \in Worker \ {w}, txn'[v] = txn[v], Adds(w)
    PROVE  Fits(v)'
<1> DEFINE t == txn[v]
<1>1. Fits(v) /\ TypeOK /\ t.step \in Step
  BY InvParts, TxnType
<1>2. t.step # "idle" => /\ t.doc \in Doc /\ t.sent # {} /\ t.sent \subseteq Whole(t.doc)
                         /\ 1 \in Whole(t.doc) /\ First(t.doc) \in Row
  BY <1>1, WholeFacts DEF Fits, Serves
<1>3. Serves(v)' /\ Prepared(v)' /\ Fresh(v)'
  BY <1>1 DEF Fits, Serves, Prepared, Writes, At, Fresh
<1>4. FirstSent(v)'
  BY <1>1, <1>2 DEF Fits, FirstSent, Adds
<1>7. GotRecorded(v)'
  <2>1. \A i \in t.sent : <<t.doc, i>> \in Row
    <3>1. t.step = "idle" => t.sent = {}
      BY <1>1 DEF Fits, Serves
    <3> QED BY <1>2, <3>1, RowFacts
  <2> QED BY <1>1, <2>1 DEF Fits, GotRecorded, Adds
<1>5. NoHeader(v)'
  <2> SUFFICES ASSUME t.step \in {"plan", "write"}, 1 \notin t.sent, First(t.doc) \in db' \ db
               PROVE  FALSE
    BY <1>1 DEF Fits, NoHeader
  <2>1. recorded[First(t.doc)] = "none"
    BY DEF Adds
  <2> QED BY <1>1, <1>2, <2>1 DEF Fits, FirstSent
<1>6. NewRows(v)'
  BY <1>1 DEF Fits, NewRows, Adds, FeedFree
<1> QED BY <1>3, <1>4, <1>5, <1>6, <1>7 DEF Fits

LEMMA StepKeeps ==
    ASSUME Inv, NEW w \in Worker, TypeOK', \A v \in Worker \ {w} : txn'[v] = txn[v], Adds(w),
           ShownRecorded', FirstRecorded', HeaderRecorded', Fits(w)',
           txn'[w].wrote = {} \/ txn[w].wrote # {} \/ FeedFree(w),
           \A v \in Worker \ {w} : txn[v].held \cap txn'[w].held = {}
    PROVE  Inv'
<1>1. OneWriter /\ HeldOnce
  BY InvParts
<1>2. \A v \in Worker : Fits(v)'
  BY OthersFit
<1>3. OneWriter'
  <2>1. ASSUME NEW v \in Worker \ {w} PROVE txn'[w].wrote = {} \/ txn'[v].wrote = {}
    BY <1>1 DEF OneWriter, FeedFree
  <2> QED BY <1>1, <2>1 DEF OneWriter
<1>4. HeldOnce'
  BY <1>1 DEF HeldOnce
<1>5. TypeOK' /\ ShownRecorded' /\ FirstRecorded' /\ HeaderRecorded'
  OBVIOUS
<1> QED BY <1>2, <1>3, <1>4, <1>5 DEF Inv, Basic, Recording, Headed, Exclusive, Ready, Fits

(* A step that changes nothing but what its thread has in hand. *)
LEMMA OwnStep ==
    ASSUME Inv, NEW w \in Worker, NEW s \in Txn, GoOn(w, s), UNCHANGED <<db, recorded>>,
           shown' = shown, waits' \in [Doc -> Worker \cup {None}], denied' \subseteq Deniable,
           loose' \subseteq Edited, faults' \in 0 .. MaxFault, Fits(w)',
           s.wrote = {} \/ txn[w].wrote # {} \/ FeedFree(w),
           \A v \in Worker \ {w} : txn[v].held \cap s.held = {}
    PROVE  Inv'
<1>1. TypeOK /\ ShownRecorded /\ FirstRecorded /\ HeaderRecorded
  BY InvParts
<1>2. txn' = [txn EXCEPT ![w] = s] /\ txn \in [Worker -> Txn]
  BY <1>1 DEF GoOn, TypeOK
<1>3. TypeOK'
  BY <1>1, <1>2 DEF TypeOK
<1>4. ShownRecorded' /\ FirstRecorded' /\ HeaderRecorded'
  BY <1>1 DEF ShownRecorded, FirstRecorded, HeaderRecorded
<1>5. Adds(w)
  BY DEF Adds
<1> QED BY <1>2, <1>3, <1>4, <1>5, StepKeeps

(* A step after which nothing is written or held. *)
LEMMA PlainFits ==
    ASSUME NEW w \in Worker, txn'[w].wrote = {}, txn'[w].held = {},
           txn'[w].step \in {"settle", "singly", "answer"}, txn'[w].doc \in Doc,
           txn'[w].sent \subseteq Whole(txn'[w].doc), txn'[w].sent # {}, txn'[w].todo \subseteq txn'[w].sent,
           txn'[w].step \in {"settle", "singly"} => txn'[w].todo # {},
           FirstSent(w)', GotRecorded(w)'
    PROVE  Fits(w)'
  BY DEF Fits, Serves, NoHeader, NewRows, Prepared, Fresh

LEMMA IdleFits == ASSUME NEW w \in Worker, txn'[w] = Idle PROVE Fits(w)'
  BY IdleFacts DEF Fits, Serves, FirstSent, GotRecorded, NoHeader, NewRows, Prepared, Fresh

-----------------------------------------------------------------------------
(* What each step keeps *)

LEMMA PushKeeps == ASSUME Inv, NEW w \in Worker, NEW d \in Doc, Push(w, d) PROVE Inv'
<1>1. TypeOK /\ ShownRecorded /\ FirstRecorded
  BY InvParts
<1>2. PICK P : P = Pending(d)
  OBVIOUS
<1>3. P \subseteq Whole(d) /\ P # {} /\ P \subseteq 1 .. MaxRows /\ 1 \in Whole(d)
  BY <1>2, WholeFacts DEF Push, Pending, Whole
<1>4. PICK s : s = [Idle EXCEPT !.doc = d, !.step = "look", !.todo = P, !.sent = P]
  OBVIOUS
<1>5. /\ s \in Txn /\ s.doc = d /\ s.step = "look" /\ s.todo = P /\ s.sent = P /\ s.wrote = {} /\ s.held = {}
      /\ \A i \in P : s.got[i] = "none"
  BY <1>3, <1>4, IdleFacts DEF Idle, Txn, Step
<1>6. GoOn(w, s) /\ waits' = [waits EXCEPT ![d] = w] /\ UNCHANGED <<db, recorded, shown, denied, loose, faults>>
  BY <1>2, <1>4 DEF Push
<1>7. txn'[w] = s
  BY <1>1, <1>6, TxnType DEF GoOn
<1>8. P = Whole(d) \/ recorded[First(d)] # "none"
  <2> SUFFICES ASSUME NEW i \in Whole(d), i \notin P PROVE recorded[First(d)] # "none"
    BY <1>3
  <2>1. shown[<<d, i>>] # "pending" /\ <<d, i>> \in Row /\ <<d, i>> \in RowsOf[d]
    BY <1>2, RowFacts DEF Pending, Whole
  <2> QED BY <1>1, <2>1 DEF ShownRecorded, FirstRecorded
<1>9. FirstSent(w)'
  BY <1>3, <1>5, <1>6, <1>7, <1>8 DEF FirstSent
<1>10. Fits(w)'
  BY <1>3, <1>5, <1>7, <1>9 DEF Fits, Serves, GotRecorded, NoHeader, NewRows, Prepared, Fresh
<1>11. waits' \in [Doc -> Worker \cup {None}]
  BY <1>1, <1>6 DEF TypeOK
<1> QED BY <1>1, <1>5, <1>6, <1>10, <1>11, OwnStep DEF TypeOK

LEMMA LookKeeps == ASSUME Inv, NEW w \in Worker, Look(w) PROVE Inv'
<1> DEFINE t == txn[w]
           alone == Recorded(t) # {} \/ Cardinality(t.sent) = 1
<1>1. /\ TypeOK /\ FirstRecorded /\ HeaderRecorded /\ Fits(w) /\ t \in Txn /\ txn \in [Worker -> Txn]
      /\ t.step = "look"
  BY InvParts, TxnType DEF Look
<1>2. /\ t.doc \in Doc /\ t.sent # {} /\ t.sent \subseteq Whole(t.doc) /\ t.todo = t.sent
      /\ t.wrote = {} /\ t.held = {} /\ t.todo \subseteq t.sent
      /\ t.sent = Whole(t.doc) \/ recorded[First(t.doc)] # "none"
  BY <1>1 DEF Fits, Serves, Fresh, FirstSent
<1>3. PICK s : s = [t EXCEPT !.step = IF alone THEN "singly" ELSE "plan"]
  OBVIOUS
<1>4. /\ s \in Txn /\ s.doc = t.doc /\ s.step = (IF alone THEN "singly" ELSE "plan") /\ s.todo = t.todo
      /\ s.sent = t.sent /\ s.wrote = {} /\ s.held = {} /\ s.got = t.got
  BY <1>1, <1>2, <1>3 DEF Txn, Step
<1>5. GoOn(w, s) /\ UNCHANGED <<db, recorded, shown, waits, denied, loose, faults>>
  BY <1>3 DEF Look
<1>6. txn'[w] = s
  BY <1>1, <1>5 DEF GoOn
<1>7. ASSUME alone PROVE recorded[First(t.doc)] # "none" \/ Whole(t.doc) = {1}
  <2>1. CASE Recorded(t) # {}
    <3>1. PICK i \in t.sent : recorded[<<t.doc, i>>] # "none"
      BY <2>1 DEF Recorded
    <3>2. <<t.doc, i>> \in RowsOf[t.doc]
      BY <1>2, RowFacts
    <3> QED BY <1>1, <1>2, <3>1, <3>2 DEF FirstRecorded
  <2>2. CASE Cardinality(t.sent) = 1 /\ t.sent = Whole(t.doc)
    <3>1. Len(Written[t.doc]) \in Nat
      BY <1>2, WholeFacts
    <3>2. Cardinality(1 .. Len(Written[t.doc])) = Len(Written[t.doc])
      <4>1. Len(Written[t.doc]) >= 1
        BY <1>2, <3>1 DEF Whole
      <4> QED BY <3>1, <4>1, FS_Interval
    <3> QED BY <2>2, <3>1, <3>2 DEF Whole
  <2> QED BY <1>2, <1>7, <2>1, <2>2
<1>8. FirstSent(w)'
  BY <1>2, <1>4, <1>5, <1>6, <1>7 DEF FirstSent
<1>9. NoHeader(w)'
  <2> SUFFICES ASSUME ~alone, Says[t.doc].kind = "refund", First(t.doc) \in db, Kind(First(t.doc)) = "refund"
               PROVE  FALSE
    BY <1>4, <1>5, <1>6 DEF NoHeader
  <2>1. PICK i \in t.sent : TRUE
    BY <1>2
  <2>2. <<t.doc, i>> \in RowsOf[t.doc]
    BY <1>2, RowFacts
  <2>3. recorded[<<t.doc, i>>] # "none"
    BY <1>1, <1>2, <2>2 DEF HeaderRecorded
  <2> QED BY <2>1, <2>3 DEF Recorded
<1>a. GotRecorded(w)'
  BY <1>1, <1>4, <1>5, <1>6 DEF Fits, GotRecorded
<1>10. Fits(w)'
  BY <1>2, <1>4, <1>6, <1>8, <1>9, <1>a DEF Fits, Serves, NewRows, Prepared, Fresh
<1> QED BY <1>1, <1>4, <1>5, <1>10, OwnStep DEF TypeOK

(* Rolling back leaves a thread with the rows it was sent. *)
LEMMA RolledBack ==
    ASSUME Inv, NEW w \in Worker, txn[w].step \in {"plan", "write"}, NEW s \in Txn, GoOn(w, s),
           s.doc = txn[w].doc, s.sent = txn[w].sent, s.todo = s.sent, s.wrote = {}, s.held = {},
           \A i \in s.sent : s.got[i] \in {txn[w].got[i], "later"},
           s.step \in {"settle", "answer"} \/ (s.step = "singly" /\ Recorded(txn[w]) # {}),
           UNCHANGED <<db, recorded, shown, waits, denied, loose, faults>>
    PROVE  Inv'
<1> DEFINE t == txn[w]
<1>1. TypeOK /\ FirstRecorded /\ Fits(w) /\ txn'[w] = s
  BY InvParts, TxnType DEF GoOn
<1>2. /\ t.doc \in Doc /\ t.sent # {} /\ t.sent \subseteq Whole(t.doc) /\ 1 \in Whole(t.doc)
      /\ t.sent = Whole(t.doc) \/ recorded[First(t.doc)] # "none"
  BY <1>1, WholeFacts DEF Fits, Serves, FirstSent
<1>3. ASSUME Recorded(t) # {} PROVE recorded[First(t.doc)] # "none"
  <2>1. PICK i \in t.sent : recorded[<<t.doc, i>>] # "none"
    BY <1>3 DEF Recorded
  <2>2. <<t.doc, i>> \in RowsOf[t.doc]
    BY <1>2, RowFacts
  <2> QED BY <1>1, <1>2, <2>1, <2>2 DEF FirstRecorded
<1>4. FirstSent(w)'
  BY <1>1, <1>2, <1>3 DEF FirstSent
<1>5. GotRecorded(w)'
  BY <1>1 DEF Fits, GotRecorded
<1>6. Fits(w)'
  BY <1>1, <1>2, <1>4, <1>5, PlainFits
<1> QED BY <1>1, <1>6, OwnStep DEF TypeOK

LEMMA RollBackType ==
    ASSUME TypeOK, NEW w \in Worker, NEW step \in Step
    PROVE  LET t == txn[w] IN
           /\ RollBack(t, step) \in Txn /\ RollBack(t, step).doc = t.doc /\ RollBack(t, step).sent = t.sent
           /\ RollBack(t, step).todo = t.sent /\ RollBack(t, step).wrote = {} /\ RollBack(t, step).held = {}
           /\ RollBack(t, step).step = step /\ RollBack(t, step).got = t.got
<1>1. txn[w] \in Txn
  BY TxnType
<1> QED BY <1>1 DEF RollBack, Txn

LEMMA ForNowType ==
    ASSUME TypeOK, NEW w \in Worker
    PROVE  LET t == txn[w] IN
           /\ ForNow(t) \in Txn /\ ForNow(t).doc = t.doc /\ ForNow(t).sent = t.sent /\ ForNow(t).todo = t.sent
           /\ ForNow(t).wrote = {} /\ ForNow(t).held = {} /\ ForNow(t).step = "answer"
           /\ \A i \in t.sent : ForNow(t).got[i] = "later"
<1> DEFINE t == txn[w]
<1>1. PICK r : r = RollBack(t, "answer")
  OBVIOUS
<1>2. r \in Txn /\ r.doc = t.doc /\ r.sent = t.sent /\ r.todo = t.sent /\ r.wrote = {} /\ r.held = {}
      /\ r.step = "answer"
  BY <1>1, RollBackType DEF Step
<1>3. PICK g : g = [i \in 1 .. MaxRows |-> IF i \in t.sent THEN "later" ELSE "none"]
  OBVIOUS
<1>4. g \in [1 .. MaxRows -> Verdict] /\ \A i \in t.sent : g[i] = "later"
  BY <1>3, TxnType DEF Verdict
<1>5. ForNow(t) = [r EXCEPT !.got = g]
  BY <1>1, <1>3 DEF ForNow
<1> QED BY <1>2, <1>4, <1>5 DEF Txn

(* The first row a transaction plans locks the header it will need. *)
LEMMA Begins ==
    ASSUME Inv, NEW w \in Worker, txn[w].step = "plan", txn[w].todo # {},
           ~Missing(<<txn[w].doc, At(txn[w])>>, db \cup txn[w].wrote)
    PROVE  LET t == txn[w]
               s == Says[t.doc]
               r == <<t.doc, At(t)>>
               held == t.held \cup Headers(Reads(r)) IN
           /\ s.kind = "sale" => t.doc \in held \/ First(t.doc) \in t.wrote \cup {r}
           /\ s.kind = "refund" => s.of \in held /\ First(t.doc) \in t.wrote \cup {r}
           /\ s.kind = "void" => s.of \in held
<1> DEFINE t == txn[w]
           s == Says[t.doc]
           r == <<t.doc, At(t)>>
           held == t.held \cup Headers(Reads(r))
<1>1. /\ TypeOK /\ Fits(w) /\ t.doc \in Doc /\ t.sent \subseteq Whole(t.doc) /\ t.todo \subseteq t.sent
      /\ db \subseteq Row
  BY InvParts DEF Fits, Serves, TypeOK
<1>2. At(t) \in t.todo /\ At(t) \in Whole(t.doc) /\ (1 \in t.todo => At(t) = 1)
  BY <1>1, AtFacts, TxnType
<1>3. CASE t.wrote # {} \/ t.held # {}
  BY <1>1, <1>3 DEF Fits, Prepared, Writes
<1>4. CASE t.wrote = {} /\ t.held = {}
  <2>1. t.todo = t.sent /\ ~Missing(r, db)
    <3>1. db \cup t.wrote = db
      BY <1>4
    <3> QED BY <1>1, <1>4, <3>1 DEF Fits, Fresh
  <2>2. /\ s.kind = "sale" /\ Kind(r) # "sale" => Exists(db, t.doc)
        /\ s.kind = "refund" => IF Kind(r) = "refund" THEN Exists(db, s.of) ELSE Exists(db, t.doc)
        /\ s.kind = "void" => Exists(db, s.of)
    BY <1>1, <1>2, <2>1, MissingFacts
  <2>3. /\ s.kind = "sale" /\ Kind(r) # "sale" => Reads(r) = {t.doc}
        /\ s.kind = "refund" /\ Kind(r) = "refund" => Reads(r) = {s.of}
        /\ s.kind = "void" => Reads(r) = {s.of}
    BY <1>1, <1>2, ReadsFacts
  <2>4. Kind(r) = s.kind => At(t) = 1
    BY <1>1, <1>2, RowFacts
  <2>5. CASE s.kind = "sale"
    BY <2>2, <2>3, <2>4, <2>5 DEF Headers, First
  <2>6. CASE s.kind = "void"
    BY <2>2, <2>3, <2>6 DEF Headers
  <2>7. CASE s.kind = "refund"
    <3>1. ASSUME Kind(r) # "refund" PROVE FALSE
      <4>1. Exists(db, t.doc)
        BY <2>2, <2>7, <3>1
      <4>2. First(t.doc) \in db /\ Kind(First(t.doc)) = "refund"
        BY <1>1, <2>7, <4>1, HeaderFacts
      <4>3. 1 \in t.sent
        BY <1>1, <2>7, <4>2 DEF Fits, NoHeader
      <4>4. At(t) = 1
        BY <1>2, <2>1, <4>3
      <4> QED BY <3>1, <4>2, <4>4 DEF First
    <3> QED BY <2>2, <2>3, <2>4, <2>7, <3>1 DEF Headers, First
  <2> QED BY <1>1, <2>5, <2>6, <2>7
<1> QED BY <1>3, <1>4

LEMMA PlanRowKeeps == ASSUME Inv, NEW w \in Worker, PlanRow(w) PROVE Inv'
<1> DEFINE t == txn[w]
           r == <<t.doc, At(t)>>
           plan == Plan(r, db \cup t.wrote)
<1>1. /\ TypeOK /\ HeldOnce /\ Fits(w) /\ t \in Txn /\ txn \in [Worker -> Txn]
      /\ t.step = "plan" /\ t.todo # {} /\ CanRead(w, r)
      /\ UNCHANGED <<db, recorded, shown, waits, denied, loose, faults>>
  BY InvParts, TxnType DEF PlanRow
<1>2. /\ t.doc \in Doc /\ t.sent \subseteq Whole(t.doc) /\ t.todo \subseteq t.sent /\ t.sent # {}
      /\ t.wrote \subseteq Rows(t, t.sent) /\ t.todo \subseteq 1 .. MaxRows
  BY <1>1, TxnType DEF Fits, Serves
<1>3. At(t) \in t.todo /\ At(t) \in Whole(t.doc)
  BY <1>1, <1>2, AtFacts
<1>4. PICK H \in SUBSET Doc : H = t.held \cup Headers(Reads(r))
  <2>1. Reads(r) \subseteq Doc
    BY <1>2, <1>3, ReadsFacts
  <2>2. t.held \subseteq Doc
    BY <1>1, TxnType
  <2> QED BY <2>1, <2>2 DEF Headers
<1>5. \A v \in Worker \ {w} : txn[v].held \cap H = {}
  BY <1>1, <1>4 DEF CanRead, Unlocked, HeldOnce
<1>6. plan \in {"write", "noop", "rejected", "later"}
  BY DEF Plan
<1>7. GoOn(w, CASE plan = "write"    -> [[t EXCEPT !.held = H] EXCEPT !.step = "write"]
                [] plan = "noop"     -> [[t EXCEPT !.held = H] EXCEPT !.todo = @ \ {At(t)}]
                [] plan = "rejected" -> RollBack(t, "settle")
                [] plan = "later"    -> ForNow(t))
  BY <1>4 DEF PlanRow
<1>8. ASSUME plan \in {"write", "noop"}
      PROVE  LET s == Says[t.doc] IN
             /\ s.kind = "sale" => t.doc \in H \/ First(t.doc) \in t.wrote \cup {r}
             /\ s.kind = "refund" => s.of \in H /\ First(t.doc) \in t.wrote \cup {r}
             /\ s.kind = "void" => s.of \in H
  <2>1. ~Missing(r, db \cup t.wrote)
    BY <1>8 DEF Plan
  <2> QED BY <1>1, <1>4, <2>1, Begins
<1>a. ASSUME plan = "noop" PROVE Says[t.doc].kind = "void"
  <2>1. Kind(r) = "void"
    BY <1>a DEF Plan
  <2>2. Kind(r) \in Kinds(t.doc)
    BY <1>2, <1>3, RowFacts
  <2> QED BY <1>2, <2>1, <2>2, SaysFacts DEF Kinds
<1> HIDE DEF plan
<1>9. CASE plan = "write"
  <2>1. PICK s : s = [[t EXCEPT !.held = H] EXCEPT !.step = "write"]
    OBVIOUS
  <2>2. /\ s \in Txn /\ s.doc = t.doc /\ s.step = "write" /\ s.todo = t.todo /\ s.sent = t.sent
        /\ s.wrote = t.wrote /\ s.held = H /\ s.got = t.got
    BY <1>1, <2>1 DEF Txn, Step
  <2>3. GoOn(w, s) /\ txn'[w] = s
    BY <1>1, <1>7, <1>9, <2>1 DEF GoOn
  <2>4. At(s) = At(t)
    BY <2>2 DEF At
  <2>5. Writes(s) = t.wrote \cup {r}
    BY <2>2, <2>4 DEF Writes
  <2>6. Prepared(w)'
    BY <1>8, <1>9, <2>2, <2>3, <2>5 DEF Prepared
  <2>7. Serves(w)' /\ FirstSent(w)' /\ GotRecorded(w)' /\ NoHeader(w)' /\ NewRows(w)' /\ Fresh(w)'
    BY <1>1, <1>2, <2>2, <2>3 DEF Fits, Serves, FirstSent, GotRecorded, NoHeader, NewRows, Fresh, Rows
  <2> QED BY <1>1, <1>5, <2>2, <2>3, <2>6, <2>7, OwnStep DEF TypeOK, Fits
<1>10. CASE plan = "noop"
  <2>1. PICK s : s = [[t EXCEPT !.held = H] EXCEPT !.todo = @ \ {At(t)}]
    OBVIOUS
  <2>2. /\ s \in Txn /\ s.doc = t.doc /\ s.step = "plan" /\ s.todo = t.todo \ {At(t)} /\ s.sent = t.sent
        /\ s.wrote = t.wrote /\ s.held = H /\ s.got = t.got
    BY <1>1, <2>1 DEF Txn
  <2>3. GoOn(w, s) /\ txn'[w] = s
    BY <1>1, <1>7, <1>10, <2>1 DEF GoOn
  <2>4. Prepared(w)' /\ Fresh(w)'
    BY <1>8, <1>a, <1>10, <2>2, <2>3 DEF Prepared, Fresh
  <2>5. Serves(w)' /\ FirstSent(w)' /\ GotRecorded(w)' /\ NoHeader(w)' /\ NewRows(w)'
    BY <1>1, <1>2, <2>2, <2>3 DEF Fits, Serves, FirstSent, GotRecorded, NoHeader, NewRows, Rows
  <2> QED BY <1>1, <1>5, <2>2, <2>3, <2>4, <2>5, OwnStep DEF TypeOK, Fits
<1>11. CASE plan = "rejected"
  BY <1>1, <1>7, <1>11, RollBackType, RolledBack DEF Step
<1>12. CASE plan = "later"
  BY <1>1, <1>7, <1>12, ForNowType, RolledBack
<1> QED BY <1>6, <1>9, <1>10, <1>11, <1>12

LEMMA WriteRowKeeps == ASSUME Inv, NEW w \in Worker, WriteRow(w) PROVE Inv'
<1> DEFINE t == txn[w]
           r == <<t.doc, At(t)>>
<1>1. /\ TypeOK /\ HeldOnce /\ Fits(w) /\ t \in Txn /\ txn \in [Worker -> Txn]
      /\ t.step = "write" /\ FeedFree(w)
      /\ UNCHANGED <<db, recorded, shown, waits, denied, loose, faults>>
  BY InvParts, TxnType DEF WriteRow
<1>2. /\ t.doc \in Doc /\ t.sent \subseteq Whole(t.doc) /\ t.todo \subseteq t.sent /\ t.sent # {} /\ t.todo # {}
      /\ t.wrote \subseteq Rows(t, t.sent) /\ t.todo \subseteq 1 .. MaxRows
  BY <1>1, TxnType DEF Fits, Serves
<1>3. At(t) \in t.todo /\ At(t) \in Whole(t.doc)
  BY <1>1, <1>2, AtFacts
<1>4. CASE r \in db
  <2>1. CASE Recorded(t) # {}
    BY <1>1, <1>4, <2>1, RollBackType, RolledBack DEF WriteRow, Step
  <2>2. CASE Recorded(t) = {}
    BY <1>1, <1>4, <2>2, ForNowType, RolledBack DEF WriteRow
  <2> QED BY <2>1, <2>2
<1>5. CASE r \notin db
  <2>1. PICK s : s = [t EXCEPT !.step = "plan", !.wrote = @ \cup {r}, !.todo = @ \ {At(t)}]
    OBVIOUS
  <2>2. r \in RowsOf[t.doc] /\ r \in Row
    BY <1>2, <1>3, RowFacts
  <2>3. /\ s \in Txn /\ s.doc = t.doc /\ s.step = "plan" /\ s.todo = t.todo \ {At(t)} /\ s.sent = t.sent
        /\ s.wrote = t.wrote \cup {r} /\ s.held = t.held /\ s.got = t.got
    BY <1>1, <2>1, <2>2 DEF Txn, Step
  <2>4. GoOn(w, s) /\ txn'[w] = s
    BY <1>1, <1>5, <2>1 DEF GoOn, WriteRow
  <2>5. Writes(s) = Writes(t)
    BY <1>1, <2>3 DEF Writes
  <2>6. Prepared(w)' /\ Fresh(w)'
    BY <1>1, <2>3, <2>4, <2>5 DEF Fits, Prepared, Fresh
  <2>7. Serves(w)' /\ FirstSent(w)' /\ GotRecorded(w)' /\ NoHeader(w)' /\ NewRows(w)'
    BY <1>1, <1>2, <1>3, <1>5, <2>3, <2>4 DEF Fits, Serves, FirstSent, GotRecorded, NoHeader, NewRows, Rows
  <2>8. \A v \in Worker \ {w} : txn[v].held \cap s.held = {}
    BY <1>1, <2>3 DEF HeldOnce
  <2> QED BY <1>1, <2>3, <2>4, <2>6, <2>7, <2>8, OwnStep DEF TypeOK, Fits
<1> QED BY <1>4, <1>5

LEMMA CommitKeeps == ASSUME Inv, NEW w \in Worker, Commit(w) PROVE Inv'
<1> DEFINE t == txn[w]
<1>1. /\ TypeOK /\ ShownRecorded /\ FirstRecorded /\ HeaderRecorded /\ OneWriter /\ Fits(w)
      /\ t \in Txn /\ txn \in [Worker -> Txn] /\ t.step = "plan" /\ t.todo = {}
      /\ UNCHANGED <<shown, waits, denied, loose, faults>>
  BY InvParts, TxnType DEF Commit
<1>2. /\ t.doc \in Doc /\ t.sent \subseteq Whole(t.doc) /\ t.sent # {} /\ t.wrote \subseteq Rows(t, t.sent)
      /\ t.sent = Whole(t.doc) \/ recorded[First(t.doc)] # "none"
      /\ 1 \in Whole(t.doc) /\ First(t.doc) \in Row
  BY <1>1, WholeFacts DEF Fits, Serves, FirstSent
<1>3. CASE Recorded(t) # {}
  BY <1>1, <1>3, RollBackType, RolledBack DEF Commit, Step
<1>4. CASE Recorded(t) = {}
  <2>1. PICK b : b = RollBack(t, "answer")
    OBVIOUS
  <2>2. b \in Txn /\ b.doc = t.doc /\ b.sent = t.sent /\ b.todo = t.sent /\ b.wrote = {} /\ b.held = {}
        /\ b.step = "answer"
    BY <1>1, <2>1, RollBackType DEF Step
  <2>3. PICK g : g = [i \in 1 .. MaxRows |-> IF i \in t.sent THEN "applied" ELSE "none"]
    OBVIOUS
  <2>4. PICK s : s = [b EXCEPT !.got = g]
    OBVIOUS
  <2>5. /\ s \in Txn /\ s.doc = t.doc /\ s.sent = t.sent /\ s.todo = t.sent /\ s.wrote = {} /\ s.held = {}
        /\ s.step = "answer"
    <3>1. g \in [1 .. MaxRows -> Verdict]
      BY <2>3 DEF Verdict
    <3> QED BY <2>2, <2>4, <3>1 DEF Txn
  <2>6. /\ db' = db \cup t.wrote
        /\ recorded' = [r \in Row |-> IF r \in Rows(t, t.sent) THEN "applied" ELSE recorded[r]]
        /\ GoOn(w, s)
    BY <1>4, <2>1, <2>3, <2>4 DEF Commit
  <2>7. txn' = [txn EXCEPT ![w] = s] /\ txn'[w] = s /\ \A v \in Worker \ {w} : txn'[v] = txn[v]
    BY <1>1, <2>6 DEF GoOn
  <2>8. \A r \in Rows(t, t.sent) : r \in Row /\ recorded[r] = "none" /\ recorded'[r] = "applied"
    <3>1. \A i \in t.sent : <<t.doc, i>> \in Row /\ recorded[<<t.doc, i>>] = "none"
      BY <1>2, <1>4, RowFacts DEF Recorded
    <3> QED BY <2>6, <3>1 DEF Rows
  <2>9. TypeOK'
    <3>1. recorded' \in [Row -> {"none", "applied", "rejected"}] /\ db' \subseteq Row
      BY <1>1, <1>2, <2>6, <2>8 DEF TypeOK
    <3> QED BY <1>1, <2>5, <2>7, <3>1 DEF TypeOK
  <2>10. Adds(w)
    <3>1. \A r \in Row : recorded[r] # "none" => recorded'[r] # "none"
      BY <2>6, <2>8
    <3>2. t.wrote # {} => FeedFree(w)
      BY <1>1 DEF OneWriter, FeedFree
    <3> QED BY <1>2, <2>6, <2>8, <3>1, <3>2 DEF Adds
  <2>11. ShownRecorded'
    BY <1>1, <2>10 DEF ShownRecorded, Adds
  <2>12. recorded'[First(t.doc)] # "none"
    <3>1. t.sent = Whole(t.doc) => First(t.doc) \in Rows(t, t.sent)
      BY <1>2 DEF First, Rows
    <3> QED BY <1>2, <2>8, <2>10, <3>1 DEF Adds
  <2>13. FirstRecorded'
    <3> SUFFICES ASSUME NEW d \in Doc, NEW r \in RowsOf[d], recorded'[r] # "none"
                 PROVE  recorded'[First(d)] # "none"
      BY DEF FirstRecorded
    <3>1. r \in Row /\ r[1] = d /\ First(d) \in Row
      BY WholeFacts DEF RowsOf
    <3>2. CASE recorded[r] # "none"
      BY <1>1, <2>10, <3>1, <3>2 DEF FirstRecorded, Adds
    <3>3. CASE recorded[r] = "none"
      <4>1. r \in Rows(t, t.sent)
        BY <2>6, <3>1, <3>3
      <4> QED BY <2>12, <3>1, <4>1 DEF Rows
    <3> QED BY <3>2, <3>3
  <2>14. HeaderRecorded'
    <3> SUFFICES ASSUME NEW d \in Doc, Says[d].kind = "refund", First(d) \in db', Kind(First(d)) = "refund",
                        NEW r \in RowsOf[d]
                 PROVE  recorded'[r] # "none"
      BY DEF HeaderRecorded
    <3>1. r \in Row
      BY WholeFacts
    <3>2. CASE First(d) \in db
      BY <1>1, <2>10, <3>1, <3>2 DEF HeaderRecorded, Adds
    <3>3. CASE First(d) \notin db
      <4>1. First(d) \in t.wrote /\ First(d) \in Rows(t, t.sent)
        BY <1>2, <2>6, <3>3
      <4>2. d = t.doc /\ recorded[First(d)] = "none"
        BY <2>8, <4>1 DEF Rows, First
      <4>3. r \in Rows(t, t.sent)
        BY <1>2, <4>2, WholeFacts DEF Rows
      <4> QED BY <2>8, <4>3
    <3> QED BY <3>2, <3>3
  <2>15. Fits(w)'
    <3>1. FirstSent(w)'
      BY <2>5, <2>7, <2>12 DEF FirstSent
    <3>2. GotRecorded(w)'
      <4>1. \A i \in t.sent : <<t.doc, i>> \in Rows(t, t.sent)
        BY DEF Rows
      <4> QED BY <2>5, <2>7, <2>8, <4>1 DEF GotRecorded
    <3> QED BY <1>2, <2>5, <2>7, <3>1, <3>2, PlainFits
  <2> QED BY <2>5, <2>7, <2>9, <2>10, <2>11, <2>13, <2>14, <2>15, StepKeeps
<1> QED BY <1>3, <1>4

LEMMA SettleKeeps == ASSUME Inv, NEW w \in Worker, Settle(w) PROVE Inv'
<1> DEFINE t == txn[w]
<1>1. /\ TypeOK /\ ShownRecorded /\ FirstRecorded /\ HeaderRecorded /\ Fits(w)
      /\ t \in Txn /\ txn \in [Worker -> Txn] /\ t.step = "settle"
      /\ UNCHANGED <<db, shown, waits, denied, loose, faults>>
  BY InvParts, TxnType DEF Settle
<1>2. /\ t.doc \in Doc /\ t.sent \subseteq Whole(t.doc) /\ t.sent # {} /\ t.todo \subseteq t.sent /\ t.todo # {}
      /\ t.wrote = {} /\ t.held = {}
      /\ t.sent = Whole(t.doc) \/ recorded[First(t.doc)] # "none"
      /\ 1 \in t.todo \/ recorded[First(t.doc)] # "none"
      /\ t.todo \subseteq 1 .. MaxRows /\ First(t.doc) \in Row
  BY <1>1, TxnType, WholeFacts DEF Fits, Serves, FirstSent
<1>3. At(t) \in t.todo /\ (1 \in t.todo => At(t) = 1)
  BY <1>2, AtFacts
<1>4. PICK now : now = IF AtOnce THEN t.todo ELSE {At(t)}
  OBVIOUS
<1>5. now \subseteq t.todo /\ (1 \in t.todo => 1 \in now)
  BY <1>3, <1>4
<1>6. recorded' = [r \in Row |-> IF r \in Rows(t, now) /\ recorded[r] = "none"
                                 THEN "rejected" ELSE recorded[r]]
  BY <1>4 DEF Settle
<1>7. PICK g : g = [i \in 1 .. MaxRows |-> IF i \in now THEN recorded'[<<t.doc, i>>] ELSE t.got[i]]
  OBVIOUS
<1>8. PICK p : p = IF t.todo = now THEN "answer" ELSE "settle"
  OBVIOUS
<1>9. PICK s : s = [t EXCEPT !.todo = @ \ now, !.got = g, !.step = p]
  OBVIOUS
<1>10. \A i \in now : <<t.doc, i>> \in Row /\ <<t.doc, i>> \in Rows(t, now)
  BY <1>2, <1>5, RowFacts DEF Rows
<1>11. /\ recorded' \in [Row -> {"none", "applied", "rejected"}]
       /\ \A r \in Row : recorded[r] # "none" => recorded'[r] = recorded[r]
       /\ \A r \in Row : recorded'[r] = recorded[r] \/ r \in Rows(t, now)
       /\ \A i \in now : recorded'[<<t.doc, i>>] \in {"applied", "rejected"}
  BY <1>1, <1>6, <1>10 DEF TypeOK
<1>12. g \in [1 .. MaxRows -> Verdict]
  BY <1>1, <1>7, <1>11, TxnType DEF Verdict
<1>13. /\ s \in Txn /\ s.doc = t.doc /\ s.sent = t.sent /\ s.todo = t.todo \ now /\ s.got = g /\ s.step = p
       /\ s.wrote = {} /\ s.held = {}
  BY <1>1, <1>2, <1>8, <1>9, <1>12 DEF Txn, Step
<1>14. GoOn(w, s)
  <2>1. t.got \in [1 .. MaxRows -> Verdict]
    BY <1>1, TxnType
  <2> QED BY <1>4, <1>7, <1>8, <1>9, <2>1 DEF Settle
<1>15. txn' = [txn EXCEPT ![w] = s] /\ txn'[w] = s /\ \A v \in Worker \ {w} : txn'[v] = txn[v]
  BY <1>1, <1>14 DEF GoOn
<1>16. TypeOK'
  BY <1>1, <1>11, <1>13, <1>15 DEF TypeOK
<1>17. Adds(w)
  BY <1>1, <1>11 DEF Adds
<1>18. ShownRecorded'
  BY <1>1, <1>17 DEF ShownRecorded, Adds
<1>19. recorded'[First(t.doc)] # "none"
  BY <1>2, <1>5, <1>11 DEF First
<1>20. FirstRecorded'
  <2> SUFFICES ASSUME NEW d \in Doc, NEW r \in RowsOf[d], recorded'[r] # "none"
               PROVE  recorded'[First(d)] # "none"
    BY DEF FirstRecorded
  <2>1. r \in Row /\ r[1] = d /\ First(d) \in Row
    BY WholeFacts DEF RowsOf
  <2>2. CASE recorded[r] # "none"
    BY <1>1, <1>17, <2>1, <2>2 DEF FirstRecorded, Adds
  <2>3. CASE recorded[r] = "none"
    <3>1. r \in Rows(t, now)
      BY <1>11, <2>1, <2>3
    <3> QED BY <1>19, <2>1, <3>1 DEF Rows
  <2> QED BY <2>2, <2>3
<1>21. HeaderRecorded'
  BY <1>1, <1>17, WholeFacts DEF HeaderRecorded, Adds
<1>22. Fits(w)'
  <2>1. FirstSent(w)'
    BY <1>13, <1>15, <1>19 DEF FirstSent
  <2>2. GotRecorded(w)'
    <3> SUFFICES ASSUME NEW i \in t.sent, g[i] \in {"applied", "rejected"}
                 PROVE  recorded'[<<t.doc, i>>] # "none"
      BY <1>13, <1>15 DEF GotRecorded
    <3>1. i \in 1 .. MaxRows /\ <<t.doc, i>> \in Row
      BY <1>2, RowFacts
    <3>2. CASE i \in now
      BY <1>11, <3>2
    <3>3. CASE i \notin now
      <4>1. recorded[<<t.doc, i>>] # "none"
        BY <1>1, <1>7, <3>1, <3>3 DEF Fits, GotRecorded
      <4> QED BY <1>11, <3>1, <4>1
    <3> QED BY <3>2, <3>3
  <2>3. p = "settle" => t.todo \ now # {}
    BY <1>5, <1>8
  <2>4. p \in {"settle", "answer"}
    BY <1>8
  <2> QED BY <1>2, <1>13, <1>15, <2>1, <2>2, <2>3, <2>4, PlainFits
<1> QED BY <1>13, <1>15, <1>16, <1>17, <1>18, <1>20, <1>21, <1>22, StepKeeps

LEMMA PushOneKeeps == ASSUME Inv, NEW w \in Worker, PushOne(w) PROVE Inv'
<1> DEFINE t == txn[w]
           i == At(t)
           r == <<t.doc, i>>
           plan == Plan(r, db)
<1>1. /\ TypeOK /\ ShownRecorded /\ FirstRecorded /\ HeaderRecorded /\ Fits(w)
      /\ t \in Txn /\ txn \in [Worker -> Txn] /\ t.step = "singly"
      /\ UNCHANGED <<shown, waits, denied, loose, faults>>
  BY InvParts, TxnType DEF PushOne
<1>2. /\ t.doc \in Doc /\ t.sent \subseteq Whole(t.doc) /\ t.sent # {} /\ t.todo \subseteq t.sent /\ t.todo # {}
      /\ t.wrote = {} /\ t.held = {}
      /\ t.sent = Whole(t.doc) \/ recorded[First(t.doc)] # "none"
      /\ recorded[First(t.doc)] # "none" \/ Whole(t.doc) = {1}
      /\ t.todo \subseteq 1 .. MaxRows /\ First(t.doc) \in Row
  BY <1>1, TxnType, WholeFacts DEF Fits, Serves, FirstSent
<1>3. i \in t.todo /\ i \in Whole(t.doc) /\ r \in Row /\ r \in RowsOf[t.doc] /\ i \in 1 .. MaxRows
      /\ (recorded[First(t.doc)] = "none" => r = First(t.doc))
  <2>1. i \in t.todo
    BY <1>2, AtFacts
  <2> QED BY <1>2, <2>1, RowFacts DEF First
<1>4. PICK verdict : /\ Is(w, verdict) /\ verdict \in {"applied", "rejected", "later"}
                     /\ \/ recorded[r] = verdict /\ UNCHANGED <<db, recorded>>
                        \/ /\ recorded[r] = "none"
                           /\ recorded' = IF verdict = "later" THEN recorded ELSE [recorded EXCEPT ![r] = verdict]
                           /\ db' = db \/ (db' = db \cup {r} /\ FeedFree(w) /\ verdict = "applied")
  <2>1. CASE recorded[r] # "none"
    <3>1. recorded[r] \in {"none", "applied", "rejected"}
      BY <1>1, <1>3 DEF TypeOK
    <3>2. Is(w, recorded[r]) /\ UNCHANGED <<db, recorded>>
      BY <2>1 DEF PushOne
    <3> QED BY <2>1, <3>1, <3>2
  <2>2. CASE recorded[r] = "none"
    <3>1. PICK v : v = CASE plan \in {"write", "noop"} -> "applied" [] OTHER -> plan
      OBVIOUS
    <3>2. plan \in {"write", "noop", "rejected", "later"}
      BY DEF Plan
    <3>3. /\ plan = "write" => FeedFree(w)
          /\ db' = IF plan = "write" THEN db \cup {r} ELSE db
          /\ recorded' = IF v = "later" THEN recorded ELSE [recorded EXCEPT ![r] = v]
          /\ Is(w, v)
      BY <2>2, <3>1 DEF PushOne
    <3> HIDE DEF plan
    <3>4. v \in {"applied", "rejected", "later"} /\ (plan = "write" => v = "applied")
      BY <3>1, <3>2
    <3> QED BY <2>2, <3>3, <3>4
  <2> QED BY <2>1, <2>2
<1>5. PICK p : p = IF t.todo = {i} THEN "answer" ELSE "singly"
  OBVIOUS
<1>6. PICK s : s = [t EXCEPT !.todo = @ \ {i}, !.got[i] = verdict, !.step = p]
  OBVIOUS
<1>7. t.got \in [1 .. MaxRows -> Verdict] /\ verdict \in Verdict
  BY <1>1, <1>4, TxnType DEF Verdict
<1>8. /\ s \in Txn /\ s.doc = t.doc /\ s.sent = t.sent /\ s.todo = t.todo \ {i} /\ s.step = p
      /\ s.got = [t.got EXCEPT ![i] = verdict] /\ s.wrote = {} /\ s.held = {}
  BY <1>1, <1>2, <1>3, <1>5, <1>6, <1>7 DEF Txn, Step
<1>a. PICK g : g = s.got
  OBVIOUS
<1>b. g[i] = verdict /\ \A j \in 1 .. MaxRows : j # i => g[j] = t.got[j]
  BY <1>3, <1>7, <1>8, <1>a
<1>9. GoOn(w, s)
  BY <1>4, <1>5, <1>6 DEF Is
<1>10. txn' = [txn EXCEPT ![w] = s] /\ txn'[w] = s /\ \A v \in Worker \ {w} : txn'[v] = txn[v]
  BY <1>1, <1>9 DEF GoOn
<1>11. /\ recorded' \in [Row -> {"none", "applied", "rejected"}] /\ db' \subseteq Row
       /\ \A q \in Row : q # r => recorded'[q] = recorded[q]
       /\ verdict # "later" => recorded'[r] # "none"
       /\ recorded[r] # "none" => recorded'[r] # "none"
       /\ db \subseteq db' /\ \A q \in db' \ db : q = r /\ recorded[r] = "none" /\ verdict = "applied"
       /\ db' = db \/ FeedFree(w)
  BY <1>1, <1>3, <1>4 DEF TypeOK
<1>12. TypeOK'
  BY <1>1, <1>8, <1>10, <1>11 DEF TypeOK
<1>13. Adds(w)
  BY <1>3, <1>11 DEF Adds
<1>14. ShownRecorded'
  BY <1>1, <1>13 DEF ShownRecorded, Adds
<1>15. FirstRecorded'
  <2> SUFFICES ASSUME NEW d \in Doc, NEW q \in RowsOf[d], recorded'[q] # "none"
               PROVE  recorded'[First(d)] # "none"
    BY DEF FirstRecorded
  <2>1. q \in Row /\ q[1] = d /\ First(d) \in Row
    BY WholeFacts DEF RowsOf
  <2>2. CASE recorded[q] # "none"
    BY <1>1, <1>13, <2>1, <2>2 DEF FirstRecorded, Adds
  <2>3. CASE recorded[q] = "none"
    <3>1. q = r /\ d = t.doc
      BY <1>11, <2>1, <2>3
    <3> QED BY <1>3, <1>13, <2>1, <3>1 DEF Adds
  <2> QED BY <2>2, <2>3
<1>16. HeaderRecorded'
  <2> SUFFICES ASSUME NEW d \in Doc, Says[d].kind = "refund", First(d) \in db', Kind(First(d)) = "refund",
                      NEW q \in RowsOf[d]
               PROVE  recorded'[q] # "none"
    BY DEF HeaderRecorded
  <2>1. q \in Row
    BY WholeFacts
  <2>2. CASE First(d) \in db
    BY <1>1, <1>13, <2>1, <2>2 DEF HeaderRecorded, Adds
  <2>3. CASE First(d) \notin db
    <3>1. First(d) = r /\ recorded[r] = "none" /\ verdict = "applied"
      BY <1>11, <2>3
    <3>2. d = t.doc /\ Whole(d) = {1}
      BY <1>2, <3>1 DEF First
    <3>3. q = r
      BY <3>1, <3>2, WholeFacts DEF First
    <3> QED BY <1>11, <3>1, <3>3
  <2> QED BY <2>2, <2>3
<1>17. Fits(w)'
  <2>1. FirstSent(w)'
    BY <1>2, <1>8, <1>10, <1>13, <1>5 DEF FirstSent, Adds
  <2>2. GotRecorded(w)'
    <3> SUFFICES ASSUME NEW j \in t.sent, g[j] \in {"applied", "rejected"}
                 PROVE  recorded'[<<t.doc, j>>] # "none"
      <4>1. txn'[w].sent = t.sent /\ txn'[w].got = g /\ txn'[w].doc = t.doc
        BY <1>8, <1>10, <1>a
      <4> QED BY <4>1 DEF GotRecorded
    <3>1. j \in 1 .. MaxRows /\ <<t.doc, j>> \in Row
      BY <1>2, RowFacts
    <3>2. CASE j = i
      BY <1>11, <1>b, <3>2
    <3>3. CASE j # i
      <4>1. recorded[<<t.doc, j>>] # "none"
        BY <1>1, <1>b, <3>1, <3>3 DEF Fits, GotRecorded
      <4> QED BY <1>13, <3>1, <4>1 DEF Adds
    <3> QED BY <3>2, <3>3
  <2>3. p \in {"singly", "answer"} /\ (p = "singly" => t.todo \ {i} # {})
    BY <1>3, <1>5
  <2> QED BY <1>2, <1>8, <1>10, <2>1, <2>2, <2>3, PlainFits
<1> QED BY <1>8, <1>10, <1>12, <1>13, <1>14, <1>15, <1>16, <1>17, StepKeeps

(* The till reads answers, all of them or those before it was killed. *)
LEMMA ReadKeeps ==
    ASSUME Inv, NEW w \in Worker, txn[w].step = "answer", GoOn(w, Idle), UNCHANGED <<db, recorded, denied, loose>>,
           NEW is \in SUBSET txn[w].sent, shown' = Read(txn[w], is) \/ shown' = shown,
           waits' \in [Doc -> Worker \cup {None}], faults' \in 0 .. MaxFault
    PROVE  Inv'
<1> DEFINE t == txn[w]
<1>1. /\ TypeOK /\ ShownRecorded /\ FirstRecorded /\ HeaderRecorded /\ Fits(w)
      /\ txn \in [Worker -> Txn] /\ t.doc \in Doc /\ t.sent \subseteq Whole(t.doc)
  BY InvParts, TxnType DEF Fits, Serves
<1>2. txn' = [txn EXCEPT ![w] = Idle] /\ txn'[w] = Idle /\ \A v \in Worker \ {w} : txn'[v] = txn[v]
  BY <1>1 DEF GoOn
<1>3. ASSUME NEW q \in Row
      PROVE  shown'[q] \in {"pending", "applied", "rejected"} /\ (shown'[q] # "pending" => recorded[q] # "none")
  <2>1. shown[q] \in {"pending", "applied", "rejected"} /\ (shown[q] # "pending" => recorded[q] # "none")
    BY <1>1 DEF TypeOK, ShownRecorded
  <2>2. CASE shown' = shown
    BY <2>1, <2>2
  <2>3. CASE shown' = Read(t, is)
    <3>1. CASE q \in Rows(t, is) /\ t.got[q[2]] \in {"applied", "rejected"}
      <4>1. PICK j \in is : q = <<t.doc, j>>
        BY <3>1 DEF Rows
      <4>2. recorded[q] # "none"
        BY <1>1, <3>1, <4>1 DEF Fits, GotRecorded
      <4> QED BY <2>3, <3>1, <4>2 DEF Read
    <3>2. CASE ~(q \in Rows(t, is) /\ t.got[q[2]] \in {"applied", "rejected"})
      BY <2>1, <2>3, <3>2 DEF Read
    <3> QED BY <3>1, <3>2
  <2> QED BY <2>2, <2>3
<1>4. shown' \in [Row -> {"pending", "applied", "rejected"}]
  <2>1. shown' = [q \in Row |-> shown'[q]]
    BY <1>1 DEF Read, TypeOK
  <2> QED BY <1>3, <2>1
<1>5. TypeOK'
  BY <1>1, <1>2, <1>4, IdleFacts DEF TypeOK
<1>6. ShownRecorded'
  BY <1>3 DEF ShownRecorded
<1>7. FirstRecorded' /\ HeaderRecorded'
  BY <1>1 DEF FirstRecorded, HeaderRecorded
<1>8. Adds(w) /\ Fits(w)'
  BY <1>2, IdleFits DEF Adds
<1> QED BY <1>2, <1>5, <1>6, <1>7, <1>8, IdleFacts, StepKeeps

LEMMA AnswerKeeps == ASSUME Inv, NEW w \in Worker, Answer(w) PROVE Inv'
<1>1. TypeOK
  BY InvParts
<1>2. waits' \in [Doc -> Worker \cup {None}] /\ faults' \in 0 .. MaxFault
  BY <1>1 DEF TypeOK, Answer
<1> QED BY <1>2, ReadKeeps DEF Answer

LEMMA KillAppKeeps == ASSUME Inv, NEW w \in Worker, KillApp(w) PROVE Inv'
<1>1. TypeOK
  BY InvParts
<1>2. faults' \in 0 .. MaxFault
  BY <1>1, BoundAssumption DEF TypeOK, KillApp
<1>3. waits' \in [Doc -> Worker \cup {None}]
  BY <1>1 DEF TypeOK, KillApp
<1>4. PICK is \in SUBSET txn[w].sent : shown' = Read(txn[w], is)
  <2>1. PICK n \in txn[w].sent : shown' = Read(txn[w], {i \in txn[w].sent : i < n})
    BY DEF KillApp
  <2> QED BY <2>1
<1>5. txn[w].step = "answer" /\ GoOn(w, Idle) /\ UNCHANGED <<db, recorded, denied, loose>>
  BY DEF KillApp
<1> QED BY <1>2, <1>3, <1>4, <1>5, ReadKeeps

LEMMA FailKeeps == ASSUME Inv, NEW w \in Worker, Fail(w) PROVE Inv'
<1>1. TypeOK
  BY InvParts
<1>2. waits' \in [Doc -> Worker \cup {None}] /\ faults' \in 0 .. MaxFault
  BY <1>1, BoundAssumption DEF TypeOK, Fail
<1>3. txn'[w] = Idle
  BY <1>1 DEF TypeOK, Fail, GoOn
<1>4. Fits(w)'
  BY <1>3, IdleFits
<1> QED BY <1>1, <1>2, <1>4, IdleFacts, OwnStep DEF Fail, TypeOK

(* What only the till or the shop changes. *)
LEMMA OutsideKeeps ==
    ASSUME Inv, UNCHANGED <<db, recorded, txn, shown>>, waits' \in [Doc -> Worker \cup {None}],
           denied' \subseteq Deniable, loose' \subseteq Edited, faults' \in 0 .. MaxFault
    PROVE  Inv'
<1>1. TypeOK'
  BY DEF Inv, Basic, TypeOK
<1>2. ShownRecorded' /\ FirstRecorded' /\ HeaderRecorded' /\ OneWriter' /\ HeldOnce'
  BY InvParts DEF ShownRecorded, FirstRecorded, HeaderRecorded, OneWriter, HeldOnce
<1>3. ASSUME NEW w \in Worker PROVE Fits(w)'
  <2>1. Fits(w) /\ txn'[w] = txn[w]
    BY InvParts
  <2>2. Serves(w)' /\ FirstSent(w)' /\ GotRecorded(w)'
    BY <2>1 DEF Fits, Serves, FirstSent, GotRecorded
  <2>3. NoHeader(w)' /\ NewRows(w)' /\ Fresh(w)'
    BY <2>1 DEF Fits, NoHeader, NewRows, Fresh
  <2>4. Prepared(w)'
    BY <2>1 DEF Fits, Prepared, Writes, At
  <2> QED BY <2>2, <2>3, <2>4 DEF Fits
<1> QED BY <1>1, <1>2, <1>3 DEF Inv, Basic, Recording, Headed, Exclusive, Ready, Fits

LEMMA NoAnswerKeeps == ASSUME Inv, NEW d \in Doc, NoAnswer(d) PROVE Inv'
<1>1. TypeOK
  BY InvParts
<1>2. waits' \in [Doc -> Worker \cup {None}] /\ faults' \in 0 .. MaxFault
  BY <1>1, BoundAssumption DEF TypeOK, NoAnswer
<1> QED BY <1>1, <1>2, OutsideKeeps DEF NoAnswer, TypeOK

LEMMA InvInit == Init => Inv
<1> SUFFICES ASSUME Init PROVE Inv
  OBVIOUS
<1>1. TypeOK
  BY IdleFacts, BoundAssumption DEF Init, TypeOK
<1>2. \A w \in Worker : txn[w] = Idle
  BY DEF Init
<1>3. ShownRecorded /\ FirstRecorded /\ HeaderRecorded /\ OneWriter /\ HeldOnce
  <2>1. \A d \in Doc : \A r \in RowsOf[d] : r \in Row
    BY WholeFacts
  <2> QED BY <1>2, <2>1, IdleFacts DEF Init, ShownRecorded, FirstRecorded, HeaderRecorded, OneWriter, HeldOnce
<1>4. \A w \in Worker : Fits(w)
  BY <1>2, IdleFacts DEF Fits, Serves, FirstSent, GotRecorded, NoHeader, NewRows, Prepared, Fresh
<1> QED BY <1>1, <1>3, <1>4, InvParts

LEMMA InvNext == Inv /\ [Next]_vars => Inv'
<1> SUFFICES ASSUME Inv, [Next]_vars PROVE Inv'
  OBVIOUS
<1>0. TypeOK
  BY InvParts
<1>1. CASE UNCHANGED vars
  BY <1>0, <1>1, OutsideKeeps DEF vars, TypeOK
<1>2. ASSUME NEW w \in Worker, Work(w) PROVE Inv'
  BY <1>2, PushKeeps, LookKeeps, PlanRowKeeps, WriteRowKeeps, CommitKeeps, SettleKeeps, PushOneKeeps,
     AnswerKeeps DEF Work
<1>3. CASE Disturb
  <2>1. ASSUME NEW k \in Deniable, ChangePermission(k) PROVE Inv'
    BY <1>0, <2>1, OutsideKeeps DEF ChangePermission, TypeOK
  <2>2. ASSUME NEW d \in Edited, EditProduct(d) PROVE Inv'
    BY <1>0, <2>2, OutsideKeeps DEF EditProduct, TypeOK
  <2> QED BY <1>3, <2>1, <2>2, FailKeeps, KillAppKeeps, NoAnswerKeeps DEF Disturb
<1> QED BY <1>1, <1>2, <1>3 DEF Next

-----------------------------------------------------------------------------
(* Theorems *)

(* The type invariant, for any documents, threads, permissions and faults. *)
THEOREM DeviceTransactionTypeOK == Spec => []TypeOK
<1>1. Inv => TypeOK
  BY InvParts
<1> QED BY <1>1, InvInit, InvNext, PTL DEF Spec

(* Who has begun holds every header its next row reads. *)
LEMMA BegunHoldsAll ==
    ASSUME Inv, NEW w \in Worker, txn[w].wrote # {} \/ txn[w].held # {},
           txn[w].step = "plan", txn[w].todo # {}
    PROVE  Headers(Reads(<<txn[w].doc, At(txn[w])>>)) \subseteq txn[w].held
<1> DEFINE t == txn[w]
           s == Says[t.doc]
<1>1. TypeOK /\ Fits(w)
  BY InvParts
<1>2. /\ t.doc \in Doc /\ t.sent \subseteq Whole(t.doc) /\ t.todo \subseteq t.sent /\ db \subseteq Row
  BY <1>1 DEF Fits, Serves, TypeOK
<1>3. At(t) \in Whole(t.doc)
  BY <1>1, <1>2, AtFacts, TxnType
<1>4. /\ s.kind = "sale" => t.doc \in t.held \/ First(t.doc) \in t.wrote
      /\ s.kind = "refund" => s.of \in t.held /\ First(t.doc) \in t.wrote
      /\ s.kind = "void" => s.of \in t.held
  BY <1>1 DEF Fits, Prepared, Writes
<1>5. First(t.doc) \in t.wrote => ~Exists(db, t.doc)
  BY <1>1, <1>2, HeaderFacts DEF Fits, NewRows
<1> QED BY <1>2, <1>3, <1>4, <1>5, ReadsFacts, SaysFacts DEF Headers

(* NoDeadlock: of any transactions one waits for none of the others, whatever documents *)
(* they serve and in whatever order the locks of headers and of the feed were taken.    *)
THEOREM TransactionsNeverCircle == Spec => []NoDeadlock
<1>1. Inv => NoDeadlock
  <2> SUFFICES ASSUME Inv, NEW ws \in (SUBSET Worker) \ {{}}
               PROVE  \E w \in ws : \A v \in ws : ~WaitsFor(w, v)
    BY DEF NoDeadlock
  <2>1. OneWriter /\ HeldOnce /\ \A w \in Worker : Fits(w)
    BY InvParts
  <2>2. ASSUME NEW w \in ws, NEW v \in ws, txn[w].step = "plan", txn[w].wrote # {} \/ txn[w].held # {}
        PROVE  ~WaitsFor(w, v)
    BY <2>1, <2>2, BegunHoldsAll DEF WaitsFor, HeldOnce
  <2>3. \A w \in ws : txn[w].wrote # {} \/ txn[w].held # {} => txn[w].step \in {"plan", "write"}
    BY <2>1 DEF Fits, Serves
  <2>4. CASE \E w \in ws : txn[w].wrote # {}
    <3>1. PICK w \in ws : txn[w].wrote # {}
      BY <2>4
    <3>2. CASE txn[w].step = "plan"
      BY <2>2, <3>1, <3>2
    <3>3. CASE txn[w].step = "write"
      BY <2>1, <3>1, <3>3 DEF WaitsFor, OneWriter
    <3> QED BY <2>3, <3>1, <3>2, <3>3
  <2>5. CASE \A w \in ws : txn[w].wrote = {}
    <3>1. CASE \E w \in ws : txn[w].step = "write"
      BY <2>5, <3>1 DEF WaitsFor
    <3>2. CASE (\A w \in ws : txn[w].step # "write") /\ \E w \in ws : txn[w].held # {}
      BY <2>2, <2>3, <3>2
    <3>3. CASE (\A w \in ws : txn[w].step # "write") /\ \A w \in ws : txn[w].held = {}
      BY <3>3 DEF WaitsFor
    <3> QED BY <3>1, <3>2, <3>3
  <2> QED BY <2>4, <2>5
<1> QED BY <1>1, InvInit, InvNext, PTL DEF Spec

-----------------------------------------------------------------------------
(* Sums over finite sets; induction is by the smallest counterexample *)

SumOf(f, S) == MapThenSumSet(LAMBDA x : f[x], S)

\* Induction over the naturals.
LEMMA Counting ==
    ASSUME NEW T, 0 \in T, \A n \in Nat : n \in T => n + 1 \in T
    PROVE  Nat \subseteq T
<1> SUFFICES ASSUME Nat \ T # {} PROVE FALSE
  OBVIOUS
<1>1. IsWellFoundedOn(OpToRel(<, Nat), Nat)
  BY NatLessThanWellFounded
<1>2. PICK x \in Nat \ T : \A y \in Nat \ T : ~(<<y, x>> \in OpToRel(<, Nat))
  BY <1>1, WFMin
<1>3. \A y \in Nat \ T : ~(y < x)
  BY <1>2 DEF OpToRel
<1>4. x # 0 /\ x - 1 \in Nat
  OBVIOUS
<1>. QED BY <1>3, <1>4

\* A finite set has one element more than it has without one of its own.
LEMMA OneLess ==
    ASSUME NEW A, IsFiniteSet(A), NEW x \in A
    PROVE  /\ IsFiniteSet(A \ {x})
           /\ Cardinality(A) \in Nat /\ Cardinality(A \ {x}) \in Nat
           /\ Cardinality(A) = Cardinality(A \ {x}) + 1
<1>1. IsFiniteSet(A \ {x}) /\ Cardinality(A \ {x}) = Cardinality(A) - 1
  BY FS_RemoveElement
<1>2. Cardinality(A) \in Nat /\ Cardinality(A \ {x}) \in Nat
  BY <1>1, FS_CardinalityType
<1>. QED BY <1>1, <1>2

(* What holds of a set whenever it holds of all that lack one of its elements, holds *)
(* of all subsets of a finite set.                                                   *)
LEMMA OneByOne ==
    ASSUME NEW S, IsFiniteSet(S), NEW T,
           \A A \in SUBSET S : (\A x \in A : A \ {x} \in T) => A \in T
    PROVE  SUBSET S \subseteq T
<1> DEFINE Sizes == {n \in Nat : \A A \in SUBSET S : Cardinality(A) = n => A \in T}
<1>1. \A A \in SUBSET S : IsFiniteSet(A) /\ Cardinality(A) \in Nat
  BY FS_Subset, FS_CardinalityType
<1>2. 0 \in Sizes
  <2>1. \A A \in SUBSET S : Cardinality(A) = 0 => A = {}
    BY <1>1, FS_EmptySet
  <2>. QED BY <2>1
<1>3. ASSUME NEW n \in Nat, n \in Sizes
      PROVE  n + 1 \in Sizes
  <2> SUFFICES ASSUME NEW A \in SUBSET S, Cardinality(A) = n + 1 PROVE A \in T
    OBVIOUS
  <2>1. \A x \in A : A \ {x} \in SUBSET S /\ Cardinality(A \ {x}) = n
    <3> SUFFICES ASSUME NEW x \in A PROVE Cardinality(A \ {x}) = n
      OBVIOUS
    <3>1. Cardinality(A) = Cardinality(A \ {x}) + 1 /\ Cardinality(A \ {x}) \in Nat
      BY <1>1, OneLess
    <3>. QED BY <3>1
  <2>. QED BY <1>3, <2>1
<1>4. Nat \subseteq Sizes
  <2> HIDE DEF Sizes
  <2>. QED BY <1>2, <1>3, Counting
<1>. QED BY <1>1, <1>4

Chosen(s) == CHOOSE x \in s : TRUE

(* What MapThenSumSet computes, for all the subsets of S at once. *)
IsTally(g, f, S) ==
    g = [s \in SUBSET S |-> IF s = {} THEN 0 ELSE f[Chosen(s)] + g[s \ {Chosen(s)}]]

\* What is chosen from a set is in it.
LEMMA ChosenIn == ASSUME NEW s, s # {} PROVE Chosen(s) \in s
  BY DEF Chosen

\* A finite set has a tally.
LEMMA TallyExists ==
    ASSUME NEW S, IsFiniteSet(S), NEW f
    PROVE  \E g : IsTally(g, f, S)
<1> DEFINE Small(n) == {s \in SUBSET S : Cardinality(s) <= n}
           Next1(g, s) == IF s = {} THEN 0 ELSE f[Chosen(s)] + g[s \ {Chosen(s)}]
           Sizes == {n \in Nat : \E g : g = [s \in Small(n) |-> Next1(g, s)]}
<1>1. \A A \in SUBSET S : IsFiniteSet(A) /\ Cardinality(A) \in Nat
  BY FS_Subset, FS_CardinalityType
<1>2. \A s \in SUBSET S : s # {} =>
         /\ s \ {Chosen(s)} \in SUBSET S
         /\ Cardinality(s \ {Chosen(s)}) \in Nat
         /\ Cardinality(s) = Cardinality(s \ {Chosen(s)}) + 1
  BY <1>1, ChosenIn, OneLess
<1>3. 0 \in Sizes
  <2> DEFINE g == [s \in Small(0) |-> 0]
  <2>1. ASSUME NEW s \in SUBSET S, Cardinality(s) <= 0, s # {}
        PROVE  FALSE
    <3>1. PICK c \in Nat : Cardinality(s) = c + 1
      BY <1>2, <2>1
    <3>. QED BY <2>1, <3>1
  <2>2. \A s \in Small(0) : s = {}
    BY <2>1
  <2>3. g = [s \in Small(0) |-> Next1(g, s)]
    BY <2>2
  <2> HIDE DEF g
  <2>. QED BY <2>3
<1>4. ASSUME NEW n \in Nat, n \in Sizes
      PROVE  n + 1 \in Sizes
  <2>1. PICK g : g = [s \in Small(n) |-> Next1(g, s)]
    BY <1>4
  <2> DEFINE h == [s \in Small(n + 1) |-> Next1(g, s)]
  <2>2. \A s \in Small(n) : g[s] = Next1(g, s)
    BY <2>1
  <2>3. Small(n) \subseteq Small(n + 1)
    BY <1>1
  <2>4. \A s \in Small(n) : h[s] = g[s]
    BY <2>2, <2>3
  <2>5. \A s \in Small(n + 1) : s # {} => s \ {Chosen(s)} \in Small(n)
    BY <1>1, <1>2
  <2>6. \A s \in Small(n + 1) : Next1(g, s) = Next1(h, s)
    <3> HIDE DEF h, Small
    <3>. QED BY <2>4, <2>5
  <2>7. h = [s \in Small(n + 1) |-> Next1(h, s)]
    <3>1. h = [s \in Small(n + 1) |-> Next1(g, s)]
      OBVIOUS
    <3> HIDE DEF h, Next1
    <3>. QED BY <2>6, <3>1
  <2>8. \E q : q = [s \in Small(n + 1) |-> Next1(q, s)]
    <3> HIDE DEF h, Small, Next1
    <3>. QED BY <2>7
  <2> HIDE DEF Small, Next1
  <2>. QED BY <2>8
<1>5. Nat \subseteq Sizes
  <2> HIDE DEF Sizes
  <2>. QED BY <1>3, <1>4, Counting
<1>6. Small(Cardinality(S)) = SUBSET S
  BY <1>1, FS_Subset
<1>7. Cardinality(S) \in Sizes
  BY <1>1, <1>5
<1>. QED BY <1>6, <1>7 DEF IsTally

\* ... and its sum is what a tally says of the whole set.
LEMMA TallyIsSum ==
    ASSUME NEW S, IsFiniteSet(S), NEW f
    PROVE  \E g : IsTally(g, f, S) /\ SumOf(f, S) = g[S]
<1> DEFINE h == CHOOSE g : IsTally(g, f, S)
<1>1. IsTally(h, f, S)
  BY TallyExists
<1>2. SumOf(f, S) = h[S]
  BY DEF SumOf, MapThenSumSet, MapThenFoldSet, IsTally, Chosen
<1>. QED BY <1>1, <1>2

(* Two of them agree where both are defined. *)
LEMMA TalliesAgree ==
    ASSUME NEW S, IsFiniteSet(S), NEW B \in SUBSET S, NEW f, NEW g, NEW h,
           IsTally(g, f, S), IsTally(h, f, B)
    PROVE  g[B] = h[B]
<1> DEFINE T == {A \in SUBSET B : g[A] = h[A]}
<1>1. /\ \A s \in SUBSET S : g[s] = IF s = {} THEN 0 ELSE f[Chosen(s)] + g[s \ {Chosen(s)}]
      /\ \A s \in SUBSET B : h[s] = IF s = {} THEN 0 ELSE f[Chosen(s)] + h[s \ {Chosen(s)}]
  BY DEF IsTally
<1>2. ASSUME NEW A \in SUBSET B, \A x \in A : A \ {x} \in T
      PROVE  A \in T
  BY <1>1, <1>2, ChosenIn
<1>3. IsFiniteSet(B)
  BY FS_Subset
<1>4. SUBSET B \subseteq T
  <2> HIDE DEF T
  <2>. QED BY <1>2, <1>3, OneByOne
<1>. QED BY <1>4

\* A sum is what is chosen and the sum of the rest.
LEMMA SumStep ==
    ASSUME NEW S, IsFiniteSet(S), NEW f
    PROVE  SumOf(f, S) = IF S = {} THEN 0 ELSE f[Chosen(S)] + SumOf(f, S \ {Chosen(S)})
<1>1. PICK g : IsTally(g, f, S) /\ SumOf(f, S) = g[S]
  BY TallyIsSum
<1>2. g[S] = IF S = {} THEN 0 ELSE f[Chosen(S)] + g[S \ {Chosen(S)}]
  BY <1>1 DEF IsTally
<1>3. S \ {Chosen(S)} \in SUBSET S /\ IsFiniteSet(S \ {Chosen(S)})
  BY FS_Subset
<1>4. PICK h : IsTally(h, f, S \ {Chosen(S)}) /\ SumOf(f, S \ {Chosen(S)}) = h[S \ {Chosen(S)}]
  BY <1>3, TallyIsSum
<1>5. g[S \ {Chosen(S)}] = h[S \ {Chosen(S)}]
  <2> DEFINE B == S \ {Chosen(S)}
  <2>1. B \in SUBSET S /\ IsTally(h, f, B)
    BY <1>3, <1>4
  <2> HIDE DEF B
  <2>2. g[B] = h[B]
    BY <1>1, <2>1, TalliesAgree
  <2>. QED BY <2>2 DEF B
<1>. QED BY <1>1, <1>2, <1>4, <1>5

\* The sum over nothing.
LEMMA SumOfNone == ASSUME NEW f PROVE SumOf(f, {}) = 0
  BY FS_EmptySet, SumStep

(* A sum is an integer, and any element can be taken out of it. *)
LEMMA SumTakeOut ==
    ASSUME NEW S, IsFiniteSet(S), NEW f, \A x \in S : f[x] \in Int
    PROVE  /\ SumOf(f, S) \in Int
           /\ \A x \in S : SumOf(f, S) = f[x] + SumOf(f, S \ {x})
<1> DEFINE Good(A) == SumOf(f, A) \in Int /\ \A x \in A : SumOf(f, A) = f[x] + SumOf(f, A \ {x})
           T == {A \in SUBSET S : \A B \in SUBSET A : Good(B)}
<1>1. ASSUME NEW A \in SUBSET S, \A x \in A : A \ {x} \in T
      PROVE  A \in T
  <2>1. \A x \in A, B \in SUBSET A : x \notin B => Good(B)
    <3> SUFFICES ASSUME NEW x \in A, NEW B \in SUBSET A, x \notin B PROVE Good(B)
      OBVIOUS
    <3> HIDE DEF Good
    <3>1. B \in SUBSET (A \ {x})
      OBVIOUS
    <3>. QED BY <1>1, <3>1
  <2>2. Good(A)
    <3>0. CASE A = {}
      BY <3>0, SumOfNone
    <3> SUFFICES ASSUME A # {} PROVE Good(A)
      BY <3>0
    <3> HIDE DEF Good
    <3>1. PICK p : p = Chosen(A)
      OBVIOUS
    <3>2. p \in A /\ SumOf(f, A) = f[p] + SumOf(f, A \ {p})
      BY <3>1, FS_Subset, ChosenIn, SumStep
    <3>3. SumOf(f, A) \in Int
      BY <2>1, <3>2 DEF Good
    <3>4. ASSUME NEW x \in A, x # p
          PROVE  SumOf(f, A) = f[x] + SumOf(f, A \ {x})
      <4>1. PICK C : C = (A \ {p}) \ {x}
        OBVIOUS
      <4>2. (A \ {x}) \ {p} = C /\ SumOf(f, C) \in Int
        BY <2>1, <4>1, <3>2 DEF Good
      <4>3. SumOf(f, A \ {p}) = f[x] + SumOf(f, C)
        BY <2>1, <3>2, <3>4, <4>1 DEF Good
      <4>4. SumOf(f, A \ {x}) = f[p] + SumOf(f, C)
        BY <2>1, <3>2, <3>4, <4>2 DEF Good
      <4>5. f[x] \in Int /\ f[p] \in Int
        BY <3>2
      <4>. QED BY <3>2, <4>2, <4>3, <4>4, <4>5
    <3>. QED BY <3>2, <3>3, <3>4 DEF Good
  <2>3. \A B \in SUBSET A : Good(B)
    <3> HIDE DEF Good
    <3>1. \A B \in SUBSET A : B = A \/ \E x \in A : x \notin B
      OBVIOUS
    <3>. QED BY <2>1, <2>2, <3>1
  <2> HIDE DEF Good
  <2>. QED BY <2>3
<1>2. SUBSET S \subseteq T
  <2> HIDE DEF T
  <2>. QED BY <1>1, OneByOne
<1>3. Good(S)
  <2> HIDE DEF Good
  <2>. QED BY <1>2
<1>. QED BY <1>3

(* Any tally gives the sum. *)
LEMMA AnyTally ==
    ASSUME NEW S, IsFiniteSet(S), NEW f, NEW g, IsTally(g, f, S)
    PROVE  g[S] = SumOf(f, S)
<1>1. PICK h : IsTally(h, f, S) /\ SumOf(f, S) = h[S]
  BY TallyIsSum
<1>. QED BY <1>1, TalliesAgree

\* The sum over one element.
LEMMA SumOfOne ==
    ASSUME NEW f, NEW x, f[x] \in Int
    PROVE  SumOf(f, {x}) = f[x]
<1>1. IsFiniteSet({x}) /\ {x} \ {x} = {}
  BY FS_Singleton
<1>2. SumOf(f, {x}) = f[x] + SumOf(f, {})
  BY <1>1, SumTakeOut
<1>. QED BY <1>2, SumOfNone

\* Sums of two sets that have nothing in common.
LEMMA SumOfBoth ==
    ASSUME NEW f, NEW A, NEW B, IsFiniteSet(A), IsFiniteSet(B), A \cap B = {},
           \A x \in A \cup B : f[x] \in Int
    PROVE  SumOf(f, A \cup B) = SumOf(f, A) + SumOf(f, B)
<1> DEFINE T == {C \in SUBSET B : SumOf(f, A \cup C) = SumOf(f, A) + SumOf(f, C)}
<1>1. ASSUME NEW C \in SUBSET B
      PROVE  /\ IsFiniteSet(C) /\ SumOf(f, C) \in Int
             /\ \A x \in C : SumOf(f, C) = f[x] + SumOf(f, C \ {x})
  BY FS_Subset, SumTakeOut
<1>2. SumOf(f, A) \in Int
  BY SumTakeOut
<1>3. ASSUME NEW C \in SUBSET B, \A x \in C : C \ {x} \in T
      PROVE  C \in T
  <2>1. CASE C = {}
    <3>1. SumOf(f, A \cup {}) = SumOf(f, A) /\ SumOf(f, {}) = 0
      <4>1. A \cup {} = A
        OBVIOUS
      <4>. QED BY <4>1, SumOfNone
    <3>2. SumOf(f, A \cup {}) = SumOf(f, A) + SumOf(f, {})
      BY <1>2, <3>1
    <3>. QED BY <2>1, <3>2
  <2>2. CASE C # {}
    <3>1. PICK x : x \in C
      BY <2>2
    <3>2. SumOf(f, C) = f[x] + SumOf(f, C \ {x}) /\ SumOf(f, C \ {x}) \in Int /\ f[x] \in Int
      BY <1>1, <3>1
    <3>3. SumOf(f, A \cup (C \ {x})) = SumOf(f, A) + SumOf(f, C \ {x})
      BY <1>3, <3>1
    <3>4. SumOf(f, A \cup C) = f[x] + SumOf(f, A \cup (C \ {x}))
      <4>1. PICK D : D = A \cup C
        OBVIOUS
      <4>2. IsFiniteSet(D) /\ x \in D /\ D \ {x} = A \cup (C \ {x}) /\ \A y \in D : f[y] \in Int
        BY <1>1, <3>1, <4>1, FS_Union
      <4>3. SumOf(f, D) = f[x] + SumOf(f, D \ {x})
        BY <4>2, SumTakeOut
      <4>. QED BY <4>1, <4>2, <4>3
    <3>. QED BY <1>2, <3>2, <3>3, <3>4
  <2>. QED BY <2>1, <2>2
<1>4. SUBSET B \subseteq T
  <2> HIDE DEF T
  <2>. QED BY <1>3, OneByOne
<1>. QED BY <1>4

Gathered(part, E) == UNION {part[e] : e \in E}

\* A sum may be taken group by group.
LEMMA SumByGroup ==
    ASSUME NEW E, IsFiniteSet(E), NEW f, NEW g, NEW part,
           \A e \in E : /\ IsFiniteSet(part[e]) /\ (\A x \in part[e] : g[x] \in Int)
                        /\ f[e] = SumOf(g, part[e]),
           \A d, e \in E : d # e => part[d] \cap part[e] = {}
    PROVE  SumOf(g, Gathered(part, E)) = SumOf(f, E)
<1> DEFINE U(A) == UNION {part[e] : e \in A}
           T == {A \in SUBSET E : IsFiniteSet(U(A)) /\ SumOf(g, U(A)) = SumOf(f, A)}
<1>1. \A e \in E : f[e] \in Int
  BY SumTakeOut
<1>2. ASSUME NEW A \in SUBSET E, \A e \in A : A \ {e} \in T
      PROVE  A \in T
  <2>1. CASE A = {}
    <3>1. U(A) = {}
      BY <2>1
    <3>. QED BY <2>1, <3>1, FS_EmptySet, SumOfNone
  <2>2. CASE A # {}
    <3>1. PICK e : e \in A
      BY <2>2
    <3>2. PICK B : B = U(A \ {e})
      OBVIOUS
    <3>3. IsFiniteSet(B) /\ SumOf(g, B) = SumOf(f, A \ {e})
      BY <1>2, <3>1, <3>2
    <3>4. U(A) = part[e] \cup B /\ part[e] \cap B = {} /\ \A x \in part[e] \cup B : g[x] \in Int
      BY <3>1, <3>2
    <3>5. IsFiniteSet(part[e]) /\ f[e] = SumOf(g, part[e])
      BY <3>1
    <3>6. SumOf(g, part[e] \cup B) = f[e] + SumOf(f, A \ {e})
      BY <3>3, <3>4, <3>5, SumOfBoth
    <3>7. SumOf(f, A) = f[e] + SumOf(f, A \ {e})
      BY <1>1, <3>1, FS_Subset, SumTakeOut
    <3>8. IsFiniteSet(part[e] \cup B)
      BY <3>3, <3>5, FS_Union
    <3> HIDE DEF U
    <3>. QED BY <3>4, <3>6, <3>7, <3>8
  <2>. QED BY <2>1, <2>2
<1>3. SUBSET E \subseteq T
  <2> HIDE DEF T
  <2>. QED BY <1>2, OneByOne
<1>. QED BY <1>3 DEF Gathered

-----------------------------------------------------------------------------
(* What the rows of a document come to *)

\* The amount on the row of each kind.
Amt(d) ==
    LET s == Says[d] IN
    [sale |-> s.qty, line |-> s.qty, out |-> s.qty, pay |-> s.qty - s.owed, charge |-> s.owed,
     refund |-> s.qty, rline |-> s.qty, rback |-> s.qty, rpay |-> s.qty - s.owed, rdebt |-> s.owed,
     void |-> 0, voidback |-> Says[s.of].qty, voiddebt |-> s.owed]

\* One row of each of the kinds K at most, with the amount a says, and one if that is not 0;
\* only the header of a void has no amount.
Lists(a, K, s) ==
    /\ s \in Seq([kind : K, n : Int])
    /\ \A i, j \in 1 .. Len(s) : s[i].kind = s[j].kind => i = j
    /\ \A i \in 1 .. Len(s) : s[i].n = a[s[i].kind] /\ (s[i].n = 0 => s[i].kind = "void")
    /\ \A k \in K : a[k] # 0 => \E i \in 1 .. Len(s) : s[i].kind = k

\* A list of the next kind.
LEMMA ListBegun ==
    ASSUME NEW a, NEW k, a[k] \in Int
    PROVE  Lists(a, {k}, R(k, a[k]))
<1>1. CASE a[k] = 0
  BY <1>1, EmptySeq DEF R, Lists
<1>2. CASE a[k] # 0
  <2>1. PICK r : r = [kind |-> k, n |-> a[k]]
    OBVIOUS
  <2>2. r \in [kind : {k}, n : Int] /\ R(k, a[k]) = <<r>> /\ r.kind = k /\ r.n = a[k]
    BY <1>2, <2>1 DEF R
  <2>3. <<r>> \in Seq([kind : {k}, n : Int]) /\ Len(<<r>>) = 1 /\ <<r>>[1] = r
    BY <2>2
  <2> HIDE DEF R
  <2>. QED BY <1>2, <2>2, <2>3 DEF Lists
<1>. QED BY <1>1, <1>2

LEMMA ListJoined ==
    ASSUME NEW a, NEW K, NEW s, Lists(a, K, s), NEW k, k \notin K, a[k] \in Int
    PROVE  Lists(a, K \cup {k}, s \o R(k, a[k]))
<1> DEFINE T == [kind : K \cup {k}, n : Int]
           r == R(k, a[k])
           L == K \cup {k}
<1>1. Lists(a, {k}, r)
  BY ListBegun
<1>2. /\ s \in Seq([kind : K, n : Int]) /\ r \in Seq([kind : {k}, n : Int])
      /\ Len(s) \in Nat /\ Len(r) \in Nat
  BY <1>1, LenProperties DEF Lists
<1>3. s \in Seq(T) /\ r \in Seq(T)
  BY <1>2, SeqMonotonic
<1>a. (\A i \in 1 .. Len(s) : s[i].kind \in K) /\ \A i \in 1 .. Len(r) : r[i].kind = k
  <2>1. \A i \in 1 .. Len(s) : s[i] \in [kind : K, n : Int]
    BY <1>2, ElementOfSeq
  <2>2. \A i \in 1 .. Len(r) : r[i] \in [kind : {k}, n : Int]
    BY <1>2, ElementOfSeq
  <2> HIDE DEF r
  <2>. QED BY <2>1, <2>2
<1> HIDE DEF r
<1>4. PICK b : b = s \o r
  OBVIOUS
<1>5. /\ b \in Seq(T) /\ Len(b) = Len(s) + Len(r)
      /\ \A i \in 1 .. Len(s) + Len(r) : b[i] = IF i <= Len(s) THEN s[i] ELSE r[i - Len(s)]
  BY <1>3, <1>4, ConcatProperties
<1>6. /\ \A i \in 1 .. Len(s) : i \in 1 .. Len(b) /\ b[i] = s[i]
      /\ \A i \in 1 .. Len(r) : i + Len(s) \in 1 .. Len(b) /\ b[i + Len(s)] = r[i]
      /\ \A i \in 1 .. Len(b) : \/ i \in 1 .. Len(s) /\ b[i] = s[i]
                                \/ i - Len(s) \in 1 .. Len(r) /\ b[i] = r[i - Len(s)]
  <2>1. ASSUME NEW i \in 1 .. Len(s)
        PROVE  i \in 1 .. Len(b) /\ b[i] = s[i]
    <3>1. i \in 1 .. Len(s) + Len(r) /\ i <= Len(s)
      BY <1>2
    <3>. QED BY <1>5, <3>1
  <2>2. ASSUME NEW i \in 1 .. Len(r)
        PROVE  i + Len(s) \in 1 .. Len(b) /\ b[i + Len(s)] = r[i]
    <3>1. i + Len(s) \in 1 .. Len(s) + Len(r) /\ ~(i + Len(s) <= Len(s)) /\ (i + Len(s)) - Len(s) = i
      BY <1>2
    <3>. QED BY <1>5, <3>1
  <2>3. ASSUME NEW i \in 1 .. Len(b)
        PROVE  \/ i \in 1 .. Len(s) /\ b[i] = s[i]
               \/ i - Len(s) \in 1 .. Len(r) /\ b[i] = r[i - Len(s)]
    <3>1. i \in 1 .. Len(s) + Len(r) /\ (i <= Len(s) => i \in 1 .. Len(s))
          /\ (~(i <= Len(s)) => i - Len(s) \in 1 .. Len(r))
      BY <1>2, <1>5
    <3>. QED BY <1>5, <3>1
  <2>. QED BY <2>1, <2>2, <2>3
<1>7. ASSUME NEW i \in 1 .. Len(b), NEW j \in 1 .. Len(b), b[i].kind = b[j].kind
      PROVE  i = j
  <2>1. CASE i \in 1 .. Len(s) /\ b[i] = s[i]
    <3>1. j \in 1 .. Len(s) /\ b[j] = s[j]
      BY <1>6, <1>7, <1>a, <2>1
    <3>. QED BY <1>7, <2>1, <3>1 DEF Lists
  <2>2. CASE i - Len(s) \in 1 .. Len(r) /\ b[i] = r[i - Len(s)]
    <3>1. j - Len(s) \in 1 .. Len(r) /\ b[j] = r[j - Len(s)]
      BY <1>6, <1>7, <1>a, <2>2
    <3>a. \A x, y \in 1 .. Len(r) : r[x].kind = r[y].kind => x = y
      BY <1>1 DEF Lists
    <3>2. i - Len(s) = j - Len(s)
      BY <1>7, <2>2, <3>1, <3>a
    <3>. QED BY <1>2, <3>2
  <2>. QED BY <1>6, <2>1, <2>2
<1>8. ASSUME NEW i \in 1 .. Len(b)
      PROVE  b[i].n = a[b[i].kind] /\ (b[i].n = 0 => b[i].kind = "void")
  <2>1. CASE i \in 1 .. Len(s) /\ b[i] = s[i]
    BY <2>1 DEF Lists
  <2>2. CASE i - Len(s) \in 1 .. Len(r) /\ b[i] = r[i - Len(s)]
    BY <1>1, <2>2 DEF Lists
  <2>. QED BY <1>6, <2>1, <2>2
<1>9. ASSUME NEW m \in L, a[m] # 0
      PROVE  \E i \in 1 .. Len(b) : b[i].kind = m
  <2>1. CASE m \in K
    <3>1. PICK i \in 1 .. Len(s) : s[i].kind = m
      BY <1>9, <2>1 DEF Lists
    <3>. QED BY <1>6, <3>1
  <2>2. CASE m = k
    <3>1. PICK i \in 1 .. Len(r) : r[i].kind = m
      BY <1>1, <1>9, <2>2 DEF Lists
    <3>. QED BY <1>6, <3>1
  <2>. QED BY <2>1, <2>2
<1>. QED BY <1>4, <1>5, <1>7, <1>8, <1>9 DEF Lists, r

\* The rows of a sale, a void or a return, one of a kind.
LEMMA WrittenLists ==
    ASSUME NEW d \in Doc, Says[d].kind # "receipt"
    PROVE  Lists(Amt(d), Kinds(d), Written[d])
<1> DEFINE s == Says[d]
<1>1. PICK a : a = Amt(d)
  OBVIOUS
<1>2. /\ a["sale"] = s.qty /\ a["line"] = s.qty /\ a["out"] = s.qty /\ a["pay"] = s.qty - s.owed
      /\ a["charge"] = s.owed /\ a["refund"] = s.qty /\ a["rline"] = s.qty /\ a["rback"] = s.qty
      /\ a["rpay"] = s.qty - s.owed /\ a["rdebt"] = s.owed /\ a["void"] = 0
      /\ a["voidback"] = Says[s.of].qty /\ a["voiddebt"] = s.owed
  BY <1>1 DEF Amt
<1>3. s.qty \in Int /\ s.owed \in Int /\ s.qty - s.owed \in Int /\ Says[s.of].qty \in Int
      /\ s.kind \in {"sale", "void", "refund"}
  BY SaysFacts
<1>4. CASE s.kind = "sale"
  <2>1. Lists(a, {"sale"}, R("sale", a["sale"]))
    BY <1>2, <1>3, ListBegun
  <2>2. Lists(a, {"sale"} \cup {"line"}, R("sale", a["sale"]) \o R("line", a["line"]))
    BY <1>2, <1>3, <2>1, ListJoined
  <2>3. Lists(a, ({"sale"} \cup {"line"}) \cup {"out"},
              (R("sale", a["sale"]) \o R("line", a["line"])) \o R("out", a["out"]))
    BY <1>2, <1>3, <2>2, ListJoined
  <2>4. Lists(a, (({"sale"} \cup {"line"}) \cup {"out"}) \cup {"pay"},
              ((R("sale", a["sale"]) \o R("line", a["line"])) \o R("out", a["out"])) \o R("pay", a["pay"]))
    BY <1>2, <1>3, <2>3, ListJoined
  <2>5. Lists(a, ((({"sale"} \cup {"line"}) \cup {"out"}) \cup {"pay"}) \cup {"charge"},
              (((R("sale", a["sale"]) \o R("line", a["line"])) \o R("out", a["out"])) \o R("pay", a["pay"]))
                \o R("charge", a["charge"]))
    BY <1>2, <1>3, <2>4, ListJoined
  <2>6. ((({"sale"} \cup {"line"}) \cup {"out"}) \cup {"pay"}) \cup {"charge"} = Kinds(d)
    BY <1>4 DEF Kinds
  <2>7. Written[d] = (((R("sale", a["sale"]) \o R("line", a["line"])) \o R("out", a["out"])) \o R("pay", a["pay"]))
                       \o R("charge", a["charge"])
    BY <1>2, <1>4 DEF Written, SaleRows
  <2>. QED BY <1>1, <2>5, <2>6, <2>7
<1>5. CASE s.kind = "refund"
  <2>1. Lists(a, {"refund"}, R("refund", a["refund"]))
    BY <1>2, <1>3, ListBegun
  <2>2. Lists(a, {"refund"} \cup {"rline"}, R("refund", a["refund"]) \o R("rline", a["rline"]))
    BY <1>2, <1>3, <2>1, ListJoined
  <2>3. Lists(a, ({"refund"} \cup {"rline"}) \cup {"rback"},
              (R("refund", a["refund"]) \o R("rline", a["rline"])) \o R("rback", a["rback"]))
    BY <1>2, <1>3, <2>2, ListJoined
  <2>4. Lists(a, (({"refund"} \cup {"rline"}) \cup {"rback"}) \cup {"rpay"},
              ((R("refund", a["refund"]) \o R("rline", a["rline"])) \o R("rback", a["rback"])) \o R("rpay", a["rpay"]))
    BY <1>2, <1>3, <2>3, ListJoined
  <2>5. Lists(a, ((({"refund"} \cup {"rline"}) \cup {"rback"}) \cup {"rpay"}) \cup {"rdebt"},
              (((R("refund", a["refund"]) \o R("rline", a["rline"])) \o R("rback", a["rback"])) \o R("rpay", a["rpay"]))
                \o R("rdebt", a["rdebt"]))
    BY <1>2, <1>3, <2>4, ListJoined
  <2>6. ((({"refund"} \cup {"rline"}) \cup {"rback"}) \cup {"rpay"}) \cup {"rdebt"} = Kinds(d)
    BY <1>5 DEF Kinds
  <2>7. Written[d] = (((R("refund", a["refund"]) \o R("rline", a["rline"])) \o R("rback", a["rback"])) \o R("rpay", a["rpay"]))
                       \o R("rdebt", a["rdebt"])
    BY <1>2, <1>5 DEF Written, ReturnRows
  <2>. QED BY <1>1, <2>5, <2>6, <2>7
<1>6. CASE s.kind = "void"
  <2>1. PICK v : v = <<[kind |-> "void", n |-> 0]>>
    OBVIOUS
  <2>2. Lists(a, {"void"}, v)
    <3>1. PICK r : r = [kind |-> "void", n |-> 0]
      OBVIOUS
    <3>2. r \in [kind : {"void"}, n : Int] /\ r.kind = "void" /\ r.n = 0
      BY <3>1
    <3>3. <<r>> \in Seq([kind : {"void"}, n : Int]) /\ Len(<<r>>) = 1 /\ <<r>>[1] = r
      BY <3>2
    <3>. QED BY <1>2, <2>1, <3>1, <3>2, <3>3 DEF Lists
  <2>3. Lists(a, {"void"} \cup {"voidback"}, v \o R("voidback", a["voidback"]))
    BY <1>2, <1>3, <2>2, ListJoined
  <2>4. Lists(a, ({"void"} \cup {"voidback"}) \cup {"voiddebt"},
              (v \o R("voidback", a["voidback"])) \o R("voiddebt", a["voiddebt"]))
    BY <1>2, <1>3, <2>3, ListJoined
  <2>5. ({"void"} \cup {"voidback"}) \cup {"voiddebt"} = Kinds(d)
    BY <1>6 DEF Kinds
  <2>6. Written[d] = (v \o R("voidback", a["voidback"])) \o R("voiddebt", a["voiddebt"])
    BY <1>2, <1>6, <2>1 DEF Written, VoidRows
  <2>. QED BY <1>1, <2>4, <2>5, <2>6
<1>. QED BY <1>3, <1>4, <1>5, <1>6

\* The goods come back with the second row of a void.
LEMMA SecondOfVoid ==
    ASSUME NEW d \in Doc, Says[d].kind = "void", Says[Says[d].of].qty # 0
    PROVE  2 \in Whole(d) /\ Written[d][2].kind = "voidback"
<1> DEFINE q == Says[Says[d].of].qty
           v == <<[kind |-> "void", n |-> 0]>>
           b == R("voidback", q)
           c == R("voiddebt", Says[d].owed)
<1>1. q \in Int /\ Says[d].owed \in Int
  BY SaysFacts
<1>2. PICK r : r = [kind |-> "voidback", n |-> q]
  OBVIOUS
<1>3. b = <<r>> /\ r.kind = "voidback"
  BY <1>2 DEF R
<1>4. PICK h : h = [kind |-> "void", n |-> 0]
  OBVIOUS
<1>5. Written[d] = (<<h>> \o <<r>>) \o c
  BY <1>3, <1>4 DEF Written, VoidRows
<1>6. \E S : <<h>> \in Seq(S) /\ <<r>> \in Seq(S) /\ c \in Seq(S)
  <2>1. c \in Seq([kind : {"voiddebt"}, n : Int])
    BY <1>1, OneRow
  <2> DEFINE S == {h, r} \cup [kind : {"voiddebt"}, n : Int]
  <2>2. <<h>> \in Seq(S) /\ <<r>> \in Seq(S)
    OBVIOUS
  <2>3. [kind : {"voiddebt"}, n : Int] \subseteq S
    OBVIOUS
  <2> HIDE DEF S, c
  <2>4. c \in Seq(S)
    BY <2>1, <2>3, SeqMonotonic
  <2>. QED BY <2>2, <2>4
<1>7. PICK S : <<h>> \in Seq(S) /\ <<r>> \in Seq(S) /\ c \in Seq(S)
  BY <1>6
<1> HIDE DEF c
<1>8. PICK e : e = <<h>> \o <<r>>
  OBVIOUS
<1>9. e \in Seq(S) /\ Len(e) = 2 /\ e[2] = r
  <2>1. Len(<<h>>) = 1 /\ Len(<<r>>) = 1 /\ <<r>>[1] = r
    OBVIOUS
  <2>2. /\ e \in Seq(S) /\ Len(e) = Len(<<h>>) + Len(<<r>>)
        /\ \A i \in 1 .. Len(<<h>>) + Len(<<r>>) : e[i] = IF i <= Len(<<h>>) THEN <<h>>[i] ELSE <<r>>[i - Len(<<h>>)]
    BY <1>7, <1>8, ConcatProperties
  <2>. QED BY <2>1, <2>2
<1>10. Len(c) \in Nat
  BY <1>7, LenProperties
<1>11. /\ Len(Written[d]) = Len(e) + Len(c)
       /\ \A i \in 1 .. Len(e) + Len(c) : Written[d][i] = IF i <= Len(e) THEN e[i] ELSE c[i - Len(e)]
  BY <1>5, <1>7, <1>8, <1>9, ConcatProperties
<1>12. 2 \in 1 .. Len(e) + Len(c) /\ Written[d][2] = r
  BY <1>9, <1>10, <1>11
<1>. QED BY <1>3, <1>11, <1>12 DEF Whole

Amount == [r \in Row |-> N(r)]
RowsAs(d, k) == {r \in RowsOf[d] : Kind(r) = k}

LEMMA RowsFinite ==
    /\ IsFiniteSet(Doc) /\ IsFiniteSet(Row)
    /\ \A r \in Row : Amount[r] = N(r) /\ Amount[r] \in Int
<1>1. IsFiniteSet(Doc)
  BY DocsAssumption
<1>2. IsFiniteSet(1 .. MaxRows)
  <2>1. 1 \in Int /\ MaxRows \in Int
    BY DEF MaxRows
  <2>. QED BY <2>1, FS_Interval
<1>3. Row \subseteq Doc \X (1 .. MaxRows)
  BY IsRow, WholeFacts
<1>4. IsFiniteSet(Row)
  BY <1>1, <1>2, <1>3, FS_Product, FS_Subset
<1>5. ASSUME NEW r \in Row
      PROVE  N(r) \in Int
  <2>1. PICK d \in Doc : \E i \in Whole(d) : r = <<d, i>>
    BY IsRow
  <2>2. PICK i \in Whole(d) : r = <<d, i>>
    BY <2>1
  <2>3. Written[d] \in Seq([kind : Kinds(d), n : Int])
    BY WrittenFacts DEF Shape
  <2>4. Written[d][i] \in [kind : Kinds(d), n : Int]
    BY <2>3, ElementOfSeq DEF Whole
  <2>. QED BY <2>2, <2>4 DEF N
<1>. QED BY <1>1, <1>4, <1>5 DEF Amount

\* What rows come to, as a sum of their amounts.
LEMMA TotalIs ==
    ASSUME NEW rows, rows \subseteq Row
    PROVE  IsFiniteSet(rows) /\ Total(rows) = SumOf(Amount, rows) /\ Total(rows) \in Int
<1> DEFINE all(g) == [s \in SUBSET rows |-> IF s = {} THEN 0 ELSE N(Chosen(s)) + g[s \ {Chosen(s)}]]
           h == CHOOSE g : g = all(g)
<1>1. IsFiniteSet(rows) /\ \A r \in rows : Amount[r] \in Int
  BY RowsFinite, FS_Subset
<1>2. Total(rows) = h[rows]
  BY DEF Total, MapThenSumSet, MapThenFoldSet, Chosen
<1>3. ASSUME NEW g PROVE IsTally(g, Amount, rows) <=> g = all(g)
  <2>1. \A s \in SUBSET rows : s # {} => Amount[Chosen(s)] = N(Chosen(s))
    BY ChosenIn, RowsFinite
  <2>. QED BY <2>1 DEF IsTally
<1> HIDE DEF all
<1>4. IsTally(h, Amount, rows)
  BY <1>1, <1>3, TallyExists
<1> HIDE DEF h
<1>5. Total(rows) = SumOf(Amount, rows)
  BY <1>1, <1>2, <1>4, AnyTally
<1>. QED BY <1>1, <1>5, SumTakeOut

\* What the rows of one kind come to.
LEMMA OneKind ==
    ASSUME NEW d \in Doc, Says[d].kind # "receipt", NEW k \in Kinds(d)
    PROVE  /\ IsFiniteSet(RowsAs(d, k)) /\ RowsAs(d, k) \subseteq Row
           /\ SumOf(Amount, RowsAs(d, k)) = Amt(d)[k]
           /\ Amt(d)[k] # 0 => RowsAs(d, k) # {}
           /\ \A r \in RowsAs(d, k) : N(r) = Amt(d)[k] /\ (N(r) = 0 => k = "void")
<1>1. Lists(Amt(d), Kinds(d), Written[d])
  BY WrittenLists
<1>2. /\ RowsAs(d, k) \subseteq Row
      /\ \A r \in RowsAs(d, k) : \E i \in 1 .. Len(Written[d]) : r = <<d, i>> /\ Written[d][i].kind = k
      /\ \A i \in 1 .. Len(Written[d]) : Written[d][i].kind = k => <<d, i>> \in RowsAs(d, k)
  BY WholeFacts DEF RowsAs, Kind, Whole
<1>3. IsFiniteSet(RowsAs(d, k))
  BY <1>2, RowsFinite, FS_Subset
<1>4. \A r \in RowsAs(d, k) : /\ N(r) = Amt(d)[k] /\ Amount[r] = Amt(d)[k] /\ Amount[r] \in Int
                              /\ (N(r) = 0 => k = "void")
  BY <1>1, <1>2, RowsFinite DEF Lists, N
<1>5. CASE \E r \in RowsAs(d, k) : TRUE
  <2>1. PICK r \in RowsAs(d, k) : TRUE
    BY <1>5
  <2>2. RowsAs(d, k) = {r}
    <3>1. \A i, j \in 1 .. Len(Written[d]) : Written[d][i].kind = Written[d][j].kind => i = j
      BY <1>1 DEF Lists
    <3>2. ASSUME NEW o \in RowsAs(d, k) PROVE o = r
      <4>1. PICK i \in 1 .. Len(Written[d]) : r = <<d, i>> /\ Written[d][i].kind = k
        BY <1>2, <2>1
      <4>2. PICK j \in 1 .. Len(Written[d]) : o = <<d, j>> /\ Written[d][j].kind = k
        BY <1>2, <3>2
      <4>3. i = j
        BY <3>1, <4>1, <4>2
      <4>. QED BY <4>1, <4>2, <4>3
    <3>. QED BY <2>1, <3>2
  <2>3. SumOf(Amount, RowsAs(d, k)) = Amount[r]
    BY <1>4, <2>2, SumOfOne
  <2>4. Amount[r] = Amt(d)[k]
    BY <1>4, <2>1
  <2>. QED BY <1>2, <1>3, <1>4, <2>2, <2>3, <2>4
<1>6. CASE RowsAs(d, k) = {}
  <2>1. Amt(d)[k] = 0
    BY <1>1, <1>2, <1>6 DEF Lists
  <2>. QED BY <1>2, <1>3, <1>6, <2>1, SumOfNone
<1>. QED BY <1>5, <1>6

\* What the rows of one kind come to in documents that are all there.
LEMMA TotalByDoc ==
    ASSUME NEW seen, seen \subseteq Row, NEW ds, ds \subseteq Doc, NEW k, NEW f,
           \A d \in ds : /\ Says[d].kind # "receipt" /\ k \in Kinds(d)
                         /\ RowsAs(d, k) \subseteq seen /\ f[d] = Amt(d)[k]
    PROVE  Total(Of(seen, k, ds)) = SumOf(f, ds)
<1> DEFINE part == [d \in ds |-> RowsAs(d, k)]
           rows == UNION {part[d] : d \in ds}
<1>1. IsFiniteSet(ds)
  BY RowsFinite, FS_Subset
<1>2. \A d \in ds : /\ IsFiniteSet(part[d]) /\ (\A r \in part[d] : Amount[r] \in Int)
                    /\ f[d] = SumOf(Amount, part[d])
  BY OneKind, RowsFinite
<1>3. ASSUME NEW d \in ds, NEW r \in part[d]
      PROVE  r[1] = d /\ Kind(r) = k /\ r \in seen
  <2>1. r \in RowsAs(d, k) /\ d \in Doc
    OBVIOUS
  <2>2. r \in RowsOf[d] /\ Kind(r) = k /\ r \in seen
    BY <2>1 DEF RowsAs
  <2>. QED BY <2>1, <2>2, WholeFacts
<1>4. \A c, d \in ds : c # d => part[c] \cap part[d] = {}
  BY <1>3
<1>5. SumOf(Amount, rows) = SumOf(f, ds)
  <2>1. PICK p : p = part
    OBVIOUS
  <2>2. \A d \in ds : /\ IsFiniteSet(p[d]) /\ (\A r \in p[d] : Amount[r] \in Int)
                      /\ f[d] = SumOf(Amount, p[d])
    BY <1>2, <2>1
  <2>3. \A c, d \in ds : c # d => p[c] \cap p[d] = {}
    BY <1>4, <2>1
  <2> HIDE DEF part, rows
  <2>4. SumOf(Amount, Gathered(p, ds)) = SumOf(f, ds)
    BY <1>1, <2>2, <2>3, SumByGroup
  <2>. QED BY <2>1, <2>4 DEF Gathered, rows
<1>6. Of(seen, k, ds) = rows
  <2>1. ASSUME NEW r \in Of(seen, k, ds)
        PROVE  r \in part[r[1]] /\ r[1] \in ds
    <3>1. r \in Row /\ r[1] \in ds /\ Kind(r) = k
      BY DEF Of
    <3>2. r \in RowsOf[r[1]]
      BY <3>1 DEF Row, RowsOf
    <3>. QED BY <3>1, <3>2 DEF RowsAs
  <2>2. Of(seen, k, ds) \subseteq rows
    BY <2>1
  <2>3. rows \subseteq Of(seen, k, ds)
    BY <1>3 DEF Of
  <2>. QED BY <2>2, <2>3
<1>7. Of(seen, k, ds) \subseteq Row
  BY DEF Of
<1>. QED BY <1>5, <1>6, <1>7, TotalIs

-----------------------------------------------------------------------------
(* The invariant of the books *)

Entered(d) == RowsOf[d] \subseteq db
Absent(d) == RowsOf[d] \cap db = {}

\* A document is in the books with all its rows or with none, as its rows' outcomes say.
DocKept(d) ==
    /\ \/ Entered(d) /\ \A r \in RowsOf[d] : recorded[r] = "applied"
       \/ Absent(d) /\ \A r \in RowsOf[d] : recorded[r] \in {"none", "rejected"}
    /\ AtOnce => \A q, r \in RowsOf[d] : recorded[q] = "none" => recorded[r] = "none"

\* The voids, or the returns, of a sale that are in the books.
Undoes(kind, s) == {e \in Doc : Says[e].kind = kind /\ Says[e].of = s /\ Entered(e)}
Owed == [d \in Doc |-> Says[d].owed]
Pieces == [d \in Doc |-> Says[d].qty]

\* A void is of a sale that is there, is its only one, and stands beside no return; and
\* returns take off no more debt than the sale put on.
VoidBooked(d) ==
    LET s == Says[d].of IN
    Says[d].kind = "void" /\ Entered(d) =>
      /\ Says[s].kind = "sale" /\ Entered(s)
      /\ Undoes("refund", s) = {} /\ Undoes("void", s) = {d}
DebtBooked(s) == SumOf(Owed, Undoes("refund", s)) <= Says[s].owed

BooksKept == \A d \in Doc : DocKept(d) /\ VoidBooked(d) /\ DebtBooked(d)

\* A till shows what was recorded, and a thread has it to answer.
ShownRight == \A r \in Row : shown[r] # "pending" => shown[r] = recorded[r]
GotRight(w) ==
    LET t == txn[w] IN
    \A i \in t.sent : t.got[i] \in {"applied", "rejected"} => recorded[<<t.doc, i>>] = t.got[i]

\* Rows that are applied together are the whole document, from its header on.  A void
\* found done is not, nor is what was left when the header was refused: these end in a refusal.
InOrder(t) ==
    t.sent = Whole(t.doc) /\ t.wrote = Rows(t, t.sent \ t.todo) /\ (1 \in t.todo => t.todo = t.sent)
FoundDone(t) ==
    /\ t.step = "plan" /\ t.wrote = {} /\ t.sent = Whole(t.doc) /\ t.todo = t.sent \ {1}
    /\ Says[t.doc].kind = "void" /\ Undoes("void", Says[t.doc].of) # {}
LeftOver(t) ==
    /\ ~AtOnce /\ t.step = "plan" /\ t.wrote = {} /\ t.todo = t.sent
    /\ 1 \notin t.sent /\ recorded[First(t.doc)] = "rejected"
Progress(w) ==
    LET t == txn[w] IN
    /\ t.step \in {"plan", "write"} => InOrder(t) \/ FoundDone(t) \/ LeftOver(t)
    /\ AtOnce /\ t.step = "settle" => t.todo = t.sent

\* What the header of a void or a return was checked against still holds while the
\* transaction goes on, and what its debt row was, once that is planned.
Checked(w) ==
    LET t == txn[w]
        d == t.doc
        s == Says[d].of IN
    t.step = "write" \/ (t.step = "plan" /\ t.wrote # {}) =>
      /\ Says[d].kind \in {"void", "refund"} =>
           Says[s].kind = "sale" /\ Entered(s) /\ Undoes("void", s) = {}
      /\ Says[d].kind = "void" => Undoes("refund", s) = {}
      /\ Says[d].kind = "refund" =>
           /\ SumOf(Pieces, Undoes("refund", s)) + Says[d].qty <= Says[s].qty
           /\ (\E r \in Writes(t) : Kind(r) = "rdebt") =>
                SumOf(Owed, Undoes("refund", s)) + Says[d].owed <= Says[s].owed

Does(w) == GotRight(w) /\ Progress(w) /\ Checked(w)
Kept == BooksKept /\ ShownRight /\ \A w \in Worker : Does(w)

\* Nothing comes between the commits of _settle, or no document is one of which a part
\* could be entered alone: a receipt, or a void whose debt row would still fit beside the
\* debt that another void of the sale took off.
SettlesWhole ==
    \/ AtOnce
    \/ \A d \in Doc :
         /\ Says[d].kind # "receipt"
         /\ Says[d].kind = "void" =>
              \A e \in Doc : e # d /\ Says[e].kind = "void" /\ Says[e].of = Says[d].of =>
                 Says[d].owed = 0 \/ Says[d].owed + Says[e].owed > Says[Says[d].of].owed

-----------------------------------------------------------------------------
(* Headers *)

\* A void starts with its header, a receipt has three rows.
LEMMA VoidBegins ==
    ASSUME NEW d \in Doc, Says[d].kind = "void"
    PROVE  1 \in Whole(d) /\ Kind(First(d)) = "void"
<1> DEFINE q == Says[Says[d].of].qty
           b == R("voidback", q)
           c == R("voiddebt", Says[d].owed)
<1>1. q \in Int /\ Says[d].owed \in Int
  BY SaysFacts
<1>2. PICK h : h = [kind |-> "void", n |-> 0]
  OBVIOUS
<1>3. Written[d] = (<<h>> \o b) \o c
  BY <1>2 DEF Written, VoidRows
<1>4. \E S : <<h>> \in Seq(S) /\ b \in Seq(S) /\ c \in Seq(S)
  <2>1. c \in Seq([kind : {"voiddebt"}, n : Int]) /\ b \in Seq([kind : {"voidback"}, n : Int])
    BY <1>1, OneRow
  <2> DEFINE S == {h} \cup [kind : {"voiddebt"}, n : Int] \cup [kind : {"voidback"}, n : Int]
  <2>2. <<h>> \in Seq(S)
    OBVIOUS
  <2>3. [kind : {"voiddebt"}, n : Int] \subseteq S /\ [kind : {"voidback"}, n : Int] \subseteq S
    OBVIOUS
  <2> HIDE DEF S, b, c
  <2>4. c \in Seq(S) /\ b \in Seq(S)
    BY <2>1, <2>3, SeqMonotonic
  <2>. QED BY <2>2, <2>4
<1>5. PICK S : <<h>> \in Seq(S) /\ b \in Seq(S) /\ c \in Seq(S)
  BY <1>4
<1> HIDE DEF b, c
<1>6. PICK e : e = <<h>> \o b
  OBVIOUS
<1>7. e \in Seq(S) /\ Len(e) \in Nat /\ Len(e) >= 1 /\ e[1] = h
  <2>1. Len(<<h>>) = 1 /\ <<h>>[1] = h /\ Len(b) \in Nat
    BY <1>5, LenProperties
  <2>2. /\ e \in Seq(S) /\ Len(e) = Len(<<h>>) + Len(b)
        /\ \A i \in 1 .. Len(<<h>>) + Len(b) : e[i] = IF i <= Len(<<h>>) THEN <<h>>[i] ELSE b[i - Len(<<h>>)]
    BY <1>5, <1>6, ConcatProperties
  <2>. QED BY <2>1, <2>2
<1>8. Len(c) \in Nat
  BY <1>5, LenProperties
<1>9. /\ Len(Written[d]) = Len(e) + Len(c)
      /\ \A i \in 1 .. Len(e) + Len(c) : Written[d][i] = IF i <= Len(e) THEN e[i] ELSE c[i - Len(e)]
  BY <1>3, <1>5, <1>6, <1>7, ConcatProperties
<1>10. 1 \in 1 .. Len(e) + Len(c) /\ Written[d][1] = h
  BY <1>7, <1>8, <1>9
<1>11. h.kind = "void" /\ 1 \in Whole(d)
  BY <1>2, <1>9, <1>10 DEF Whole
<1>. QED BY <1>10, <1>11 DEF Kind, First

LEMMA ReceiptIsThree ==
    ASSUME NEW d \in Doc, Says[d].kind = "receipt"
    PROVE  Whole(d) = 1 .. 3
<1>1. PICK a, b, c : Written[d] = <<a, b, c>>
  BY DEF Written, ReceiptRows
<1>2. Len(Written[d]) = 3
  BY <1>1
<1>. QED BY <1>2 DEF Whole

\* A sale or a return starts with its header, and has a line.
LEMMA SaleBegins ==
    ASSUME NEW d \in Doc, Says[d].kind \in {"sale", "refund"}
    PROVE  1 \in Whole(d) /\ Kind(First(d)) = Says[d].kind /\ Whole(d) # {1}
<1> DEFINE k == Says[d].kind
           l == IF k = "sale" THEN "line" ELSE "rline"
<1>1. Lists(Amt(d), Kinds(d), Written[d]) /\ Says[d].qty > 0 /\ Says[d].qty \in Int
  BY WrittenLists, DocsAssumption, SaysFacts
<1>2. k \in Kinds(d) /\ l \in Kinds(d) /\ Amt(d)[k] = Says[d].qty /\ Amt(d)[l] = Says[d].qty /\ k # l
  BY DEF Kinds, Amt
<1> HIDE DEF l
<1>3. PICK i \in Whole(d) : Written[d][i].kind = k
  BY <1>1, <1>2 DEF Lists, Whole
<1>4. PICK j \in Whole(d) : Written[d][j].kind = l
  BY <1>1, <1>2 DEF Lists, Whole
<1>5. i = 1 /\ 1 \in Whole(d)
  BY <1>3, RowFacts DEF Kind
<1>6. j # 1
  BY <1>2, <1>3, <1>4, <1>5
<1>. QED BY <1>3, <1>4, <1>5, <1>6 DEF Kind, First

\* Every document has rows, and but for receipts the first is its header.
LEMMA HasRows ==
    ASSUME NEW d \in Doc
    PROVE  /\ 1 \in Whole(d) /\ First(d) \in RowsOf[d] /\ First(d) \in Row /\ RowsOf[d] \subseteq Row
           /\ Says[d].kind # "receipt" => Kind(First(d)) = Says[d].kind
<1>1. Says[d].kind \in {"sale", "void", "refund", "receipt"}
  BY SaysFacts
<1>2. 1 \in Whole(d)
  BY <1>1, VoidBegins, SaleBegins, ReceiptIsThree
<1>. QED BY <1>1, <1>2, VoidBegins, SaleBegins, WholeFacts

Shows(seen, k, e) == Of(seen, k, {e}) # {}

\* Only the header of a document has the document's kind.
LEMMA HeaderOf ==
    ASSUME NEW seen, seen \subseteq Row, NEW e \in Doc, NEW k \in {"void", "refund"}
    PROVE  Shows(seen, k, e) <=> Says[e].kind = k /\ First(e) \in seen
<1>1. ASSUME NEW r \in seen, r[1] = e, Kind(r) = k
      PROVE  r = First(e) /\ Says[e].kind = k
  <2>1. PICK i \in Whole(e) : r = <<e, i>>
    BY <1>1, IsRow
  <2>2. Kind(r) \in Kinds(e) /\ (Kind(r) = Says[e].kind => i = 1)
    BY <2>1, RowFacts
  <2>3. Says[e].kind = k
    BY <1>1, <2>2, SaysFacts DEF Kinds
  <2>. QED BY <1>1, <2>1, <2>2, <2>3 DEF First
<1>2. First(e)[1] = e
  BY DEF First
<1>. QED BY <1>1, <1>2, HasRows DEF Of, Shows

\* A document of one row is the void of what is no sale, and waits for one.
LEMMA Alone ==
    ASSUME NEW d \in Doc, Whole(d) = {1}, NEW seen, seen \subseteq Row
    PROVE  Says[d].kind = "void" /\ Missing(First(d), seen)
<1>1. Says[d].kind = "void"
  <2>1. Says[d].kind # "receipt"
    <3>1. 2 \in 1 .. 3
      OBVIOUS
    <3>. QED BY <3>1, ReceiptIsThree
  <2>. QED BY <2>1, SaleBegins, SaysFacts
<1>2. Says[Says[d].of].qty = 0
  BY <1>1, SecondOfVoid
<1>3. Says[Says[d].of].kind \notin {"sale", "refund"}
  BY <1>2, DocsAssumption, SaysFacts
<1>4. ~Exists(seen, Says[d].of)
  BY <1>3, HeaderFacts, SaysFacts
<1>5. Kind(First(d)) = "void" /\ First(d)[1] = d
  BY <1>1, VoidBegins DEF First
<1>. QED BY <1>1, <1>4, <1>5 DEF Missing

-----------------------------------------------------------------------------
(* What the handlers find in books that are kept *)

\* A document is in the books when its header is, and the handlers find it by that.
LEMMA KeptFacts ==
    ASSUME db \subseteq Row, BooksKept, NEW d \in Doc
    PROVE  /\ First(d) \in db <=> Entered(d)
           /\ First(d) \notin db <=> Absent(d)
           /\ Entered(d) \/ Absent(d)
           /\ VoidsOf(db, d) = Undoes("void", d) /\ RefundsOf(db, d) = Undoes("refund", d)
           /\ Exists(db, d) => Entered(d) /\ Says[d].kind \in {"sale", "refund"}
<1>1. ASSUME NEW e \in Doc
      PROVE  (First(e) \in db <=> Entered(e)) /\ (First(e) \notin db <=> Absent(e))
  BY HasRows DEF BooksKept, DocKept, Entered, Absent
<1>2. VoidsOf(db, d) = Undoes("void", d) /\ RefundsOf(db, d) = Undoes("refund", d)
  <2>1. ASSUME NEW e \in Doc, NEW k \in {"void", "refund"}
        PROVE  Shows(db, k, e) <=> Says[e].kind = k /\ Entered(e)
    BY <1>1, HeaderOf
  <2>. QED BY <2>1 DEF VoidsOf, RefundsOf, Undoes, Shows
<1>. QED BY <1>1, <1>2, HeaderFacts

\* What the rows of one kind come to in documents that are in the books.
LEMMA TotalBooked ==
    ASSUME db \subseteq Row, NEW ds, ds \subseteq Doc, NEW k, NEW f,
           \A d \in ds : Says[d].kind # "receipt" /\ k \in Kinds(d) /\ Entered(d) /\ f[d] = Amt(d)[k]
    PROVE  Total(Of(db, k, ds)) = SumOf(f, ds)
<1>1. \A d \in ds : RowsAs(d, k) \subseteq db
  BY DEF Entered, RowsAs
<1>. QED BY <1>1, TotalByDoc

LEMMA OneBooked ==
    ASSUME db \subseteq Row, NEW d \in Doc, Says[d].kind # "receipt", NEW k \in Kinds(d), Entered(d)
    PROVE  Total(Of(db, k, {d})) = Amt(d)[k] /\ Amt(d)[k] \in Int
<1> DEFINE f == [c \in {d} |-> Amt(d)[k]]
<1>1. Total(Of(db, k, {d})) = SumOf(f, {d})
  BY TotalBooked
<1>2. f[d] = Amt(d)[k] /\ Amt(d)[k] \in Int
  BY SaysFacts DEF Amt, Kinds
<1> HIDE DEF f
<1>. QED BY <1>1, <1>2, SumOfOne

\* The row of a document that has this kind.
LEMMA RowIs ==
    ASSUME NEW d \in Doc, Says[d].kind # "receipt", NEW i \in Whole(d)
    PROVE  LET r == <<d, i>> IN
           r \in RowsAs(d, Kind(r)) /\ N(r) = Amt(d)[Kind(r)] /\ (N(r) = 0 => Kind(r) = "void")
  BY RowFacts, OneKind DEF RowsAs

\* The goods of a sale that was voided do not come back again.
LEMMA GoodsBackOnce ==
    ASSUME db \subseteq Row, BooksKept, NEW d \in Doc, Says[d].kind = "void",
           NEW i \in Whole(d), Kind(<<d, i>>) = "voidback"
    PROVE  Plan(<<d, i>>, db) \in {"later", "rejected"}
<1> DEFINE r == <<d, i>>
           s == Says[d].of
<1>1. s \in Doc /\ r[1] = d
  BY SaysFacts
<1>2. CASE ~Exists(db, s)
  BY <1>1, <1>2 DEF Plan, Missing
<1>3. CASE Undoes("void", s) = {}
  <2>1. VoidsOf(db, s) = {}
    BY <1>1, <1>3, KeptFacts
  <2>2. Breaks(r, db)
    BY <1>1, <2>1 DEF Breaks, StockBackBreaks
  <2>. QED BY <1>1, <2>2 DEF Plan
<1>4. CASE Undoes("void", s) # {} /\ Exists(db, s)
  <2>1. PICK e \in Undoes("void", s) : TRUE
    BY <1>4
  <2>2. e \in Doc /\ Says[e].kind = "void" /\ Says[e].of = s /\ Entered(e)
    BY <2>1 DEF Undoes
  <2>3. Undoes("void", s) = {e} /\ Says[s].kind = "sale" /\ Entered(s)
    BY <2>2 DEF BooksKept, VoidBooked
  <2>4. VoidsOf(db, s) = {e}
    BY <1>1, <2>3, KeptFacts
  <2>5. Total(Of(db, "voidback", {e})) = Says[s].qty /\ Total(Of(db, "out", {s})) = Says[s].qty
    <3>1. "voidback" \in Kinds(e) /\ "out" \in Kinds(s)
      BY <2>2, <2>3 DEF Kinds
    <3>2. Amt(e)["voidback"] = Says[s].qty /\ Amt(s)["out"] = Says[s].qty
      BY <2>2 DEF Amt
    <3>3. Total(Of(db, "voidback", {e})) = Amt(e)["voidback"]
      BY <2>2, <3>1, OneBooked
    <3>4. Total(Of(db, "out", {s})) = Amt(s)["out"]
      BY <1>1, <2>3, <3>1, OneBooked
    <3>. QED BY <3>2, <3>3, <3>4
  <2>6. N(r) = Says[s].qty
    <3>1. N(r) = Amt(d)["voidback"]
      BY RowIs
    <3>. QED BY <3>1 DEF Amt
  <2>7. Says[s].qty \in Int /\ Says[s].qty > 0
    BY <1>1, <2>3, SaysFacts, DocsAssumption
  <2>8. StockBackBreaks(r, db)
    <3>1. Says[s].qty + Says[s].qty > Says[s].qty
      BY <2>7
    <3>2. Total(Of(db, "voidback", VoidsOf(db, s))) + N(r) > Total(Of(db, "out", {s}))
      BY <2>4, <2>5, <2>6, <3>1
    <3>. QED BY <1>1, <3>2 DEF StockBackBreaks
  <2>9. Breaks(r, db)
    BY <2>8 DEF Breaks
  <2>. QED BY <1>1, <2>9 DEF Plan
<1>. QED BY <1>2, <1>3, <1>4

\* Nor does the debt, when that of two voids is more than the sale put on.
LEMMA DebtBackOnce ==
    ASSUME db \subseteq Row, BooksKept, SettlesWhole, ~AtOnce, NEW d \in Doc, Says[d].kind = "void", Absent(d),
           NEW i \in Whole(d), Kind(<<d, i>>) = "voiddebt"
    PROVE  Plan(<<d, i>>, db) \in {"later", "rejected"}
<1> DEFINE r == <<d, i>>
           s == Says[d].of
<1>1. s \in Doc /\ r[1] = d
  BY SaysFacts
<1>2. CASE ~Exists(db, s)
  BY <1>1, <1>2 DEF Plan, Missing
<1>3. CASE Undoes("void", s) = {}
  <2>1. VoidsOf(db, s) = {}
    BY <1>1, <1>3, KeptFacts
  <2>2. Breaks(r, db)
    BY <1>1, <2>1 DEF Breaks, DebtBackBreaks
  <2>. QED BY <1>1, <2>2 DEF Plan
<1>4. CASE Undoes("void", s) # {} /\ Exists(db, s)
  <2>1. PICK e \in Undoes("void", s) : TRUE
    BY <1>4
  <2>2. e \in Doc /\ Says[e].kind = "void" /\ Says[e].of = s /\ Entered(e)
    BY <2>1 DEF Undoes
  <2>3. Undoes("void", s) = {e} /\ Undoes("refund", s) = {} /\ Says[s].kind = "sale" /\ Entered(s)
    BY <2>2 DEF BooksKept, VoidBooked
  <2>4. VoidsOf(db, s) = {e} /\ RefundsOf(db, s) = {}
    BY <1>1, <2>3, KeptFacts
  <2>5. Total(Of(db, "voiddebt", {e})) = Says[e].owed /\ Total(Of(db, "charge", {s})) = Says[s].owed
    <3>1. "voiddebt" \in Kinds(e) /\ "charge" \in Kinds(s)
      BY <2>2, <2>3 DEF Kinds
    <3>2. Amt(e)["voiddebt"] = Says[e].owed /\ Amt(s)["charge"] = Says[s].owed
      BY DEF Amt
    <3>3. Total(Of(db, "voiddebt", {e})) = Amt(e)["voiddebt"]
      BY <2>2, <3>1, OneBooked
    <3>4. Total(Of(db, "charge", {s})) = Amt(s)["charge"]
      BY <1>1, <2>3, <3>1, OneBooked
    <3>. QED BY <3>2, <3>3, <3>4
  <2>6. N(r) = Says[d].owed /\ N(r) # 0
    <3>1. N(r) = Amt(d)["voiddebt"] /\ N(r) # 0
      BY RowIs
    <3>. QED BY <3>1 DEF Amt
  <2>7. e # d
    BY <2>2, KeptFacts
  <2>8. Says[d].owed + Says[e].owed > Says[s].owed
    BY <2>2, <2>6, <2>7 DEF SettlesWhole
  <2>9. Reversed(db, s) = Says[e].owed
    <3>1. Of(db, "rdebt", {}) = {}
      BY DEF Of
    <3>2. Of(db, "voiddebt", {e}) \cup Of(db, "rdebt", {}) = Of(db, "voiddebt", {e})
      BY <3>1
    <3>. QED BY <2>4, <2>5, <3>2 DEF Reversed
  <2>10. Says[d].owed \in Int /\ Says[e].owed \in Int /\ Says[s].owed \in Int
    BY <1>1, <2>2, SaysFacts
  <2>11. Breaks(r, db)
    BY <1>1, <2>5, <2>6, <2>8, <2>9, <2>10 DEF Breaks, DebtBackBreaks
  <2>. QED BY <1>1, <2>11 DEF Plan
<1>. QED BY <1>2, <1>3, <1>4

\* What is left of a document whose header was refused is refused too.
LEMMA LeftOverRefused ==
    ASSUME db \subseteq Row, BooksKept, SettlesWhole, ~AtOnce, NEW d \in Doc, Absent(d), NEW i \in Whole(d), i # 1
    PROVE  Plan(<<d, i>>, db) \in {"later", "rejected"}
<1> DEFINE r == <<d, i>>
<1>1. Says[d].kind \in {"sale", "void", "refund"}
  BY SaysFacts DEF SettlesWhole
<1>2. Kind(r) \in Kinds(d) /\ Kind(r) # Says[d].kind /\ r[1] = d
  BY RowFacts
<1>3. CASE Says[d].kind \in {"sale", "refund"}
  <2>1. ~Exists(db, d)
    BY HeaderFacts, KeptFacts
  <2>2. Missing(r, db)
    BY <1>2, <1>3, <2>1 DEF Missing, Kinds
  <2>. QED BY <2>2 DEF Plan
<1>4. CASE Says[d].kind = "void"
  BY <1>2, <1>4, GoodsBackOnce, DebtBackOnce DEF Kinds
<1>. QED BY <1>1, <1>3, <1>4

-----------------------------------------------------------------------------
(* What a step leaves alone *)

\* Nothing leaves the books, and an outcome stands.
Grows == db \subseteq db' /\ \A r \in Row : recorded[r] # "none" => recorded'[r] = recorded[r]

LEMMA UndoesSame ==
    ASSUME db' = db
    PROVE  /\ \A d \in Doc : Entered(d)' = Entered(d) /\ Absent(d)' = Absent(d)
           /\ \A k, s : Undoes(k, s)' = Undoes(k, s)
<1>1. \A d \in Doc : Entered(d)' = Entered(d) /\ Absent(d)' = Absent(d)
  BY DEF Entered, Absent
<1>. QED BY <1>1 DEF Undoes

LEMMA SameBooks ==
    ASSUME BooksKept, db' = db
    PROVE  \A d \in Doc : VoidBooked(d)' /\ DebtBooked(d)'
<1> SUFFICES ASSUME NEW d \in Doc PROVE VoidBooked(d)' /\ DebtBooked(d)'
  OBVIOUS
<1>1. VoidBooked(d) /\ DebtBooked(d)
  BY DEF BooksKept
<1>2. /\ \A c \in Doc : Entered(c)' = Entered(c)
      /\ \A k, s : Undoes(k, s)' = Undoes(k, s)
  BY UndoesSame
<1>3. VoidBooked(d)'
  BY <1>1, <1>2, SaysFacts DEF VoidBooked
<1>4. DebtBooked(d)'
  BY <1>1, <1>2 DEF DebtBooked
<1>. QED BY <1>3, <1>4

LEMMA BooksStay ==
    ASSUME BooksKept, db' = db, recorded' = recorded
    PROVE  BooksKept'
<1>1. \A d \in Doc : DocKept(d)
  BY DEF BooksKept
<1>2. \A d \in Doc : DocKept(d)'
  BY <1>1 DEF DocKept, Entered, Absent
<1>. QED BY <1>2, SameBooks DEF BooksKept

LEMMA StaysChecked ==
    ASSUME NEW v \in Worker, txn'[v] = txn[v], txn[v].step \in {"plan", "write"} => txn[v].doc \in Doc,
           Checked(v), db' = db
    PROVE  Checked(v)'
<1>1. /\ \A c \in Doc : Entered(c)' = Entered(c)
      /\ \A k, s : Undoes(k, s)' = Undoes(k, s)
  BY UndoesSame
<1>2. Writes(txn[v])' = Writes(txn[v])
  BY DEF Writes, At
<1>. QED BY <1>1, <1>2, SaysFacts DEF Checked

LEMMA StaysRight ==
    ASSUME Inv, NEW v \in Worker, txn'[v] = txn[v], Grows, GotRight(v), Progress(v)
    PROVE  GotRight(v)' /\ Progress(v)'
<1> DEFINE t == txn[v]
<1>1. Fits(v)
  BY InvParts
<1>2. t.step # "idle" => t.doc \in Doc /\ t.sent \subseteq Whole(t.doc) /\ First(t.doc) \in Row
  BY <1>1, HasRows DEF Fits, Serves
<1>3. GotRight(v)'
  <2>1. \A i \in t.sent : <<t.doc, i>> \in Row
    <3>1. t.step = "idle" => t.sent = {}
      BY <1>1 DEF Fits, Serves
    <3>. QED BY <1>2, <3>1, RowFacts
  <2>2. \A i \in t.sent : t.got[i] \in {"applied", "rejected"} => recorded'[<<t.doc, i>>] = t.got[i]
    BY <2>1 DEF GotRight, Grows
  <2>. QED BY <2>2 DEF GotRight
<1>4. Progress(v)'
  <2>1. CASE t.step \in {"plan", "write"}
    <3>1. InOrder(t) => InOrder(t)'
      BY DEF InOrder, Rows
    <3>2. FoundDone(t) => FoundDone(t)'
      <4>1. Undoes("void", Says[t.doc].of) \subseteq Undoes("void", Says[t.doc].of)'
        BY DEF Grows, Undoes, Entered
      <4>. QED BY <4>1 DEF FoundDone
    <3>3. LeftOver(t) => LeftOver(t)'
      BY <1>2, <2>1 DEF LeftOver, Grows
    <3>4. InOrder(t)' \/ FoundDone(t)' \/ LeftOver(t)'
      BY <2>1, <3>1, <3>2, <3>3 DEF Progress
    <3>. QED BY <2>1, <3>4 DEF Progress
  <2>2. CASE t.step \notin {"plan", "write"}
    BY <2>2 DEF Progress
  <2>. QED BY <2>1, <2>2
<1>. QED BY <1>3, <1>4

LEMMA KeptStep ==
    ASSUME Inv, Kept, NEW w \in Worker, \A v \in Worker \ {w} : txn'[v] = txn[v], Grows,
           BooksKept', ShownRight', Does(w)', \A v \in Worker \ {w} : Checked(v)'
    PROVE  Kept'
<1>1. \A v \in Worker \ {w} : Does(v)'
  BY StaysRight DEF Kept, Does
<1>. QED BY <1>1 DEF Kept

\* A step that enters nothing.
LEMMA KeptBeside ==
    ASSUME Inv, Kept, NEW w \in Worker, \A v \in Worker \ {w} : txn'[v] = txn[v], Grows, db' = db,
           \A d \in Doc : DocKept(d)', ShownRight', Does(w)'
    PROVE  Kept'
<1>1. BooksKept'
  BY SameBooks DEF Kept, BooksKept
<1>2. \A v \in Worker \ {w} : Checked(v)'
  <2>1. \A v \in Worker : txn[v].step \in {"plan", "write"} => txn[v].doc \in Doc
    BY InvParts DEF Fits, Serves
  <2>. QED BY <2>1, StaysChecked DEF Kept, Does
<1>. QED BY <1>1, <1>2, KeptStep

\* A step of a thread that neither enters nor records anything.
LEMMA KeptQuietly ==
    ASSUME Inv, Kept, NEW w \in Worker, NEW s, GoOn(w, s), UNCHANGED <<db, recorded, shown>>,
           Does(w)'
    PROVE  Kept'
<1>1. \A v \in Worker \ {w} : txn'[v] = txn[v]
  BY InvParts, TxnType DEF GoOn
<1>2. Grows
  BY DEF Grows
<1>3. \A d \in Doc : DocKept(d)'
  BY BooksStay DEF Kept, BooksKept
<1>4. ShownRight'
  BY DEF Kept, ShownRight
<1>. QED BY <1>1, <1>2, <1>3, <1>4, KeptBeside

\* What a till shows stays true.
LEMMA ShownStays ==
    ASSUME Inv, Kept, Grows, shown' = shown
    PROVE  ShownRight'
<1> SUFFICES ASSUME NEW r \in Row, shown[r] # "pending" PROVE shown[r] = recorded'[r]
  BY DEF ShownRight
<1>1. shown[r] = recorded[r] /\ recorded[r] # "none"
  BY InvParts DEF Kept, ShownRight, TypeOK
<1>. QED BY <1>1 DEF Grows

-----------------------------------------------------------------------------
(* What a planned row was checked against *)

LEMMA UndoesFacts ==
    ASSUME NEW k, NEW s
    PROVE  /\ Undoes(k, s) \subseteq Doc /\ IsFiniteSet(Undoes(k, s))
           /\ SumOf(Pieces, Undoes(k, s)) \in Int /\ SumOf(Owed, Undoes(k, s)) \in Int
<1>1. Undoes(k, s) \subseteq Doc /\ IsFiniteSet(Undoes(k, s))
  BY RowsFinite, FS_Subset DEF Undoes
<1>2. \A d \in Doc : Pieces[d] \in Int /\ Owed[d] \in Int
  BY SaysFacts DEF Pieces, Owed
<1>. QED BY <1>1, <1>2, SumTakeOut

\* The header of a void.
LEMMA VoidPlanned ==
    ASSUME db \subseteq Row, BooksKept, NEW d \in Doc, Says[d].kind = "void", Plan(First(d), db) = "write"
    PROVE  LET s == Says[d].of IN
           Says[s].kind = "sale" /\ Entered(s) /\ Undoes("void", s) = {} /\ Undoes("refund", s) = {}
<1> DEFINE s == Says[d].of
           r == First(d)
<1>1. s \in Doc /\ r[1] = d /\ Kind(r) = "void"
  BY SaysFacts, VoidBegins DEF First
<1>2. ~Missing(r, db) /\ VoidsOf(db, s) = {} /\ ~Breaks(r, db)
  BY <1>1 DEF Plan
<1>3. Exists(db, s)
  BY <1>1, <1>2 DEF Missing
<1>4. Says[s].kind = "sale" /\ RefundsOf(db, s) = {}
  BY <1>1, <1>2 DEF Breaks, VoidBreaks
<1>. QED BY <1>1, <1>2, <1>3, <1>4, KeptFacts

\* The header of a return.
LEMMA ReturnPlanned ==
    ASSUME db \subseteq Row, BooksKept, NEW d \in Doc, Says[d].kind = "refund", Plan(First(d), db) = "write"
    PROVE  LET s == Says[d].of IN
           /\ Says[s].kind = "sale" /\ Entered(s) /\ Undoes("void", s) = {}
           /\ SumOf(Pieces, Undoes("refund", s)) + Says[d].qty <= Says[s].qty
<1> DEFINE s == Says[d].of
           r == First(d)
<1>1. s \in Doc /\ r[1] = d /\ Kind(r) = "refund" /\ Says[s].qty \in Int /\ Says[d].qty \in Int
  BY SaysFacts, SaleBegins DEF First
<1>2. ~Missing(r, db) /\ ~Breaks(r, db)
  BY <1>1 DEF Plan
<1>3. Exists(db, s)
  BY <1>1, <1>2 DEF Missing
<1>4. ~ReturnBreaks(r, db)
  BY <1>1, <1>2 DEF Breaks
<1>5. /\ Says[s].kind = "sale" /\ VoidsOf(db, s) = {}
      /\ ~(Total(Of(db, "refund", RefundsOf(db, s))) + N(r) > Total(Of(db, "sale", {s})))
  BY <1>1, <1>4 DEF ReturnBreaks
<1>6. Entered(s) /\ Undoes("void", s) = {} /\ RefundsOf(db, s) = Undoes("refund", s)
  BY <1>1, <1>3, <1>5, KeptFacts
<1>7. Total(Of(db, "sale", {s})) = Says[s].qty
  <2>1. "sale" \in Kinds(s) /\ Amt(s)["sale"] = Says[s].qty
    BY <1>5 DEF Kinds, Amt
  <2>. QED BY <1>1, <1>5, <1>6, <2>1, OneBooked
<1>8. N(r) = Says[d].qty
  <2>1. N(r) = Amt(d)["refund"]
    BY <1>1, RowIs, SaleBegins DEF First
  <2>. QED BY <2>1 DEF Amt
<1>9. Total(Of(db, "refund", Undoes("refund", s))) = SumOf(Pieces, Undoes("refund", s))
  <2>1. ASSUME NEW e \in Undoes("refund", s)
        PROVE  e \in Doc /\ Says[e].kind = "refund" /\ Entered(e) /\ "refund" \in Kinds(e)
               /\ Pieces[e] = Amt(e)["refund"]
    <3>1. e \in Doc /\ Says[e].kind = "refund" /\ Entered(e)
      BY DEF Undoes
    <3>. QED BY <3>1 DEF Kinds, Pieces, Amt
  <2>2. \A e \in Undoes("refund", s) : /\ Says[e].kind # "receipt" /\ "refund" \in Kinds(e) /\ Entered(e)
                                       /\ Pieces[e] = Amt(e)["refund"]
    BY <2>1
  <2>. QED BY <2>2, UndoesFacts, TotalBooked
<1>10. SumOf(Pieces, Undoes("refund", s)) \in Int
  BY UndoesFacts
<1>11. ~(SumOf(Pieces, Undoes("refund", s)) + Says[d].qty > Says[s].qty)
  BY <1>5, <1>6, <1>7, <1>8, <1>9
<1>12. SumOf(Pieces, Undoes("refund", s)) + Says[d].qty <= Says[s].qty
  BY <1>1, <1>10, <1>11
<1>. QED BY <1>5, <1>6, <1>12

\* The debt row of a return.
LEMMA DebtPlanned ==
    ASSUME db \subseteq Row, BooksKept, NEW d \in Doc, Says[d].kind = "refund", NEW i \in Whole(d),
           Kind(<<d, i>>) = "rdebt", NEW wrote, wrote \subseteq RowsOf[d], <<d, i>> \notin wrote,
           Says[Says[d].of].kind = "sale", Entered(Says[d].of), Undoes("void", Says[d].of) = {},
           Plan(<<d, i>>, db \cup wrote) = "write"
    PROVE  SumOf(Owed, Undoes("refund", Says[d].of)) + Says[d].owed <= Says[Says[d].of].owed
<1> DEFINE s == Says[d].of
           r == <<d, i>>
           U == Undoes("refund", s)
<1>1. PICK seen : seen = db \cup wrote
  OBVIOUS
<1>2. s \in Doc /\ r[1] = d /\ Says[d].owed \in Int /\ Says[s].owed \in Int /\ seen \subseteq Row
      /\ RowsOf[d] \subseteq Row
  BY <1>1, SaysFacts, WholeFacts
<1>3. ~(Reversed(seen, s) + N(r) > Total(Of(seen, "charge", {s})))
  <2>1. ~Breaks(r, seen)
    BY <1>1 DEF Plan
  <2>2. ~DebtBackBreaks(r, seen)
    BY <2>1 DEF Breaks
  <2>. QED BY <1>2, <2>2 DEF DebtBackBreaks
<1>4. N(r) = Says[d].owed
  <2>1. N(r) = Amt(d)["rdebt"]
    BY RowIs
  <2>. QED BY <2>1 DEF Amt
<1>5. Total(Of(seen, "charge", {s})) = Says[s].owed
  <2>1. "charge" \in Kinds(s) /\ Owed[s] = Amt(s)["charge"] /\ Owed[s] = Says[s].owed
    BY <1>2 DEF Kinds, Amt, Owed
  <2>2. RowsAs(s, "charge") \subseteq seen
    BY <1>1 DEF RowsAs, Entered
  <2>3. \A c \in {s} : /\ Says[c].kind # "receipt" /\ "charge" \in Kinds(c)
                       /\ RowsAs(c, "charge") \subseteq seen /\ Owed[c] = Amt(c)["charge"]
    BY <2>1, <2>2
  <2>4. Total(Of(seen, "charge", {s})) = SumOf(Owed, {s})
    <3>1. PICK ds : ds = {s}
      OBVIOUS
    <3>2. Total(Of(seen, "charge", ds)) = SumOf(Owed, ds)
      BY <1>2, <2>3, <3>1, TotalByDoc
    <3>. QED BY <3>1, <3>2
  <2>5. SumOf(Owed, {s}) = Says[s].owed
    BY <1>2, <2>1, SumOfOne
  <2>. QED BY <2>4, <2>5
<1>6. \A q \in wrote : q[1] = d /\ Kind(q) \in Kinds(d) /\ Kind(q) \notin {"void", "rdebt"}
  <2> SUFFICES ASSUME NEW q \in wrote
               PROVE  q[1] = d /\ Kind(q) \in Kinds(d) /\ Kind(q) \notin {"void", "rdebt"}
    OBVIOUS
  <2>1. PICK j \in Whole(d) : q = <<d, j>>
    BY WholeFacts
  <2>2. q[1] = d /\ Kind(q) \in Kinds(d) /\ Kind(q) # "void"
    BY <2>1, RowFacts DEF Kinds
  <2>3. Kind(q) # "rdebt"
    <3>1. Lists(Amt(d), Kinds(d), Written[d])
      BY WrittenLists
    <3>2. Written[d][i].kind = "rdebt"
      BY DEF Kind
    <3>3. \A a, b \in 1 .. Len(Written[d]) : Written[d][a].kind = Written[d][b].kind => a = b
      BY <3>1 DEF Lists
    <3>4. i \in 1 .. Len(Written[d]) /\ j \in 1 .. Len(Written[d])
      BY <2>1 DEF Whole
    <3>5. Written[d][j].kind = "rdebt" => j = i
      BY <3>2, <3>3, <3>4
    <3>. QED BY <2>1, <3>5 DEF Kind
  <2>. QED BY <2>2, <2>3
<1>7. VoidsOf(seen, s) = {}
  <2> SUFFICES ASSUME NEW e \in VoidsOf(seen, s) PROVE FALSE
    OBVIOUS
  <2>1. e \in Doc /\ Says[e].of = s /\ Of(seen, "void", {e}) # {}
    BY DEF VoidsOf
  <2>2. PICK q \in seen : q[1] = e /\ Kind(q) = "void"
    BY <2>1 DEF Of
  <2>3. q \in db
    BY <1>1, <1>6, <2>2
  <2>4. e \in VoidsOf(db, s)
    BY <2>1, <2>2, <2>3 DEF VoidsOf, Of
  <2>. QED BY <1>2, <2>4, KeptFacts
<1>8. Of(seen, "rdebt", RefundsOf(seen, s)) = Of(db, "rdebt", U)
  <2>1. ASSUME NEW q \in seen, Kind(q) = "rdebt", q[1] \in RefundsOf(seen, s)
        PROVE  q \in db /\ q[1] \in U
    <3>1. q \in db /\ q \in Row
      BY <1>1, <1>2, <1>6, <2>1
    <3>2. PICK e \in Doc : q \in RowsOf[e]
      BY <3>1 DEF Row
    <3>3. q[1] = e /\ Kind(q) \in Kinds(e)
      BY <3>2, WholeFacts, RowFacts
    <3>4. Says[e].kind = "refund"
      BY <2>1, <3>3, SaysFacts DEF Kinds
    <3>5. Says[e].of = s
      BY <2>1, <3>3 DEF RefundsOf
    <3>6. ~Absent(e)
      BY <3>1, <3>2 DEF Absent
    <3>7. Entered(e)
      BY <3>6, KeptFacts
    <3>. QED BY <3>1, <3>3, <3>4, <3>5, <3>7 DEF Undoes
  <2>2. ASSUME NEW q \in db, Kind(q) = "rdebt", q[1] \in U
        PROVE  q \in seen /\ q[1] \in RefundsOf(seen, s)
    <3>1. q[1] \in RefundsOf(db, s)
      BY <1>2, <2>2, KeptFacts
    <3>. QED BY <1>1, <3>1 DEF RefundsOf, Of
  <2> HIDE DEF U
  <2>. QED BY <2>1, <2>2 DEF Of
<1>9. Reversed(seen, s) = SumOf(Owed, U)
  <2>1. Of(seen, "voiddebt", {}) = {}
    BY DEF Of
  <2>2. Of(seen, "voiddebt", {}) \cup Of(db, "rdebt", U) = Of(db, "rdebt", U)
    BY <2>1
  <2>3. Reversed(seen, s) = Total(Of(db, "rdebt", U))
    BY <1>7, <1>8, <2>2 DEF Reversed
  <2>4. ASSUME NEW e \in U
        PROVE  /\ Says[e].kind # "receipt" /\ "rdebt" \in Kinds(e) /\ Entered(e)
               /\ Owed[e] = Amt(e)["rdebt"]
    <3>1. e \in Doc /\ Says[e].kind = "refund" /\ Entered(e)
      BY DEF Undoes
    <3>. QED BY <3>1 DEF Kinds, Owed, Amt
  <2>5. U \subseteq Doc
    BY UndoesFacts
  <2> HIDE DEF U
  <2>6. Total(Of(db, "rdebt", U)) = SumOf(Owed, U)
    BY <2>4, <2>5, TotalBooked
  <2>. QED BY <2>3, <2>6
<1>10. SumOf(Owed, U) \in Int
  BY UndoesFacts
<1> HIDE DEF U
<1>11. SumOf(Owed, U) + Says[d].owed <= Says[s].owed
  BY <1>2, <1>3, <1>4, <1>5, <1>9, <1>10
<1>. QED BY <1>11 DEF U

-----------------------------------------------------------------------------
(* What each step keeps of the books *)

LEMMA PlainDoes ==
    ASSUME NEW w \in Worker, txn'[w].step \notin {"plan", "write"},
           AtOnce /\ txn'[w].step = "settle" => txn'[w].todo = txn'[w].sent, GotRight(w)'
    PROVE  Does(w)'
<1>1. Progress(w)'
  BY DEF Progress
<1>2. Checked(w)'
  BY DEF Checked
<1>. QED BY <1>1, <1>2 DEF Does

LEMMA PushKept == ASSUME Inv, Kept, NEW w \in Worker, NEW d \in Doc, Push(w, d) PROVE Kept'
<1>1. PICK P : P = Pending(d)
  OBVIOUS
<1>2. P \subseteq 1 .. MaxRows
  BY <1>1, WholeFacts DEF Pending, Whole
<1>3. PICK s : s = [Idle EXCEPT !.doc = d, !.step = "look", !.todo = P, !.sent = P]
  OBVIOUS
<1>4. s.step = "look" /\ s.sent = P /\ \A i \in P : s.got[i] = "none"
  BY <1>2, <1>3 DEF Idle
<1>5. GoOn(w, s) /\ UNCHANGED <<db, recorded, shown>>
  BY <1>1, <1>3 DEF Push
<1>6. txn'[w] = s
  BY <1>5, InvParts, TxnType DEF GoOn
<1>7. GotRight(w)'
  BY <1>4, <1>6 DEF GotRight
<1>8. Does(w)'
  BY <1>4, <1>6, <1>7, PlainDoes
<1>. QED BY <1>5, <1>8, KeptQuietly

LEMMA LookKept == ASSUME Inv, Kept, NEW w \in Worker, Look(w) PROVE Kept'
<1> DEFINE t == txn[w]
           alone == Recorded(t) # {} \/ Cardinality(t.sent) = 1
<1>1. /\ Fits(w) /\ t \in Txn /\ txn \in [Worker -> Txn] /\ t.step = "look" /\ FirstRecorded
  BY InvParts, TxnType DEF Look
<1>2. /\ t.doc \in Doc /\ t.sent # {} /\ t.sent \subseteq Whole(t.doc) /\ t.todo = t.sent /\ t.wrote = {}
      /\ t.sent = Whole(t.doc) \/ recorded[First(t.doc)] # "none"
  BY <1>1 DEF Fits, Serves, Fresh, FirstSent
<1>3. PICK s : s = [t EXCEPT !.step = IF alone THEN "singly" ELSE "plan"]
  OBVIOUS
<1>4. /\ s.doc = t.doc /\ s.step = (IF alone THEN "singly" ELSE "plan") /\ s.todo = t.todo
      /\ s.sent = t.sent /\ s.wrote = {} /\ s.got = t.got
  BY <1>1, <1>2, <1>3 DEF Txn
<1>5. GoOn(w, s) /\ UNCHANGED <<db, recorded, shown>>
  BY <1>3 DEF Look
<1>6. txn'[w] = s
  BY <1>1, <1>5 DEF GoOn
<1>7. GotRight(w)'
  <2>1. GotRight(w)
    BY DEF Kept, Does
  <2>. QED BY <1>4, <1>5, <1>6, <2>1 DEF GotRight
<1>8. CASE alone
  <2>1. txn'[w].step = "singly"
    BY <1>4, <1>6, <1>8
  <2>2. Does(w)'
    BY <1>7, <2>1, PlainDoes
  <2>. QED BY <1>5, <2>2, KeptQuietly
<1>9. CASE ~alone
  <2>1. \A i \in t.sent : recorded[<<t.doc, i>>] = "none"
    BY <1>9 DEF Recorded
  <2>2. ASSUME t.sent = Whole(t.doc) PROVE InOrder(txn[w])'
    <3>1. Rows(s, s.sent \ s.todo) = {}
      BY <1>2, <1>4 DEF Rows
    <3>2. InOrder(s)
      BY <1>2, <1>4, <2>2, <3>1 DEF InOrder
    <3>3. InOrder(txn[w])'
      BY <1>6, <3>2 DEF InOrder, Rows
    <3>. QED BY <3>3
  <2>3. ASSUME t.sent # Whole(t.doc) PROVE LeftOver(txn[w])'
    <3>1. PICK i \in t.sent : recorded[<<t.doc, i>>] = "none"
      BY <1>2, <2>1
    <3>2. <<t.doc, i>> \in RowsOf[t.doc] /\ First(t.doc) \in RowsOf[t.doc]
      BY <1>2, RowFacts, HasRows
    <3>3. DocKept(t.doc)
      BY <1>2 DEF Kept, BooksKept
    <3>4. recorded[First(t.doc)] = "rejected" /\ ~AtOnce
      BY <1>2, <2>3, <3>1, <3>2, <3>3 DEF DocKept
    <3>5. 1 \notin t.sent
      BY <2>1, <3>4 DEF First
    <3>6. LeftOver(txn[w])'
      BY <1>2, <1>4, <1>5, <1>6, <1>9, <3>4, <3>5 DEF LeftOver
    <3>. QED BY <3>6
  <2>4. InOrder(txn[w])' \/ LeftOver(txn[w])'
    BY <2>2, <2>3
  <2>5. Progress(w)'
    BY <1>4, <1>6, <1>9, <2>4 DEF Progress
  <2>6. Checked(w)'
    BY <1>4, <1>6, <1>9 DEF Checked
  <2>7. Does(w)'
    BY <1>7, <2>5, <2>6 DEF Does
  <2>. QED BY <1>5, <2>7, KeptQuietly
<1>. QED BY <1>8, <1>9

\* A transaction that is rolled back.
LEMMA RolledBackKept ==
    ASSUME Inv, Kept, NEW w \in Worker, NEW s, GoOn(w, s), UNCHANGED <<db, recorded, shown>>,
           s.doc = txn[w].doc, s.sent = txn[w].sent, s.todo = s.sent, s.step \in {"settle", "singly", "answer"},
           \A i \in s.sent : s.got[i] \in {txn[w].got[i], "later"}
    PROVE  Kept'
<1>1. txn'[w] = s
  BY InvParts, TxnType DEF GoOn
<1>2. GotRight(w)
  BY DEF Kept, Does
<1>3. GotRight(w)'
  BY <1>1, <1>2 DEF GotRight
<1>. QED BY <1>1, <1>3, PlainDoes, KeptQuietly

\* The next row of a document that goes on in order.
LEMMA NextChecked ==
    ASSUME Inv, Kept, NEW w \in Worker, txn[w].step = "plan", txn[w].todo # {}, InOrder(txn[w]),
           Plan(<<txn[w].doc, At(txn[w])>>, db \cup txn[w].wrote) = "write"
    PROVE  LET t == txn[w]
               d == t.doc
               s == Says[d].of IN
           /\ Says[d].kind \in {"void", "refund"} =>
                Says[s].kind = "sale" /\ Entered(s) /\ Undoes("void", s) = {}
           /\ Says[d].kind = "void" => Undoes("refund", s) = {}
           /\ Says[d].kind = "refund" =>
                /\ SumOf(Pieces, Undoes("refund", s)) + Says[d].qty <= Says[s].qty
                /\ (\E r \in t.wrote \cup {<<d, At(t)>>} : Kind(r) = "rdebt") =>
                     SumOf(Owed, Undoes("refund", s)) + Says[d].owed <= Says[s].owed
<1> DEFINE t == txn[w]
           d == t.doc
           i == At(t)
           r == <<d, i>>
<1>1. /\ TypeOK /\ db \subseteq Row /\ BooksKept /\ Fits(w) /\ Checked(w)
      /\ t.doc \in Doc /\ t.sent = Whole(d) /\ t.todo \subseteq t.sent /\ t.todo \subseteq 1 .. MaxRows
      /\ t.wrote = Rows(t, t.sent \ t.todo)
  BY InvParts, TxnType DEF TypeOK, Fits, Serves, Kept, Does, InOrder
<1>2. i \in t.todo /\ i \in Whole(d) /\ (1 \in t.todo => i = 1)
  BY <1>1, AtFacts
<1>3. CASE 1 \in t.todo
  <2>1. t.wrote = {}
    BY <1>1, <1>3 DEF InOrder, Rows
  <2>2. r = First(d) /\ Plan(First(d), db) = "write" /\ t.wrote \cup {r} = {First(d)}
    BY <1>2, <1>3, <2>1 DEF First
  <2>3. Says[d].kind = "refund" => Kind(First(d)) # "rdebt"
    BY <1>1, SaleBegins
  <2>. QED BY <1>1, <2>2, <2>3, VoidPlanned, ReturnPlanned
<1>4. CASE 1 \notin t.todo
  <2>1. First(d) \in t.wrote
    <3>1. 1 \in t.sent \ t.todo
      BY <1>1, <1>4, HasRows
    <3>. QED BY <1>1, <3>1 DEF Rows, First
  <2>2. Writes(t) = t.wrote
    BY DEF Writes
  <2>3. /\ Says[d].kind \in {"void", "refund"} =>
             Says[Says[d].of].kind = "sale" /\ Entered(Says[d].of) /\ Undoes("void", Says[d].of) = {}
        /\ Says[d].kind = "void" => Undoes("refund", Says[d].of) = {}
        /\ Says[d].kind = "refund" =>
             /\ SumOf(Pieces, Undoes("refund", Says[d].of)) + Says[d].qty <= Says[Says[d].of].qty
             /\ (\E q \in t.wrote : Kind(q) = "rdebt") =>
                  SumOf(Owed, Undoes("refund", Says[d].of)) + Says[d].owed <= Says[Says[d].of].owed
    BY <1>1, <2>1, <2>2 DEF Checked
  <2>4. ASSUME Says[d].kind = "refund", Kind(r) = "rdebt"
        PROVE  SumOf(Owed, Undoes("refund", Says[d].of)) + Says[d].owed <= Says[Says[d].of].owed
    <3>1. t.wrote \subseteq RowsOf[d] /\ r \notin t.wrote
      BY <1>1, <1>2, WholeFacts DEF Rows
    <3>. QED BY <1>1, <1>2, <2>3, <2>4, <3>1, DebtPlanned
  <2>. QED BY <2>3, <2>4
<1>. QED BY <1>3, <1>4

LEMMA PlanRowKept == ASSUME Inv, Kept, SettlesWhole, NEW w \in Worker, PlanRow(w) PROVE Kept'
<1> DEFINE t == txn[w]
           d == t.doc
           r == <<d, At(t)>>
           plan == Plan(r, db \cup t.wrote)
<1>1. /\ TypeOK /\ db \subseteq Row /\ BooksKept /\ Fits(w) /\ t \in Txn /\ txn \in [Worker -> Txn]
      /\ t.step = "plan" /\ t.todo # {} /\ GotRight(w) /\ Progress(w)
      /\ UNCHANGED <<db, recorded, shown, waits, denied, loose, faults>>
  BY InvParts, TxnType DEF PlanRow, TypeOK, Kept, Does
<1>2. /\ d \in Doc /\ t.sent \subseteq Whole(d) /\ t.todo \subseteq t.sent /\ t.todo \subseteq 1 .. MaxRows
  BY <1>1, TxnType DEF Fits, Serves
<1>3. At(t) \in t.todo /\ At(t) \in Whole(d) /\ (1 \in t.todo => At(t) = 1)
  BY <1>1, <1>2, AtFacts
<1>4. PICK H : H = t.held \cup Headers(Reads(r))
  OBVIOUS
<1>5. plan \in {"write", "noop", "rejected", "later"}
  BY DEF Plan
<1>6. GoOn(w, CASE plan = "write"    -> [[t EXCEPT !.held = H] EXCEPT !.step = "write"]
                [] plan = "noop"     -> [[t EXCEPT !.held = H] EXCEPT !.todo = @ \ {At(t)}]
                [] plan = "rejected" -> RollBack(t, "settle")
                [] plan = "later"    -> ForNow(t))
  BY <1>4 DEF PlanRow
<1>7. ASSUME plan \in {"write", "noop"}
      PROVE  InOrder(t)
  <2>1. CASE FoundDone(t)
    <3>1. /\ Says[d].kind = "void" /\ t.wrote = {} /\ t.sent = Whole(d) /\ t.todo = t.sent \ {1}
          /\ Undoes("void", Says[d].of) # {}
      BY <2>1 DEF FoundDone
    <3>2. PICK e \in Undoes("void", Says[d].of) : TRUE
      BY <3>1
    <3>3. Says[Says[d].of].kind = "sale"
      BY <1>1, <3>2 DEF BooksKept, VoidBooked, Undoes
    <3>4. 2 \in Whole(d) /\ Written[d][2].kind = "voidback"
      BY <1>2, <3>1, <3>3, SaysFacts, DocsAssumption, SecondOfVoid
    <3>5. At(t) = 2
      <4>1. 2 \in t.todo /\ At(t) # 1 /\ At(t) <= 2 /\ At(t) \in 1 .. MaxRows
        BY <1>1, <1>2, <1>3, <3>1, <3>4, AtFacts
      <4>. QED BY <4>1
    <3>6. Kind(r) = "voidback"
      BY <3>4, <3>5 DEF Kind
    <3>7. db \cup t.wrote = db
      BY <3>1
    <3>. QED BY <1>1, <1>2, <1>3, <1>7, <3>1, <3>6, <3>7, GoodsBackOnce
  <2>2. CASE LeftOver(t)
    <3>1. ~AtOnce /\ t.wrote = {} /\ At(t) # 1 /\ recorded[First(d)] = "rejected"
      BY <1>2, <1>3, <2>2 DEF LeftOver
    <3>2. Absent(d)
      BY <1>1, <1>2, <3>1, HasRows DEF BooksKept, DocKept
    <3>3. db \cup t.wrote = db
      BY <3>1
    <3>. QED BY <1>1, <1>2, <1>3, <1>7, <3>1, <3>2, <3>3, LeftOverRefused
  <2>. QED BY <1>1, <2>1, <2>2 DEF Progress
<1>8. ASSUME plan = "noop"
      PROVE  /\ 1 \in t.todo /\ At(t) = 1 /\ t.wrote = {} /\ Says[d].kind = "void"
             /\ Undoes("void", Says[d].of) # {}
  <2>1. InOrder(t) /\ Kind(r) = "void" /\ VoidsOf(db \cup t.wrote, Says[d].of) # {}
    BY <1>7, <1>8 DEF Plan
  <2>2. Kind(r) \in Kinds(d) /\ (Kind(r) = Says[d].kind => At(t) = 1)
    BY <1>2, <1>3, RowFacts
  <2>3. Says[d].kind = "void" /\ At(t) = 1
    BY <1>2, <2>1, <2>2, SaysFacts DEF Kinds
  <2>4. t.wrote = {}
    BY <1>3, <2>1, <2>3 DEF InOrder, Rows
  <2>5. db \cup t.wrote = db
    BY <2>4
  <2>6. Undoes("void", Says[d].of) # {}
    BY <1>1, <1>2, <2>1, <2>5, KeptFacts, SaysFacts
  <2>. QED BY <1>3, <2>3, <2>4, <2>6
<1>9. ASSUME plan = "write"
      PROVE  /\ InOrder(t)
             /\ Says[d].kind \in {"void", "refund"} =>
                  Says[Says[d].of].kind = "sale" /\ Entered(Says[d].of) /\ Undoes("void", Says[d].of) = {}
             /\ Says[d].kind = "void" => Undoes("refund", Says[d].of) = {}
             /\ Says[d].kind = "refund" =>
                  /\ SumOf(Pieces, Undoes("refund", Says[d].of)) + Says[d].qty <= Says[Says[d].of].qty
                  /\ (\E q \in t.wrote \cup {r} : Kind(q) = "rdebt") =>
                       SumOf(Owed, Undoes("refund", Says[d].of)) + Says[d].owed <= Says[Says[d].of].owed
  BY <1>1, <1>7, <1>9, NextChecked
<1> HIDE DEF plan
<1>10. CASE plan = "write"
  <2>1. PICK s : s = [[t EXCEPT !.held = H] EXCEPT !.step = "write"]
    OBVIOUS
  <2>2. /\ s.doc = d /\ s.step = "write" /\ s.todo = t.todo /\ s.sent = t.sent
        /\ s.wrote = t.wrote /\ s.got = t.got
    BY <1>1, <2>1 DEF Txn
  <2>3. GoOn(w, s) /\ txn'[w] = s
    BY <1>1, <1>6, <1>10, <2>1 DEF GoOn
  <2>4. GotRight(w)'
    BY <1>1, <2>2, <2>3 DEF GotRight
  <2>5. Progress(w)'
    <3>1. InOrder(s)
      BY <1>9, <1>10, <2>2 DEF InOrder, Rows
    <3>2. InOrder(txn[w])'
      BY <2>3, <3>1 DEF InOrder, Rows
    <3>. QED BY <2>2, <2>3, <3>2 DEF Progress
  <2>6. Checked(w)'
    <3>1. /\ \A c \in Doc : Entered(c)' = Entered(c)
          /\ \A k, c : Undoes(k, c)' = Undoes(k, c)
      BY <1>1, UndoesSame
    <3>2. Writes(txn[w])' = t.wrote \cup {r}
      <4>1. At(s) = At(t)
        BY <2>2 DEF At
      <4>2. Writes(s) = t.wrote \cup {r}
        BY <2>2, <4>1 DEF Writes
      <4>3. Writes(txn[w])' = Writes(s)
        BY <2>3 DEF Writes, At
      <4>. QED BY <4>2, <4>3
    <3>3. txn'[w].doc = d
      BY <2>2, <2>3
    <3>. QED BY <1>2, <1>9, <1>10, <3>1, <3>2, <3>3, SaysFacts DEF Checked
  <2>7. Does(w)'
    BY <2>4, <2>5, <2>6 DEF Does
  <2>. QED BY <1>1, <2>3, <2>7, KeptQuietly
<1>11. CASE plan = "noop"
  <2>1. PICK s : s = [[t EXCEPT !.held = H] EXCEPT !.todo = @ \ {At(t)}]
    OBVIOUS
  <2>2. /\ s.doc = d /\ s.step = "plan" /\ s.todo = t.todo \ {1} /\ s.sent = t.sent
        /\ s.wrote = {} /\ s.got = t.got
    BY <1>1, <1>8, <1>11, <2>1 DEF Txn
  <2>3. GoOn(w, s) /\ txn'[w] = s
    BY <1>1, <1>6, <1>11, <2>1 DEF GoOn
  <2>4. GotRight(w)'
    BY <1>1, <2>2, <2>3 DEF GotRight
  <2>5. Progress(w)'
    <3>1. t.todo = t.sent /\ t.sent = Whole(d)
      BY <1>7, <1>8, <1>11 DEF InOrder
    <3>2. PICK c : c = Says[d].of
      OBVIOUS
    <3>3. Undoes("void", c)' # {}
      BY <1>1, <1>8, <1>11, <3>2, UndoesSame
    <3>4. FoundDone(txn[w])'
      BY <1>8, <1>11, <2>2, <2>3, <3>1, <3>2, <3>3 DEF FoundDone
    <3>. QED BY <2>2, <2>3, <3>4 DEF Progress
  <2>6. Checked(w)'
    BY <2>2, <2>3 DEF Checked
  <2>7. Does(w)'
    BY <2>4, <2>5, <2>6 DEF Does
  <2>. QED BY <1>1, <2>3, <2>7, KeptQuietly
<1>12. CASE plan = "rejected"
  BY <1>1, <1>6, <1>12, RollBackType, RolledBackKept DEF Step
<1>13. CASE plan = "later"
  BY <1>1, <1>6, <1>13, ForNowType, RolledBackKept
<1>. QED BY <1>5, <1>10, <1>11, <1>12, <1>13

LEMMA WriteRowKept == ASSUME Inv, Kept, NEW w \in Worker, WriteRow(w) PROVE Kept'
<1> DEFINE t == txn[w]
           d == t.doc
           r == <<d, At(t)>>
<1>1. /\ TypeOK /\ Fits(w) /\ t \in Txn /\ txn \in [Worker -> Txn] /\ t.step = "write"
      /\ GotRight(w) /\ Progress(w) /\ Checked(w)
      /\ UNCHANGED <<db, recorded, shown, waits, denied, loose, faults>>
  BY InvParts, TxnType DEF WriteRow, Kept, Does
<1>2. /\ d \in Doc /\ t.sent \subseteq Whole(d) /\ t.todo \subseteq t.sent /\ t.todo # {}
      /\ t.todo \subseteq 1 .. MaxRows /\ InOrder(t)
  BY <1>1, TxnType DEF Fits, Serves, Progress, FoundDone, LeftOver
<1>3. At(t) \in t.todo /\ (1 \in t.todo => At(t) = 1)
  BY <1>2, AtFacts
<1>4. CASE r \in db
  <2>1. CASE Recorded(t) # {}
    BY <1>1, <1>4, <2>1, RollBackType, RolledBackKept DEF WriteRow, Step
  <2>2. CASE Recorded(t) = {}
    BY <1>1, <1>4, <2>2, ForNowType, RolledBackKept DEF WriteRow
  <2>. QED BY <2>1, <2>2
<1>5. CASE r \notin db
  <2>1. PICK s : s = [t EXCEPT !.step = "plan", !.wrote = @ \cup {r}, !.todo = @ \ {At(t)}]
    OBVIOUS
  <2>2. /\ s.doc = d /\ s.step = "plan" /\ s.todo = t.todo \ {At(t)} /\ s.sent = t.sent
        /\ s.wrote = t.wrote \cup {r} /\ s.got = t.got
    BY <1>1, <2>1 DEF Txn
  <2>3. GoOn(w, s) /\ txn'[w] = s
    BY <1>1, <1>5, <2>1 DEF GoOn, WriteRow
  <2>4. GotRight(w)'
    BY <1>1, <2>2, <2>3 DEF GotRight
  <2>5. Progress(w)'
    <3>1. s.sent \ s.todo = (t.sent \ t.todo) \cup {At(t)}
      BY <1>2, <1>3, <2>2
    <3>2. Rows(s, s.sent \ s.todo) = Rows(t, t.sent \ t.todo) \cup {r}
      BY <2>2, <3>1 DEF Rows
    <3>3. InOrder(s)
      BY <1>2, <1>3, <2>2, <3>2 DEF InOrder
    <3>4. InOrder(txn[w])'
      BY <2>3, <3>3 DEF InOrder, Rows
    <3>. QED BY <2>2, <2>3, <3>4 DEF Progress
  <2>6. Checked(w)'
    <3>1. /\ \A c \in Doc : Entered(c)' = Entered(c)
          /\ \A k, c : Undoes(k, c)' = Undoes(k, c)
      BY <1>1, UndoesSame
    <3>2. Writes(txn[w])' = Writes(t)
      BY <1>1, <2>2, <2>3 DEF Writes
    <3>3. txn'[w].doc = d
      BY <2>2, <2>3
    <3>. QED BY <1>1, <1>2, <3>1, <3>2, <3>3, SaysFacts DEF Checked
  <2>7. Does(w)'
    BY <2>4, <2>5, <2>6 DEF Does
  <2>. QED BY <1>1, <2>3, <2>7, KeptQuietly
<1>. QED BY <1>4, <1>5

\* One more document is summed up.
LEMMA SumWith ==
    ASSUME NEW U, U \subseteq Doc, NEW d \in Doc, d \notin U
    PROVE  /\ SumOf(Owed, U \cup {d}) = SumOf(Owed, U) + Says[d].owed
           /\ SumOf(Pieces, U \cup {d}) = SumOf(Pieces, U) + Says[d].qty
<1>1. PICK S : S = U \cup {d}
  OBVIOUS
<1>2. IsFiniteSet(S) /\ IsFiniteSet(U) /\ S \ {d} = U /\ d \in S
  <2>1. S \subseteq Doc /\ IsFiniteSet(Doc)
    BY <1>1, RowsFinite
  <2>. QED BY <1>1, <2>1, FS_Subset
<1>3. /\ \A x \in S : Owed[x] \in Int /\ Pieces[x] \in Int
      /\ Owed[d] = Says[d].owed /\ Pieces[d] = Says[d].qty
  BY <1>1, SaysFacts DEF Owed, Pieces
<1>4. SumOf(Owed, S) = Owed[d] + SumOf(Owed, U) /\ SumOf(Owed, U) \in Int
  BY <1>1, <1>2, <1>3, SumTakeOut
<1>5. SumOf(Pieces, S) = Pieces[d] + SumOf(Pieces, U) /\ SumOf(Pieces, U) \in Int
  BY <1>1, <1>2, <1>3, SumTakeOut
<1>6. Says[d].owed \in Int /\ Says[d].qty \in Int
  BY SaysFacts
<1>. QED BY <1>1, <1>3, <1>4, <1>5, <1>6

\* What a transaction commits is a whole document that was not in the books, and what its
\* header and its debt row were checked against holds.
LEMMA Commits ==
    ASSUME Inv, Kept, NEW w \in Worker, Commit(w), Recorded(txn[w]) = {}
    PROVE  LET d == txn[w].doc
               s == Says[d].of IN
           /\ d \in Doc /\ s \in Doc /\ Absent(d) /\ Rows(txn[w], txn[w].sent) = RowsOf[d]
           /\ \A r \in RowsOf[d] : recorded[r] = "none"
           /\ db' = db \cup RowsOf[d]
           /\ recorded' = [r \in Row |-> IF r \in RowsOf[d] THEN "applied" ELSE recorded[r]]
           /\ Says[d].kind = "void" =>
                /\ Says[s].kind = "sale" /\ Entered(s) /\ s \in txn[w].held
                /\ Undoes("void", s) = {} /\ Undoes("refund", s) = {}
           /\ Says[d].kind = "refund" =>
                /\ Says[s].kind = "sale" /\ Entered(s) /\ s \in txn[w].held
                /\ Undoes("void", s) = {}
                /\ SumOf(Pieces, Undoes("refund", s)) + Says[d].qty <= Says[s].qty
                /\ SumOf(Owed, Undoes("refund", s)) + Says[d].owed <= Says[s].owed
<1> DEFINE t == txn[w]
           d == t.doc
           s == Says[d].of
<1>1. /\ TypeOK /\ BooksKept /\ Fits(w) /\ Progress(w) /\ Checked(w) /\ t.step = "plan" /\ t.todo = {}
  BY InvParts DEF Commit, Kept, Does
<1>2. d \in Doc /\ s \in Doc /\ t.sent # {} /\ t.sent \subseteq Whole(d)
  BY <1>1, SaysFacts DEF Fits, Serves
<1>3. InOrder(t)
  <2>1. ~LeftOver(t)
    BY <1>1, <1>2 DEF LeftOver
  <2>2. ASSUME FoundDone(t) PROVE FALSE
    <3>1. /\ Says[d].kind = "void" /\ t.sent = Whole(d) /\ t.todo = t.sent \ {1} /\ Undoes("void", s) # {}
      BY <2>2 DEF FoundDone
    <3>2. PICK e \in Undoes("void", s) : TRUE
      BY <3>1
    <3>3. Says[s].kind = "sale"
      BY <1>1, <3>2 DEF BooksKept, VoidBooked, Undoes
    <3>4. 2 \in Whole(d)
      BY <1>2, <3>1, <3>3, SaysFacts, DocsAssumption, SecondOfVoid
    <3>. QED BY <1>1, <3>1, <3>4
  <2>. QED BY <1>1, <2>1, <2>2 DEF Progress
<1>4. t.sent = Whole(d) /\ t.wrote = Rows(t, t.sent) /\ Rows(t, t.sent) = RowsOf[d]
  <2>1. t.sent \ t.todo = t.sent
    BY <1>1
  <2>2. t.sent = Whole(d) /\ t.wrote = Rows(t, t.sent)
    BY <1>3, <2>1 DEF InOrder
  <2>. QED BY <1>2, <2>2, WholeFacts DEF Rows
<1>5. Absent(d)
  BY <1>1, <1>4 DEF Fits, NewRows, Absent
<1>6. \A r \in RowsOf[d] : recorded[r] = "none"
  <2>1. \A i \in t.sent : recorded[<<d, i>>] = "none"
    BY DEF Recorded
  <2>. QED BY <1>4, <2>1 DEF Rows
<1>7. /\ db' = db \cup RowsOf[d]
      /\ recorded' = [r \in Row |-> IF r \in RowsOf[d] THEN "applied" ELSE recorded[r]]
  BY <1>4 DEF Commit
<1>8. t.wrote # {} /\ Writes(t) = RowsOf[d]
  BY <1>1, <1>2, <1>4, HasRows DEF Writes
<1>9. CASE Says[d].kind = "void"
  <2>1. s \in t.held
    BY <1>1, <1>8, <1>9 DEF Fits, Prepared
  <2>. QED BY <1>1, <1>2, <1>4, <1>5, <1>6, <1>7, <1>8, <1>9, <2>1 DEF Checked
<1>10. CASE Says[d].kind = "refund"
  <2>1. s \in t.held
    BY <1>1, <1>8, <1>10 DEF Fits, Prepared
  <2>2. /\ Says[s].kind = "sale" /\ Entered(s) /\ Undoes("void", s) = {}
        /\ SumOf(Pieces, Undoes("refund", s)) + Says[d].qty <= Says[s].qty
        /\ (\E r \in RowsOf[d] : Kind(r) = "rdebt") =>
             SumOf(Owed, Undoes("refund", s)) + Says[d].owed <= Says[s].owed
    BY <1>1, <1>8, <1>10 DEF Checked
  <2>3. SumOf(Owed, Undoes("refund", s)) + Says[d].owed <= Says[s].owed
    <3>1. CASE \E r \in RowsOf[d] : Kind(r) = "rdebt"
      BY <2>2, <3>1
    <3>2. CASE ~\E r \in RowsOf[d] : Kind(r) = "rdebt"
      <4>1. "rdebt" \in Kinds(d) /\ Amt(d)["rdebt"] = Says[d].owed /\ RowsAs(d, "rdebt") = {}
        BY <1>10, <3>2 DEF Kinds, Amt, RowsAs
      <4>2. Says[d].owed = 0
        BY <1>2, <1>10, <4>1, OneKind
      <4>3. SumOf(Owed, Undoes("refund", s)) <= Says[s].owed
        BY <1>1, <1>2 DEF BooksKept, DebtBooked
      <4>4. SumOf(Owed, Undoes("refund", s)) \in Int
        BY UndoesFacts
      <4>. QED BY <4>2, <4>3, <4>4
    <3>. QED BY <3>1, <3>2
  <2>. QED BY <1>2, <1>4, <1>5, <1>6, <1>7, <1>10, <2>1, <2>2, <2>3
<1>. QED BY <1>2, <1>4, <1>5, <1>6, <1>7, <1>9, <1>10

LEMMA EntersOne ==
    ASSUME NEW d \in Doc, db' = db \cup RowsOf[d]
    PROVE  /\ \A c \in Doc : Entered(c)' <=> Entered(c) \/ c = d
           /\ \A c \in Doc : c # d => Absent(c)' = Absent(c)
           /\ \A k, s : Undoes(k, s)' = IF Says[d].kind = k /\ Says[d].of = s THEN Undoes(k, s) \cup {d}
                                        ELSE Undoes(k, s)
<1>1. ASSUME NEW c \in Doc, c # d
      PROVE  RowsOf[c] \cap RowsOf[d] = {}
  BY <1>1, WholeFacts
<1>2. \A c \in Doc : Entered(c)' <=> Entered(c) \/ c = d
  BY <1>1 DEF Entered
<1>3. \A c \in Doc : c # d => Absent(c)' = Absent(c)
  BY <1>1 DEF Absent
<1>4. \A k, s : Undoes(k, s)' = IF Says[d].kind = k /\ Says[d].of = s THEN Undoes(k, s) \cup {d}
                                ELSE Undoes(k, s)
  BY <1>2 DEF Undoes
<1>. QED BY <1>2, <1>3, <1>4

LEMMA CommitBooks ==
    ASSUME Inv, Kept, NEW w \in Worker, Commit(w), Recorded(txn[w]) = {}
    PROVE  BooksKept' /\ Grows
<1>0. PICK d : d = txn[w].doc
  OBVIOUS
<1>1. PICK s : s = Says[d].of
  OBVIOUS
<1>2. /\ d \in Doc /\ s \in Doc /\ Absent(d) /\ \A r \in RowsOf[d] : recorded[r] = "none"
      /\ db' = db \cup RowsOf[d]
      /\ recorded' = [r \in Row |-> IF r \in RowsOf[d] THEN "applied" ELSE recorded[r]]
      /\ Says[d].kind = "void" =>
           Says[s].kind = "sale" /\ Entered(s) /\ Undoes("void", s) = {} /\ Undoes("refund", s) = {}
      /\ Says[d].kind = "refund" =>
           Undoes("void", s) = {} /\ SumOf(Owed, Undoes("refund", s)) + Says[d].owed <= Says[s].owed
  BY <1>0, <1>1, Commits
<1>3. /\ \A c \in Doc : Entered(c)' <=> Entered(c) \/ c = d
      /\ \A c \in Doc : c # d => Absent(c)' = Absent(c)
      /\ \A k, a : Undoes(k, a)' = IF Says[d].kind = k /\ Says[d].of = a THEN Undoes(k, a) \cup {d}
                                   ELSE Undoes(k, a)
  BY <1>2, EntersOne
<1>4. BooksKept /\ ~Entered(d)
  BY <1>2, HasRows DEF Kept, Absent, Entered
<1>5. ASSUME NEW c \in Doc PROVE DocKept(c)'
  <2>1. CASE c = d
    <3>1. \A r \in RowsOf[c] : recorded'[r] = "applied"
      BY <1>2, <2>1, HasRows
    <3>. QED BY <1>3, <2>1, <3>1 DEF DocKept
  <2>2. CASE c # d
    <3>1. \A r \in RowsOf[c] : recorded'[r] = recorded[r]
      BY <1>2, <2>2, WholeFacts
    <3>2. DocKept(c)
      BY <1>4 DEF BooksKept
    <3>. QED BY <1>3, <2>2, <3>1, <3>2 DEF DocKept
  <2>. QED BY <2>1, <2>2
<1>6. ASSUME NEW c \in Doc PROVE VoidBooked(c)'
  <2>1. SUFFICES ASSUME Says[c].kind = "void", Entered(c)'
                 PROVE  /\ Says[Says[c].of].kind = "sale" /\ Entered(Says[c].of)'
                        /\ Undoes("refund", Says[c].of)' = {} /\ Undoes("void", Says[c].of)' = {c}
    BY DEF VoidBooked
  <2>2. CASE c = d
    BY <1>1, <1>2, <1>3, <2>1, <2>2
  <2>3. CASE c # d
    <3>1. PICK a \in Doc : a = Says[c].of
      BY SaysFacts
    <3>2. Entered(c)
      BY <1>3, <2>1, <2>3
    <3>3. /\ Says[a].kind = "sale" /\ Entered(a) /\ Undoes("refund", a) = {} /\ Undoes("void", a) = {c}
      BY <1>4, <2>1, <3>1, <3>2 DEF BooksKept, VoidBooked
    <3>4. ~(Says[d].kind \in {"void", "refund"} /\ Says[d].of = a)
      BY <1>1, <1>2, <3>3
    <3>5. Entered(a)' /\ Undoes("refund", a)' = {} /\ Undoes("void", a)' = {c}
      BY <1>3, <3>3, <3>4
    <3>. QED BY <3>1, <3>3, <3>5
  <2>. QED BY <2>2, <2>3
<1>7. ASSUME NEW a \in Doc PROVE DebtBooked(a)'
  <2>1. DebtBooked(a)
    BY <1>4 DEF BooksKept
  <2>2. CASE Says[d].kind = "refund" /\ s = a
    <3>1. Undoes("refund", a)' = Undoes("refund", a) \cup {d} /\ d \notin Undoes("refund", a)
      BY <1>1, <1>3, <1>4, <2>2 DEF Undoes
    <3>2. SumOf(Owed, Undoes("refund", a) \cup {d}) = SumOf(Owed, Undoes("refund", a)) + Says[d].owed
      BY <1>2, <3>1, UndoesFacts, SumWith
    <3>3. SumOf(Owed, Undoes("refund", a)') <= Says[a].owed
      BY <1>2, <2>2, <3>1, <3>2
    <3>. QED BY <3>3 DEF DebtBooked
  <2>3. CASE ~(Says[d].kind = "refund" /\ s = a)
    <3>1. Undoes("refund", a)' = Undoes("refund", a)
      BY <1>1, <1>3, <2>3
    <3>. QED BY <2>1, <3>1 DEF DebtBooked
  <2>. QED BY <2>2, <2>3
<1>8. Grows
  BY <1>2 DEF Grows
<1>. QED BY <1>5, <1>6, <1>7, <1>8 DEF BooksKept

LEMMA CommitKept == ASSUME Inv, Kept, NEW w \in Worker, Commit(w) PROVE Kept'
<1> DEFINE t == txn[w]
<1>1. /\ TypeOK /\ HeldOnce /\ Fits(w) /\ t \in Txn /\ txn \in [Worker -> Txn] /\ t.step = "plan"
      /\ UNCHANGED shown
  BY InvParts, TxnType DEF Commit
<1>2. CASE Recorded(t) # {}
  BY <1>1, <1>2, RollBackType, RolledBackKept DEF Commit, Step
<1>3. CASE Recorded(t) = {}
  <2>0. PICK d : d = t.doc
    OBVIOUS
  <2>1. BooksKept' /\ Grows
    BY <1>3, CommitBooks
  <2>2. /\ d \in Doc /\ Says[d].of \in Doc /\ Rows(t, t.sent) = RowsOf[d]
        /\ db' = db \cup RowsOf[d]
        /\ recorded' = [r \in Row |-> IF r \in RowsOf[d] THEN "applied" ELSE recorded[r]]
        /\ Says[d].kind \in {"void", "refund"} => Says[d].of \in t.held
    BY <1>3, <2>0, Commits
  <2>3. ShownRight'
    BY <1>1, <2>1, ShownStays
  <2>4. PICK b : b = RollBack(t, "answer")
    OBVIOUS
  <2>5. b \in Txn /\ b.doc = t.doc /\ b.sent = t.sent /\ b.step = "answer"
    BY <1>1, <2>4, RollBackType DEF Step
  <2>6. PICK g : g = [i \in 1 .. MaxRows |-> IF i \in t.sent THEN "applied" ELSE "none"]
    OBVIOUS
  <2>7. PICK s : s = [b EXCEPT !.got = g]
    OBVIOUS
  <2>8. s.doc = d /\ s.sent = t.sent /\ s.step = "answer" /\ s.got = g
    BY <2>0, <2>5, <2>7 DEF Txn
  <2>9. GoOn(w, s)
    BY <1>3, <2>4, <2>6, <2>7 DEF Commit
  <2>10. txn'[w] = s /\ \A v \in Worker \ {w} : txn'[v] = txn[v]
    BY <1>1, <2>9 DEF GoOn
  <2>11. GotRight(w)'
    <3>1. \A i \in t.sent : g[i] = "applied" /\ recorded'[<<d, i>>] = "applied"
      <4>1. t.sent \subseteq 1 .. MaxRows /\ RowsOf[d] \subseteq Row
        BY <1>1, <2>2, TxnType, HasRows
      <4>2. \A i \in t.sent : <<d, i>> \in RowsOf[d]
        BY <2>0, <2>2 DEF Rows
      <4>. QED BY <2>2, <2>6, <4>1, <4>2
    <3>. QED BY <2>8, <2>10, <3>1 DEF GotRight
  <2>12. Does(w)'
    BY <2>8, <2>10, <2>11, PlainDoes
  <2>13. ASSUME NEW v \in Worker \ {w} PROVE Checked(v)'
    <3>1. PICK c : c = txn[v].doc
      OBVIOUS
    <3>2. Fits(v) /\ Checked(v)
      BY InvParts DEF Kept, Does
    <3>3. SUFFICES ASSUME txn[v].step = "write" \/ (txn[v].step = "plan" /\ txn[v].wrote # {}) PROVE Checked(v)'
      BY <2>10 DEF Checked
    <3>4. c \in Doc /\ Says[c].of \in Doc
      BY <3>1, <3>2, <3>3, SaysFacts DEF Fits, Serves
    <3>5. PICK a \in Doc : a = Says[c].of
      BY <3>4
    <3>6. Writes(txn[v])' = Writes(txn[v]) /\ txn'[v] = txn[v]
      BY <2>10 DEF Writes, At
    <3>7. CASE Says[c].kind \in {"void", "refund"}
      <4>1. a \in txn[v].held
        BY <3>1, <3>2, <3>3, <3>5, <3>7 DEF Fits, Prepared
      <4>2. ~(Says[d].kind \in {"void", "refund"} /\ Says[d].of = a)
        BY <1>1, <2>2, <4>1 DEF HeldOnce
      <4>3. /\ Entered(a) => Entered(a)'
            /\ Undoes("void", a)' = Undoes("void", a) /\ Undoes("refund", a)' = Undoes("refund", a)
        BY <2>2, <4>2, EntersOne
      <4>. QED BY <3>1, <3>2, <3>3, <3>5, <3>6, <4>3 DEF Checked
    <3>8. CASE Says[c].kind \notin {"void", "refund"}
      BY <3>1, <3>6, <3>8 DEF Checked
    <3>. QED BY <3>7, <3>8
  <2>. QED BY <2>1, <2>3, <2>10, <2>12, <2>13, KeptStep
<1>. QED BY <1>2, <1>3

LEMMA SettleKept == ASSUME Inv, Kept, NEW w \in Worker, Settle(w) PROVE Kept'
<1> DEFINE t == txn[w]
<1>1. /\ TypeOK /\ BooksKept /\ Fits(w) /\ GotRight(w) /\ Progress(w)
      /\ t \in Txn /\ txn \in [Worker -> Txn] /\ t.step = "settle"
      /\ UNCHANGED <<db, shown>>
  BY InvParts, TxnType DEF Settle, Kept, Does
<1>2. /\ t.doc \in Doc /\ t.sent \subseteq Whole(t.doc) /\ t.todo \subseteq t.sent /\ t.todo # {}
      /\ t.sent = Whole(t.doc) \/ recorded[First(t.doc)] # "none"
      /\ t.todo \subseteq 1 .. MaxRows /\ (AtOnce => t.todo = t.sent)
  BY <1>1, TxnType DEF Fits, Serves, FirstSent, Progress
<1>3. At(t) \in t.todo
  BY <1>2, AtFacts
<1>4. PICK now : now = IF AtOnce THEN t.todo ELSE {At(t)}
  OBVIOUS
<1>5. now \subseteq t.todo /\ (AtOnce => now = t.sent)
  BY <1>2, <1>3, <1>4
<1>6. recorded' = [r \in Row |-> IF r \in Rows(t, now) /\ recorded[r] = "none"
                                 THEN "rejected" ELSE recorded[r]]
  BY <1>4 DEF Settle
<1>7. PICK g : g = [i \in 1 .. MaxRows |-> IF i \in now THEN recorded'[<<t.doc, i>>] ELSE t.got[i]]
  OBVIOUS
<1>8. PICK p : p = IF t.todo = now THEN "answer" ELSE "settle"
  OBVIOUS
<1>9. PICK s : s = [t EXCEPT !.todo = @ \ now, !.got = g, !.step = p]
  OBVIOUS
<1>10. s.doc = t.doc /\ s.sent = t.sent /\ s.got = g /\ s.step = p
  BY <1>1, <1>9 DEF Txn
<1>11. GoOn(w, s)
  <2>1. t.got \in [1 .. MaxRows -> Verdict]
    BY <1>1, TxnType
  <2>. QED BY <1>4, <1>7, <1>8, <1>9, <2>1 DEF Settle
<1>12. txn'[w] = s /\ \A v \in Worker \ {w} : txn'[v] = txn[v]
  BY <1>1, <1>11 DEF GoOn
<1>13. Grows /\ \A r \in Row : recorded'[r] = recorded[r] \/ (recorded[r] = "none" /\ recorded'[r] = "rejected")
  BY <1>1, <1>6 DEF Grows
<1>14. ASSUME NEW d \in Doc PROVE DocKept(d)'
  <2>1. DocKept(d) /\ RowsOf[d] \subseteq Row /\ Entered(d)' = Entered(d) /\ Absent(d)' = Absent(d)
    BY <1>1, UndoesSame, WholeFacts DEF BooksKept
  <2>2. \/ Entered(d)' /\ \A r \in RowsOf[d] : recorded'[r] = "applied"
        \/ Absent(d)' /\ \A r \in RowsOf[d] : recorded'[r] \in {"none", "rejected"}
    BY <1>13, <2>1 DEF DocKept, Grows
  <2>3. ASSUME AtOnce, NEW q \in RowsOf[d], NEW r \in RowsOf[d], recorded'[q] = "none"
        PROVE  recorded'[r] = "none"
    <3>1. recorded[q] = "none" /\ q \notin Rows(t, now)
      BY <1>6, <1>13, <2>1, <2>3
    <3>2. \A c \in RowsOf[d] : recorded[c] = "none"
      BY <2>1, <2>3, <3>1 DEF DocKept
    <3>3. d # t.doc
      <4>1. SUFFICES ASSUME d = t.doc PROVE FALSE
        OBVIOUS
      <4>2. t.sent = Whole(d)
        BY <1>2, <3>2, <4>1, HasRows
      <4>3. Rows(t, now) = RowsOf[d]
        BY <1>5, <2>3, <4>1, <4>2, WholeFacts DEF Rows
      <4>. QED BY <3>1, <4>3
    <3>4. r \notin Rows(t, now)
      BY <3>3, WholeFacts DEF Rows
    <3>. QED BY <1>6, <2>1, <3>2, <3>4
  <2>. QED BY <2>2, <2>3 DEF DocKept
<1>15. GotRight(w)'
  <2> SUFFICES ASSUME NEW i \in t.sent, g[i] \in {"applied", "rejected"}
               PROVE  recorded'[<<t.doc, i>>] = g[i]
    BY <1>10, <1>12 DEF GotRight
  <2>1. i \in 1 .. MaxRows /\ <<t.doc, i>> \in Row
    BY <1>2, RowFacts
  <2>2. CASE i \in now
    BY <1>7, <2>1, <2>2
  <2>3. CASE i \notin now
    <3>1. g[i] = t.got[i]
      BY <1>7, <2>1, <2>3
    <3>2. recorded[<<t.doc, i>>] = g[i]
      BY <1>1, <3>1 DEF GotRight
    <3>. QED BY <1>13, <2>1, <3>2 DEF Grows
  <2>. QED BY <2>2, <2>3
<1>16. Does(w)'
  <2>1. p \in {"answer", "settle"} /\ (AtOnce => p = "answer")
    BY <1>2, <1>5, <1>8
  <2>. QED BY <1>10, <1>12, <1>15, <2>1, PlainDoes
<1>17. ShownRight'
  BY <1>1, <1>13, ShownStays
<1>. QED BY <1>1, <1>12, <1>13, <1>14, <1>16, <1>17, KeptBeside

\* A row that is decided alone is not written.
LEMMA SinglyRefused ==
    ASSUME Inv, Kept, SettlesWhole, NEW w \in Worker, txn[w].step = "singly",
           recorded[<<txn[w].doc, At(txn[w])>>] = "none"
    PROVE  LET plan == Plan(<<txn[w].doc, At(txn[w])>>, db) IN
           /\ plan \in {"later", "rejected"}
           /\ plan = "rejected" => ~AtOnce /\ recorded[First(txn[w].doc)] # "none"
<1> DEFINE t == txn[w]
           d == t.doc
           i == At(t)
           r == <<d, i>>
<1>1. /\ db \subseteq Row /\ BooksKept /\ Fits(w)
      /\ d \in Doc /\ t.sent \subseteq Whole(d) /\ t.todo \subseteq t.sent /\ t.todo # {}
      /\ t.todo \subseteq 1 .. MaxRows
      /\ recorded[First(d)] # "none" \/ Whole(d) = {1}
  BY InvParts, TxnType DEF TypeOK, Kept, Fits, Serves, FirstSent
<1>2. i \in t.todo /\ i \in Whole(d) /\ r \in RowsOf[d] /\ First(d) \in RowsOf[d]
  BY <1>1, AtFacts, RowFacts, HasRows
<1>3. CASE recorded[First(d)] # "none"
  <2>1. DocKept(d)
    BY <1>1 DEF BooksKept
  <2>2. ~AtOnce /\ Absent(d) /\ i # 1
    BY <1>2, <1>3, <2>1 DEF DocKept, First
  <2>. QED BY <1>1, <1>2, <1>3, <2>2, LeftOverRefused
<1>4. CASE Whole(d) = {1}
  <2>1. r = First(d)
    BY <1>2, <1>4 DEF First
  <2>2. Missing(r, db)
    BY <1>1, <1>4, <2>1, Alone
  <2>. QED BY <2>2 DEF Plan
<1>. QED BY <1>1, <1>3, <1>4

LEMMA PushOneKept == ASSUME Inv, Kept, SettlesWhole, NEW w \in Worker, PushOne(w) PROVE Kept'
<1> DEFINE t == txn[w]
           i == At(t)
           r == <<t.doc, i>>
           plan == Plan(r, db)
<1>1. /\ TypeOK /\ BooksKept /\ Fits(w) /\ GotRight(w)
      /\ t \in Txn /\ txn \in [Worker -> Txn] /\ t.step = "singly" /\ shown' = shown
  BY InvParts, TxnType DEF PushOne, Kept, Does
<1>2. /\ t.doc \in Doc /\ t.sent \subseteq Whole(t.doc) /\ t.todo \subseteq t.sent /\ t.todo # {}
      /\ t.todo \subseteq 1 .. MaxRows
  BY <1>1, TxnType DEF Fits, Serves
<1>3. i \in t.todo /\ i \in 1 .. MaxRows /\ r \in Row /\ r \in RowsOf[t.doc]
  BY <1>2, AtFacts, RowFacts
<1>4. PICK v : /\ Is(w, v) /\ db' = db
               /\ \/ recorded[r] = v /\ recorded' = recorded
                  \/ v = "later" /\ recorded' = recorded
                  \/ /\ v = "rejected" /\ recorded[r] = "none" /\ ~AtOnce
                     /\ recorded' = [recorded EXCEPT ![r] = "rejected"]
  <2>1. CASE recorded[r] # "none"
    <3>1. Is(w, recorded[r]) /\ UNCHANGED <<db, recorded>>
      BY <2>1 DEF PushOne
    <3>. QED BY <3>1
  <2>2. CASE recorded[r] = "none"
    <3>1. PICK v : v = CASE plan \in {"write", "noop"} -> "applied" [] OTHER -> plan
      OBVIOUS
    <3>2. /\ db' = IF plan = "write" THEN db \cup {r} ELSE db
          /\ recorded' = IF v = "later" THEN recorded ELSE [recorded EXCEPT ![r] = v]
          /\ Is(w, v)
      BY <2>2, <3>1 DEF PushOne
    <3>3. plan \in {"later", "rejected"} /\ (plan = "rejected" => ~AtOnce)
      BY <1>1, <2>2, SinglyRefused
    <3> HIDE DEF plan
    <3>4. v = plan /\ db' = db
      BY <3>1, <3>2, <3>3
    <3>. QED BY <2>2, <3>2, <3>3, <3>4
  <2>. QED BY <2>1, <2>2
<1>5. PICK p : p = IF t.todo = {i} THEN "answer" ELSE "singly"
  OBVIOUS
<1>6. PICK s : s = [t EXCEPT !.todo = @ \ {i}, !.got[i] = v, !.step = p]
  OBVIOUS
<1>7. t.got \in [1 .. MaxRows -> Verdict]
  BY <1>1, TxnType
<1>8. s.doc = t.doc /\ s.sent = t.sent /\ s.step = p /\ s.got = [t.got EXCEPT ![i] = v]
  BY <1>1, <1>6 DEF Txn
<1>9. PICK g : g = s.got
  OBVIOUS
<1>10. g[i] = v /\ \A j \in 1 .. MaxRows : j # i => g[j] = t.got[j]
  BY <1>3, <1>7, <1>8, <1>9
<1>11. GoOn(w, s)
  BY <1>4, <1>5, <1>6 DEF Is
<1>12. txn'[w] = s /\ \A u \in Worker \ {w} : txn'[u] = txn[u]
  BY <1>1, <1>11 DEF GoOn
<1>13. /\ \A q \in Row : \/ recorded'[q] = recorded[q]
                         \/ q = r /\ recorded[q] = "none" /\ recorded'[q] = "rejected" /\ ~AtOnce
       /\ v \in {"applied", "rejected"} => recorded'[r] = v
  BY <1>1, <1>3, <1>4 DEF TypeOK
<1>14. Grows
  BY <1>4, <1>13 DEF Grows
<1>15. ASSUME NEW d \in Doc PROVE DocKept(d)'
  <2>1. DocKept(d) /\ RowsOf[d] \subseteq Row /\ Entered(d)' = Entered(d) /\ Absent(d)' = Absent(d)
    BY <1>1, <1>4, UndoesSame, WholeFacts DEF BooksKept
  <2>2. \/ Entered(d)' /\ \A q \in RowsOf[d] : recorded'[q] = "applied"
        \/ Absent(d)' /\ \A q \in RowsOf[d] : recorded'[q] \in {"none", "rejected"}
    BY <1>13, <2>1 DEF DocKept
  <2>3. AtOnce => \A q, c \in RowsOf[d] : recorded'[q] = "none" => recorded'[c] = "none"
    BY <1>13, <2>1 DEF DocKept
  <2>. QED BY <2>2, <2>3 DEF DocKept
<1>16. GotRight(w)'
  <2> SUFFICES ASSUME NEW j \in t.sent, g[j] \in {"applied", "rejected"}
               PROVE  recorded'[<<t.doc, j>>] = g[j]
    <3>1. txn'[w].sent = t.sent /\ txn'[w].got = g /\ txn'[w].doc = t.doc
      BY <1>8, <1>9, <1>12
    <3>. QED BY <3>1 DEF GotRight
  <2>1. j \in 1 .. MaxRows /\ <<t.doc, j>> \in Row
    BY <1>2, RowFacts
  <2>2. CASE j = i
    BY <1>10, <1>13, <2>2
  <2>3. CASE j # i
    <3>1. recorded[<<t.doc, j>>] = g[j]
      BY <1>1, <1>10, <2>1, <2>3 DEF GotRight
    <3>. QED BY <1>14, <2>1, <3>1 DEF Grows
  <2>. QED BY <2>2, <2>3
<1>17. Does(w)'
  <2>1. p \in {"answer", "singly"}
    BY <1>5
  <2>. QED BY <1>8, <1>12, <1>16, <2>1, PlainDoes
<1>18. ShownRight'
  BY <1>1, <1>14, ShownStays
<1>. QED BY <1>4, <1>12, <1>14, <1>15, <1>17, <1>18, KeptBeside

\* A thread that is through, or that broke off.
LEMMA IdleDoes == ASSUME NEW w \in Worker, txn'[w] = Idle PROVE Does(w)'
<1>1. GotRight(w)'
  BY IdleFacts DEF GotRight
<1>. QED BY <1>1, IdleFacts, PlainDoes

LEMMA ReadKept ==
    ASSUME Inv, Kept, NEW w \in Worker, txn[w].step = "answer", GoOn(w, Idle), UNCHANGED <<db, recorded>>,
           NEW is \in SUBSET txn[w].sent, shown' = Read(txn[w], is) \/ shown' = shown
    PROVE  Kept'
<1> DEFINE t == txn[w]
<1>1. /\ TypeOK /\ ShownRight /\ GotRight(w) /\ txn \in [Worker -> Txn]
  BY InvParts, TxnType DEF Kept, Does
<1>2. txn'[w] = Idle /\ \A v \in Worker \ {w} : txn'[v] = txn[v]
  BY <1>1 DEF GoOn
<1>3. ShownRight'
  <2> SUFFICES ASSUME NEW q \in Row, shown'[q] # "pending" PROVE shown'[q] = recorded[q]
    BY DEF ShownRight
  <2>1. CASE shown' = shown
    BY <1>1, <2>1 DEF ShownRight
  <2>2. CASE shown' = Read(t, is)
    <3>1. CASE q \in Rows(t, is) /\ t.got[q[2]] \in {"applied", "rejected"}
      <4>1. PICK j \in is : q = <<t.doc, j>>
        BY <3>1 DEF Rows
      <4>2. shown'[q] = t.got[j]
        BY <2>2, <3>1, <4>1 DEF Read
      <4>. QED BY <1>1, <3>1, <4>1, <4>2 DEF GotRight
    <3>2. CASE ~(q \in Rows(t, is) /\ t.got[q[2]] \in {"applied", "rejected"})
      BY <1>1, <2>2, <3>2 DEF Read, ShownRight
    <3>. QED BY <3>1, <3>2
  <2>. QED BY <2>1, <2>2
<1>4. Grows
  BY DEF Grows
<1>5. \A d \in Doc : DocKept(d)'
  BY BooksStay DEF Kept, BooksKept
<1>. QED BY <1>2, <1>3, <1>4, <1>5, IdleDoes, KeptBeside

LEMMA AnswerKept == ASSUME Inv, Kept, NEW w \in Worker, Answer(w) PROVE Kept'
  BY ReadKept DEF Answer

LEMMA KillAppKept == ASSUME Inv, Kept, NEW w \in Worker, KillApp(w) PROVE Kept'
<1>1. PICK is \in SUBSET txn[w].sent : shown' = Read(txn[w], is)
  <2>1. PICK n \in txn[w].sent : shown' = Read(txn[w], {i \in txn[w].sent : i < n})
    BY DEF KillApp
  <2>. QED BY <2>1
<1>2. txn[w].step = "answer" /\ GoOn(w, Idle) /\ UNCHANGED <<db, recorded>>
  BY DEF KillApp
<1>. QED BY <1>1, <1>2, ReadKept

LEMMA FailKept == ASSUME Inv, Kept, NEW w \in Worker, Fail(w) PROVE Kept'
<1>1. GoOn(w, Idle) /\ UNCHANGED <<db, recorded, shown>>
  BY DEF Fail
<1>2. txn'[w] = Idle
  BY <1>1, InvParts, TxnType DEF GoOn
<1>. QED BY <1>1, <1>2, IdleDoes, KeptQuietly

LEMMA OutsideKept == ASSUME Inv, Kept, UNCHANGED <<db, recorded, txn, shown>> PROVE Kept'
<1>1. BooksKept'
  BY BooksStay DEF Kept
<1>2. Grows
  BY DEF Grows
<1>3. ShownRight'
  BY <1>2, ShownStays
<1>4. ASSUME NEW v \in Worker PROVE Does(v)'
  <2>1. Does(v) /\ (txn[v].step \in {"plan", "write"} => txn[v].doc \in Doc)
    BY InvParts DEF Kept, Fits, Serves
  <2>2. GotRight(v)' /\ Progress(v)'
    BY <1>2, <2>1, StaysRight DEF Does
  <2>3. Checked(v)'
    BY <2>1, StaysChecked DEF Does
  <2>. QED BY <2>2, <2>3 DEF Does
<1>. QED BY <1>1, <1>3, <1>4 DEF Kept

LEMMA KeptInit == Init => Kept
<1> SUFFICES ASSUME Init PROVE Kept
  OBVIOUS
<1>1. db = {} /\ \A r \in Row : recorded[r] = "none" /\ shown[r] = "pending"
  BY DEF Init
<1>2. \A d \in Doc : ~Entered(d) /\ Absent(d) /\ RowsOf[d] \subseteq Row
  BY <1>1, HasRows DEF Entered, Absent
<1>3. ASSUME NEW d \in Doc PROVE DocKept(d) /\ VoidBooked(d) /\ DebtBooked(d)
  <2>1. DocKept(d) /\ VoidBooked(d)
    BY <1>1, <1>2 DEF DocKept, VoidBooked
  <2>2. Undoes("refund", d) = {}
    BY <1>2 DEF Undoes
  <2>3. DebtBooked(d)
    <3>1. SumOf(Owed, Undoes("refund", d)) = 0
      BY <2>2, SumOfNone
    <3>2. Says[d].owed \in Nat
      BY DocsAssumption
    <3>. QED BY <3>1, <3>2 DEF DebtBooked
  <2>. QED BY <2>1, <2>3
<1>4. ShownRight
  BY <1>1 DEF ShownRight
<1>5. ASSUME NEW w \in Worker PROVE Does(w)
  <2>1. txn[w] = Idle
    BY DEF Init
  <2>. QED BY <2>1, IdleFacts DEF Does, GotRight, Progress, Checked
<1>. QED BY <1>3, <1>4, <1>5 DEF Kept, BooksKept

LEMMA KeptNext == SettlesWhole /\ Inv /\ Kept /\ [Next]_vars => Kept'
<1> SUFFICES ASSUME SettlesWhole, Inv, Kept, [Next]_vars PROVE Kept'
  OBVIOUS
<1>1. CASE UNCHANGED vars
  BY <1>1, OutsideKept DEF vars
<1>2. ASSUME NEW w \in Worker, Work(w) PROVE Kept'
  BY <1>2, PushKept, LookKept, PlanRowKept, WriteRowKept, CommitKept, SettleKept, PushOneKept,
     AnswerKept DEF Work
<1>3. CASE Disturb
  <2>1. ASSUME NEW d \in Doc, NoAnswer(d) PROVE Kept'
    BY <2>1, OutsideKept DEF NoAnswer
  <2>2. ASSUME NEW k \in Deniable, ChangePermission(k) PROVE Kept'
    BY <2>2, OutsideKept DEF ChangePermission
  <2>3. ASSUME NEW d \in Edited, EditProduct(d) PROVE Kept'
    BY <2>3, OutsideKept DEF EditProduct
  <2>. QED BY <1>3, <2>1, <2>2, <2>3, FailKept, KillAppKept DEF Disturb
<1>. QED BY <1>1, <1>2, <1>3 DEF Next

LEMMA SpecKeepsBooks == ASSUME SettlesWhole PROVE Spec => [](Inv /\ Kept)
<1>1. Inv /\ Kept /\ [Next]_vars => (Inv /\ Kept)'
  BY InvNext, KeptNext
<1>2. Init => Inv /\ Kept
  BY InvInit, KeptInit
<1>. QED BY <1>1, <1>2, PTL DEF Spec

-----------------------------------------------------------------------------
(* Whole documents *)

(* AllOrNone: whatever tills send at the same time, whichever answers are lost and wherever *)
(* a transaction breaks off, the rows of a document are all in the books or none of them is. *)
THEOREM DocumentsAreWhole == ASSUME SettlesWhole PROVE Spec => []AllOrNone
<1>1. Kept => AllOrNone
  BY DEF Kept, BooksKept, DocKept, Entered, Absent, AllOrNone
<1>. QED BY <1>1, SpecKeepsBooks, PTL

(* ShownWhole: what a till shows applied is in the books, and stands beside nothing refused. *)
THEOREM TillsShowWhole == ASSUME SettlesWhole PROVE Spec => []ShownWhole
<1>1. Inv /\ Kept => ShownWhole
  <2> SUFFICES ASSUME Inv, Kept, NEW d \in Doc, NEW r \in RowsOf[d], shown[r] = "applied"
               PROVE  r \in db /\ \A q \in RowsOf[d] : shown[q] # "rejected"
    BY DEF ShownWhole
  <2>1. RowsOf[d] \subseteq Row /\ ShownRight /\ DocKept(d)
    BY WholeFacts DEF Kept, BooksKept
  <2>2. recorded[r] = "applied"
    BY <2>1 DEF ShownRight
  <2>3. Entered(d) /\ \A q \in RowsOf[d] : recorded[q] = "applied"
    BY <2>1, <2>2 DEF DocKept
  <2>. QED BY <2>1, <2>3 DEF Entered, ShownRight
<1>. QED BY <1>1, SpecKeepsBooks, PTL

-----------------------------------------------------------------------------
(* The refinement of Documents *)

\* What Documents sums up over returns.
PiecesOf(S) == MapThenSumSet(LAMBDA e : Says[e].qty, S)
OwedOf(S) == MapThenSumSet(LAMBDA e : Says[e].owed, S)

LEMMA PiecesIs ==
    ASSUME NEW S, S \subseteq Doc
    PROVE  PiecesOf(S) = SumOf(Pieces, S)
<1> DEFINE all(g) == [s \in SUBSET S |-> IF s = {} THEN 0 ELSE Says[Chosen(s)].qty + g[s \ {Chosen(s)}]]
           h == CHOOSE g : g = all(g)
<1>1. IsFiniteSet(S) /\ \A d \in S : Pieces[d] = Says[d].qty
  BY RowsFinite, FS_Subset DEF Pieces
<1>2. PiecesOf(S) = h[S]
  BY DEF PiecesOf, MapThenSumSet, MapThenFoldSet, Chosen
<1>3. ASSUME NEW g PROVE IsTally(g, Pieces, S) <=> g = all(g)
  <2>1. \A s \in SUBSET S : s # {} => Pieces[Chosen(s)] = Says[Chosen(s)].qty
    BY <1>1, ChosenIn
  <2>. QED BY <2>1 DEF IsTally
<1> HIDE DEF all
<1>4. IsTally(h, Pieces, S)
  BY <1>1, <1>3, TallyExists
<1> HIDE DEF h
<1>. QED BY <1>1, <1>2, <1>4, AnyTally

LEMMA OwedIs ==
    ASSUME NEW S, S \subseteq Doc
    PROVE  OwedOf(S) = SumOf(Owed, S)
<1> DEFINE all(g) == [s \in SUBSET S |-> IF s = {} THEN 0 ELSE Says[Chosen(s)].owed + g[s \ {Chosen(s)}]]
           h == CHOOSE g : g = all(g)
<1>1. IsFiniteSet(S) /\ \A d \in S : Owed[d] = Says[d].owed
  BY RowsFinite, FS_Subset DEF Owed
<1>2. OwedOf(S) = h[S]
  BY DEF OwedOf, MapThenSumSet, MapThenFoldSet, Chosen
<1>3. ASSUME NEW g PROVE IsTally(g, Owed, S) <=> g = all(g)
  <2>1. \A s \in SUBSET S : s # {} => Owed[Chosen(s)] = Says[Chosen(s)].owed
    BY <1>1, ChosenIn
  <2>. QED BY <2>1 DEF IsTally
<1> HIDE DEF all
<1>4. IsTally(h, Owed, S)
  BY <1>1, <1>3, TallyExists
<1> HIDE DEF h
<1>. QED BY <1>1, <1>2, <1>4, AnyTally

\* A document is never torn.
LEMMA BecameFacts ==
    ASSUME BooksKept, NEW d \in Doc
    PROVE  Became(d) = IF Entered(d) THEN "entered"
                       ELSE IF \E r \in RowsOf[d] : recorded[r] # "none" THEN "refused" ELSE "open"
<1>1. Entered(d) \/ Absent(d)
  BY DEF BooksKept, DocKept
<1>. QED BY <1>1 DEF Became, Entered, Absent

LEMMA AboutIs ==
    ASSUME BooksKept, NEW k, NEW s
    PROVE  /\ Books!About(k, s) \cap Books!Entered = Undoes(k, s)
           /\ \A d \in Doc : d \in Books!Entered <=> Entered(d)
<1>1. \A d \in Doc : d \in Books!Entered <=> Entered(d)
  BY BecameFacts DEF Books!Entered
<1>. QED BY <1>1 DEF Books!About, Books!Is, Undoes, Books!Entered

\* A step that decides nothing.
LEMMA StateSame ==
    ASSUME db' = db, recorded' = recorded
    PROVE  [d \in Doc |-> Became(d)]' = [d \in Doc |-> Became(d)]
<1>1. \A d \in Doc : Became(d)' = Became(d)
  BY DEF Became
<1>. QED BY <1>1

LEMMA BooksInit == Init => Books!Init
<1> SUFFICES ASSUME Init, NEW d \in Doc PROVE Became(d) = "open"
  BY DEF Books!Init
<1>1. RowsOf[d] # {} /\ RowsOf[d] \subseteq Row /\ db = {} /\ \A r \in Row : recorded[r] = "none"
  BY HasRows DEF Init
<1>. QED BY <1>1 DEF Became

\* A commit enters the document.
LEMMA CommitEnters ==
    ASSUME Inv, Kept, NEW w \in Worker, Commit(w), Recorded(txn[w]) = {}
    PROVE  Books!Next
<1>0. PICK d : d = txn[w].doc
  OBVIOUS
<1>1. PICK s : s = Says[d].of
  OBVIOUS
<1>2. /\ d \in Doc /\ s \in Doc /\ Absent(d) /\ \A r \in RowsOf[d] : recorded[r] = "none"
      /\ db' = db \cup RowsOf[d]
      /\ recorded' = [r \in Row |-> IF r \in RowsOf[d] THEN "applied" ELSE recorded[r]]
      /\ Says[d].kind = "void" =>
           Says[s].kind = "sale" /\ Entered(s) /\ Undoes("void", s) = {} /\ Undoes("refund", s) = {}
      /\ Says[d].kind = "refund" =>
           /\ Says[s].kind = "sale" /\ Entered(s) /\ Undoes("void", s) = {}
           /\ SumOf(Pieces, Undoes("refund", s)) + Says[d].qty <= Says[s].qty
           /\ SumOf(Owed, Undoes("refund", s)) + Says[d].owed <= Says[s].owed
  BY <1>0, <1>1, Commits
<1>3. BooksKept /\ BooksKept' /\ ~Entered(d)
  BY <1>2, CommitBooks, HasRows DEF Kept, Absent, Entered
<1>4. Became(d) = "open"
  BY <1>2, <1>3, BecameFacts
<1>5. ASSUME NEW c \in Doc
      PROVE  Became(c)' = IF c = d THEN "entered" ELSE Became(c)
  <2>1. RowsOf[c] \subseteq Row /\ (c # d => RowsOf[c] \cap RowsOf[d] = {})
    BY <1>2, WholeFacts
  <2>2. CASE c = d
    BY <1>2, <2>2 DEF Became
  <2>3. CASE c # d
    <3>1. (RowsOf[c] \subseteq db' <=> RowsOf[c] \subseteq db) /\ RowsOf[c] \cap db' = RowsOf[c] \cap db
          /\ \A r \in RowsOf[c] : recorded'[r] = recorded[r]
      BY <1>2, <2>1, <2>3
    <3>. QED BY <2>3, <3>1 DEF Became
  <2>. QED BY <2>2, <2>3
<1>6. /\ Books!About("void", s) \cap Books!Entered = Undoes("void", s)
      /\ Books!About("refund", s) \cap Books!Entered = Undoes("refund", s)
      /\ \A c \in Doc : c \in Books!Entered <=> Entered(c)
  BY <1>3, AboutIs
<1>7. ASSUME Says[d].kind = "void" PROVE Books!Voidable(d)
  <2>1. s \in Books!Is("sale") \cap Books!Entered
    BY <1>2, <1>6, <1>7 DEF Books!Is
  <2>2. (Books!About("void", s) \cup Books!About("refund", s)) \cap Books!Entered = {}
    BY <1>2, <1>6, <1>7
  <2>. QED BY <1>1, <2>1, <2>2 DEF Books!Voidable
<1>8. ASSUME Says[d].kind = "refund" PROVE Books!Returnable(d)
  <2>1. PICK U : U = Undoes("refund", s)
    OBVIOUS
  <2>2. PICK back : back = {d} \cup (Books!About("refund", s) \cap Books!Entered)
    OBVIOUS
  <2>3. back = U \cup {d} /\ U \subseteq Doc /\ d \notin U /\ back \subseteq Doc
    BY <1>2, <1>3, <1>6, <2>1, <2>2, UndoesFacts DEF Undoes
  <2>4. PiecesOf(back) <= Says[s].qty /\ OwedOf(back) <= Says[s].owed
    <3>1. SumOf(Owed, back) = SumOf(Owed, U) + Says[d].owed /\ SumOf(Pieces, back) = SumOf(Pieces, U) + Says[d].qty
      BY <1>2, <2>3, SumWith
    <3>. QED BY <1>2, <1>8, <2>1, <2>3, <3>1, PiecesIs, OwedIs
  <2>5. s \in Books!Is("sale") \cap Books!Entered /\ Books!About("void", s) \cap Books!Entered = {}
    BY <1>2, <1>6, <1>8 DEF Books!Is
  <2>6. /\ MapThenSumSet(LAMBDA e : Says[e].qty, back) <= Says[s].qty
        /\ MapThenSumSet(LAMBDA e : Says[e].owed, back) <= Says[s].owed
    BY <2>4 DEF PiecesOf, OwedOf
  <2>. QED BY <1>1, <2>2, <2>5, <2>6 DEF Books!Returnable, MapThenSumSet, MapThenFoldSet, Books!MapThenSumSet, Books!MapThenFoldSet
<1>9. Books!Enter(d)
  <2>1. [c \in Doc |-> Became(c)][d] = "open"
    BY <1>2, <1>4
  <2>2. [c \in Doc |-> Became(c)]' = [[c \in Doc |-> Became(c)] EXCEPT ![d] = "entered"]
    BY <1>2, <1>5
  <2>3. d \in Books!Is("refund") => Books!Returnable(d)
    BY <1>8 DEF Books!Is
  <2>4. d \in Books!Is("void") => Books!Voidable(d)
    BY <1>7 DEF Books!Is
  <2>. QED BY <2>1, <2>2, <2>3, <2>4 DEF Books!Enter
<1>. QED BY <1>2, <1>9 DEF Books!Next

\* Settling refuses a document that is open.
LEMMA SettleRefuses ==
    ASSUME Inv, Kept, NEW w \in Worker, Settle(w)
    PROVE  Books!Next \/ [d \in Doc |-> Became(d)]' = [d \in Doc |-> Became(d)]
<1> DEFINE t == txn[w]
<1>0. PICK d : d = t.doc
  OBVIOUS
<1>1. /\ BooksKept /\ Fits(w) /\ t.step = "settle" /\ db' = db
  BY InvParts DEF Settle, Kept
<1>2. d \in Doc /\ t.todo # {} /\ t.todo \subseteq 1 .. MaxRows /\ t.todo \subseteq Whole(d)
  BY <1>0, <1>1, InvParts, TxnType DEF Fits, Serves
<1>3. PICK now : now = IF AtOnce THEN t.todo ELSE {At(t)}
  OBVIOUS
<1>4. now \subseteq Whole(d)
  BY <1>2, <1>3, AtFacts
<1>5. PICK rows : rows = Rows(t, now)
  OBVIOUS
<1>6. rows \subseteq RowsOf[d]
  BY <1>0, <1>2, <1>4, <1>5, WholeFacts DEF Rows
<1>7. recorded' = [r \in Row |-> IF r \in rows /\ recorded[r] = "none" THEN "rejected" ELSE recorded[r]]
  BY <1>3, <1>5 DEF Settle
<1>8. ASSUME NEW c \in Doc, c # d
      PROVE  Became(c)' = Became(c)
  <2>1. \A r \in RowsOf[c] : recorded'[r] = recorded[r]
    BY <1>2, <1>6, <1>7, <1>8, WholeFacts
  <2>. QED BY <1>1, <2>1 DEF Became
<1>9. RowsOf[d] \subseteq Row /\ \A r \in RowsOf[d] : recorded[r] # "none" => recorded'[r] # "none"
  BY <1>2, <1>7, WholeFacts
<1>10. CASE Became(d)' = Became(d)
  BY <1>8, <1>10
<1>11. CASE Became(d)' # Became(d)
  <2>1. Became(d) = "open"
    <3>1. CASE RowsOf[d] \subseteq db
      BY <1>1, <1>11, <3>1 DEF Became
    <3>2. CASE ~(RowsOf[d] \subseteq db)
      <4>1. ~(\E r \in RowsOf[d] : recorded[r] # "none")
        BY <1>1, <1>9, <1>11, <3>2 DEF Became
      <4>. QED BY <1>1, <1>2, <3>2, <4>1, BecameFacts DEF Entered
    <3>. QED BY <3>1, <3>2
  <2>2. Became(d)' = "refused"
    <3>1. ~(RowsOf[d] \subseteq db) /\ RowsOf[d] \cap db = {}
      BY <1>1, <1>2, <2>1, HasRows DEF Became
    <3>. QED BY <1>1, <1>11, <2>1, <3>1 DEF Became
  <2>3. [c \in Doc |-> Became(c)]' = [[c \in Doc |-> Became(c)] EXCEPT ![d] = "refused"]
    BY <1>2, <1>8, <2>2
  <2>4. [c \in Doc |-> Became(c)][d] = "open"
    BY <1>2, <2>1
  <2>5. Books!Refuse(d)
    BY <2>3, <2>4 DEF Books!Refuse
  <2>. QED BY <1>2, <2>5 DEF Books!Next
<1>. QED BY <1>10, <1>11

\* What is decided alone was refused before, or waits.
LEMMA PushOneStutters ==
    ASSUME Inv, Kept, SettlesWhole, NEW w \in Worker, PushOne(w)
    PROVE  [d \in Doc |-> Became(d)]' = [d \in Doc |-> Became(d)]
<1> DEFINE t == txn[w]
           i == At(t)
<1>0. PICK d : d = t.doc
  OBVIOUS
<1>1. PICK r : r = <<t.doc, i>>
  OBVIOUS
<1>2. TypeOK /\ BooksKept /\ Fits(w) /\ t.step = "singly" /\ FirstRecorded
  BY InvParts DEF PushOne, Kept
<1>3. d \in Doc /\ t.todo # {} /\ t.todo \subseteq 1 .. MaxRows /\ t.todo \subseteq Whole(d)
  BY <1>0, <1>2, TxnType DEF Fits, Serves
<1>4. r \in RowsOf[d] /\ r \in Row /\ First(d) \in RowsOf[d] /\ First(d) \in Row
  BY <1>0, <1>1, <1>3, AtFacts, RowFacts, HasRows
<1>5. CASE recorded[r] # "none"
  <2>1. db' = db /\ recorded' = recorded
    BY <1>1, <1>5 DEF PushOne
  <2>. QED BY <2>1, StateSame
<1>6. CASE recorded[r] = "none"
  <2>1. PICK plan : plan = Plan(r, db)
    OBVIOUS
  <2>2. PICK v : v = CASE plan \in {"write", "noop"} -> "applied" [] OTHER -> plan
    OBVIOUS
  <2>3. /\ db' = IF plan = "write" THEN db \cup {r} ELSE db
        /\ recorded' = IF v = "later" THEN recorded ELSE [recorded EXCEPT ![r] = v]
    BY <1>1, <1>6, <2>1, <2>2 DEF PushOne
  <2>4. plan \in {"later", "rejected"} /\ (plan = "rejected" => recorded[First(d)] # "none")
    BY <1>0, <1>1, <1>2, <1>6, <2>1, SinglyRefused
  <2>5. v = plan /\ db' = db
    BY <2>2, <2>3, <2>4
  <2>6. CASE plan = "later"
    BY <2>3, <2>5, <2>6, StateSame
  <2>7. CASE plan = "rejected"
    <3>1. recorded' = [recorded EXCEPT ![r] = "rejected"] /\ recorded[First(d)] # "none"
      BY <2>3, <2>4, <2>5, <2>7
    <3>2. recorded'[First(d)] # "none" /\ \A q \in Row : q # r => recorded'[q] = recorded[q]
      BY <1>2, <1>4, <3>1 DEF TypeOK
    <3>3. ASSUME NEW c \in Doc PROVE Became(c)' = Became(c)
      <4>1. CASE c = d
        BY <1>4, <2>5, <3>1, <3>2, <4>1 DEF Became
      <4>2. CASE c # d
        <5>1. \A q \in RowsOf[c] : recorded'[q] = recorded[q]
          BY <1>3, <1>4, <3>2, <4>2, WholeFacts
        <5>. QED BY <2>5, <5>1 DEF Became
      <4>. QED BY <4>1, <4>2
    <3>. QED BY <3>3
  <2>. QED BY <2>4, <2>6, <2>7
<1>. QED BY <1>5, <1>6

LEMMA BooksStep ==
    ASSUME SettlesWhole, Inv, Kept, [Next]_vars
    PROVE  Books!Next \/ [d \in Doc |-> Became(d)]' = [d \in Doc |-> Became(d)]
<1>1. CASE UNCHANGED vars
  BY <1>1, StateSame DEF vars
<1>2. CASE Disturb
  BY <1>2, StateSame DEF Disturb, Fail, KillApp, NoAnswer, ChangePermission, EditProduct
<1>3. ASSUME NEW w \in Worker, Work(w)
      PROVE  Books!Next \/ [d \in Doc |-> Became(d)]' = [d \in Doc |-> Became(d)]
  <2>1. ASSUME NEW d \in Doc, Push(w, d)
        PROVE  [c \in Doc |-> Became(c)]' = [c \in Doc |-> Became(c)]
    BY <2>1, StateSame DEF Push
  <2>2. ASSUME Look(w) \/ PlanRow(w) \/ WriteRow(w) \/ Answer(w)
        PROVE  [c \in Doc |-> Became(c)]' = [c \in Doc |-> Became(c)]
    BY <2>2, StateSame DEF Look, PlanRow, WriteRow, Answer
  <2>3. ASSUME Commit(w)
        PROVE  Books!Next \/ [c \in Doc |-> Became(c)]' = [c \in Doc |-> Became(c)]
    <3>1. CASE Recorded(txn[w]) = {}
      BY <2>3, <3>1, CommitEnters
    <3>2. CASE Recorded(txn[w]) # {}
      BY <2>3, <3>2, StateSame DEF Commit
    <3>. QED BY <3>1, <3>2
  <2>. QED BY <1>3, <2>1, <2>2, <2>3, SettleRefuses, PushOneStutters DEF Work
<1>. QED BY <1>1, <1>2, <1>3 DEF Next

(* ImplementsDocuments: each document is entered once and whole or refused for good, a void *)
(* or a return only beside what Documents allows, whatever tills send at the same time.     *)
THEOREM TransactionsImplementDocuments == ASSUME SettlesWhole PROVE Spec => ImplementsDocuments
<1>1. Inv /\ Kept /\ [Next]_vars => [Books!Next]_([d \in Doc |-> Became(d)])
  BY BooksStep
<1>. QED BY <1>1, BooksInit, SpecKeepsBooks, PTL DEF Spec, ImplementsDocuments, Books!Spec
=============================================================================
