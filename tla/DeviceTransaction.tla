--------------------------- MODULE DeviceTransaction ---------------------------
(***************************************************************************)
(* How the ledger rows of one device transaction reach the server.  A till *)
(* writes a sale, a void, a return or a receipt of goods as several rows   *)
(* and sends them with one tx_id; the server applies them in one database  *)
(* transaction, under the rules of each table.                             *)
(*                                                                         *)
(*   server/dukan/infrastructure/sync_service.py  _push_together, _settle  *)
(*   server/dukan/application/sync_policy.py      the handler of each row  *)
(*   packages/dukan_data/lib/src/sales_store.dart, customers_store.dart    *)
(*                                                                         *)
(* Other rows (shifts, products) are in SyncPush and Drawer.  Quantities   *)
(* and money share a unit: everything costs 1.                             *)
(***************************************************************************)
EXTENDS Integers, Sequences, FiniteSetsExt

CONSTANTS
    Doc, Says,  \* the documents tills write, and what they say (Documents)
    Worker,     \* server threads
    None,
    Deniable,   \* kinds of rows for which a user may lack the permission for a while
    MaxFault,   \* bound: answers lost, apps killed and transactions broken off
    Edited,     \* receipts of which a product may be edited meanwhile
    AtOnce      \* TRUE: a refused document's rows are recorded in one go, as if
                \* nothing could come between the commits of _settle

ASSUME NoneAssumption == None \notin Doc \cup Worker
ASSUME BoundAssumption == MaxFault \in Nat /\ AtOnce \in BOOLEAN
\* Tills write no sale and no return of nothing.
ASSUME DocsAssumption ==
    /\ IsFiniteSet(Doc)
    /\ Says \in [Doc -> [kind : {"sale", "void", "refund", "receipt"}, of : Doc, qty : Nat, owed : Nat]]
    /\ \A d \in Doc : Says[d].kind \in {"sale", "refund"} => Says[d].qty > 0

VARIABLES
    db,         \* rows the database holds; a void's is the sale's new status
    recorded,   \* recorded[r]: the outcome processed_ops holds for a row's op
    txn,        \* txn[w]: the document thread w serves
    shown,      \* shown[r]: the row's status in its till's outbox
    waits,      \* waits[d]: the thread whose answer d's till waits for
    denied,     \* kinds of rows that are refused for now
    loose,      \* receipts whose second product keeps no stock for now
    faults      \* counts NoAnswer, KillApp and Fail

vars == <<db, recorded, txn, shown, waits, denied, loose, faults>>

-----------------------------------------------------------------------------
(* The rows of a document, in the order the till recorded them *)

MaxRows == 5
R(kind, n) == IF n = 0 THEN <<>> ELSE <<[kind |-> kind, n |-> n]>>

SaleRows(s) == R("sale", s.qty) \o R("line", s.qty) \o R("out", s.qty)
               \o R("pay", s.qty - s.owed) \o R("charge", s.owed)
VoidRows(s) == <<[kind |-> "void", n |-> 0]>> \o R("voidback", Says[s.of].qty) \o R("voiddebt", s.owed)
ReturnRows(s) == R("refund", s.qty) \o R("rline", s.qty) \o R("rback", s.qty)
                 \o R("rpay", s.qty - s.owed) \o R("rdebt", s.owed)
ReceiptRows(s) == <<[kind |-> "receive", n |-> 1], [kind |-> "receive", n |-> 2],
                    [kind |-> "bill", n |-> s.qty]>>

Written == [d \in Doc |-> CASE Says[d].kind = "sale"    -> SaleRows(Says[d])
                            [] Says[d].kind = "void"    -> VoidRows(Says[d])
                            [] Says[d].kind = "refund"  -> ReturnRows(Says[d])
                            [] Says[d].kind = "receipt" -> ReceiptRows(Says[d])]

RowsOf == [d \in Doc |-> {<<d, i>> : i \in 1 .. Len(Written[d])}]
Row == UNION {RowsOf[d] : d \in Doc}
Kind(r) == Written[r[1]][r[2]].kind
N(r) == Written[r[1]][r[2]].n

\* The till sends what is still pending of the document.
Pending(d) == {i \in 1 .. Len(Written[d]) : shown[<<d, i>>] = "pending"}

Step == {"idle", "look", "plan", "write", "settle", "singly", "answer"}
Verdict == {"none", "applied", "rejected", "later"}
Txn == [doc : Doc \cup {None}, step : Step, todo : SUBSET (1 .. MaxRows),
        wrote : SUBSET Row, held : SUBSET Doc, sent : SUBSET (1 .. MaxRows),
        got : [1 .. MaxRows -> Verdict]]
Idle == [doc |-> None, step |-> "idle", todo |-> {}, wrote |-> {}, held |-> {}, sent |-> {},
         got |-> [i \in 1 .. MaxRows |-> "none"]]

GoOn(w, t) == txn' = [txn EXCEPT ![w] = t]
At(t) == CHOOSE i \in t.todo : \A j \in t.todo : i <= j
Rows(t, is) == {<<t.doc, i>> : i \in is}

Init ==
    /\ db = {}
    /\ recorded = [r \in Row |-> "none"]
    /\ txn = [w \in Worker |-> Idle]
    /\ shown = [r \in Row |-> "pending"]
    /\ waits = [d \in Doc |-> None]
    /\ denied \in SUBSET Deniable
    /\ loose \in SUBSET Edited
    /\ faults = 0

-----------------------------------------------------------------------------
(* What the handlers read: the committed rows and the transaction's own *)

Of(seen, kind, ds) == {r \in seen : r[1] \in ds /\ Kind(r) = kind}
Total(rows) == MapThenSumSet(N, rows)

Exists(seen, d) == Of(seen, "sale", {d}) \cup Of(seen, "refund", {d}) # {}
RefundsOf(seen, s) == {e \in Doc : Says[e].of = s /\ Of(seen, "refund", {e}) # {}}
VoidsOf(seen, s) == {e \in Doc : Says[e].of = s /\ Of(seen, "void", {e}) # {}}
\* The lines of a sale or a return add up to its header.
Complete(seen, d) ==
    Total(Of(seen, "line", {d}) \cup Of(seen, "rline", {d}))
      = Total(Of(seen, "sale", {d}) \cup Of(seen, "refund", {d}))
\* What a sale's void and returns took off the debt.
Reversed(seen, s) == Total(Of(seen, "voiddebt", VoidsOf(seen, s)) \cup Of(seen, "rdebt", RefundsOf(seen, s)))

\* Mutated: the header of a return does not lock the sale it takes goods back from.
ReadsReturnUnlocked(r) ==
    CASE Kind(r) \in {"line", "out", "pay", "charge", "rline", "rback", "rpay"} -> {r[1]}
      [] Kind(r) \in {"void", "voidback", "voiddebt"} -> {Says[r[1]].of}
      [] Kind(r) = "rdebt" -> {r[1], Says[r[1]].of}
      [] OTHER -> {}

\* The sales a row's handler reads FOR UPDATE: the header it belongs to or undoes.
Reads(r) ==
    CASE Kind(r) \in {"line", "out", "pay", "charge", "rline", "rback", "rpay"} -> {r[1]}
      [] Kind(r) \in {"void", "voidback", "voiddebt", "refund"} -> {Says[r[1]].of}
      [] Kind(r) = "rdebt" -> {r[1], Says[r[1]].of}
      [] OTHER -> {}

-----------------------------------------------------------------------------
(* The rules of the handlers *)

\* Mutated: the transaction's own rows are not flushed before a handler reads.
MissingUnflushed(r, seen) ==
    LET d == r[1] IN
    \/ Kind(r) \in {"line", "out", "pay", "charge", "rline", "rback", "rpay", "rdebt"} /\ ~Exists(db, d)
    \/ Kind(r) \in {"void", "voidback", "voiddebt", "refund"} /\ ~Exists(db, Says[d].of)
    \/ Kind(r) \in {"pay", "charge", "rpay"} /\ ~Complete(db, d)

\* A parent that is not there yet, or a sale or a return still missing lines.
Missing(r, seen) ==
    LET d == r[1] IN
    \/ Kind(r) \in {"line", "out", "pay", "charge", "rline", "rback", "rpay", "rdebt"} /\ ~Exists(seen, d)
    \/ Kind(r) \in {"void", "voidback", "voiddebt", "refund"} /\ ~Exists(seen, Says[d].of)
    \/ Kind(r) \in {"pay", "charge", "rpay"} /\ ~Complete(seen, d)

\* The header of a return: of a sale that is not voided, and no more than is left of it.
ReturnBreaks(r, seen) ==
    LET s == Says[r[1]].of IN
    \/ Says[s].kind # "sale" \/ VoidsOf(seen, s) # {}
    \/ Total(Of(seen, "refund", RefundsOf(seen, s))) + N(r) > Total(Of(seen, "sale", {s}))

ReturnLineBreaks(r, seen) ==
    LET s == Says[r[1]].of IN
    \/ Total(Of(seen, "rline", RefundsOf(seen, s))) + N(r) > Total(Of(seen, "line", {s}))
    \/ Total(Of(seen, "rline", {r[1]})) + N(r) > Says[r[1]].qty

\* Money handed back, and money paid, up to what the header says.
ReturnPayBreaks(r, seen) == Total(Of(seen, "rpay", {r[1]})) + N(r) > Says[r[1]].qty - Says[r[1]].owed
PayBreaks(r, seen) == Total(Of(seen, "pay", {r[1]})) + N(r) > Says[r[1]].qty - Says[r[1]].owed
ChargeBreaks(r, seen) == Total(Of(seen, "charge", {r[1]})) + N(r) > Says[r[1]].owed

\* Stock comes back from a void as much as the sale took, from a return as its lines say.
StockBackBreaks(r, seen) ==
    LET d == r[1]
        s == Says[d].of IN
    IF Kind(r) = "voidback"
    THEN \/ VoidsOf(seen, s) = {}
         \/ Total(Of(seen, "voidback", VoidsOf(seen, s))) + N(r) > Total(Of(seen, "out", {s}))
    ELSE \/ Of(seen, "out", {s}) = {}
         \/ Total(Of(seen, "rback", {d})) + N(r) > Total(Of(seen, "rline", {d}))

\* Debt comes off by no more than the sale put on, less what came off before.
DebtBackBreaks(r, seen) ==
    LET s == Says[r[1]].of IN
    \/ Kind(r) = "voiddebt" /\ VoidsOf(seen, s) = {}
    \/ Kind(r) = "rdebt" /\ N(r) > Says[r[1]].qty
    \/ Reversed(seen, s) + N(r) > Total(Of(seen, "charge", {s}))

\* Mutated: a sale with returns can still be voided.
VoidBreaksNever(r, seen) == FALSE

\* A void, of a sale that is not voided yet.
VoidBreaks(r, seen) ==
    LET s == Says[r[1]].of IN Says[s].kind # "sale" \/ RefundsOf(seen, s) # {}

LineBreaks(r, seen) == Total(Of(seen, "line", {r[1]})) + N(r) > Says[r[1]].qty
OutBreaks(r, seen) == Total(Of(seen, "out", {r[1]})) + N(r) > Total(Of(seen, "line", {r[1]}))

\* Goods received, of a product that keeps stock.
ReceiveBreaks(r, seen) == N(r) = 2 /\ r[1] \in loose

Breaks(r, seen) ==
    \/ Kind(r) = "refund" /\ ReturnBreaks(r, seen)
    \/ Kind(r) = "rline" /\ ReturnLineBreaks(r, seen)
    \/ Kind(r) = "rpay" /\ ReturnPayBreaks(r, seen)
    \/ Kind(r) = "pay" /\ PayBreaks(r, seen)
    \/ Kind(r) = "charge" /\ ChargeBreaks(r, seen)
    \/ Kind(r) \in {"voidback", "rback"} /\ StockBackBreaks(r, seen)
    \/ Kind(r) \in {"voiddebt", "rdebt"} /\ DebtBackBreaks(r, seen)
    \/ Kind(r) = "void" /\ VoidBreaks(r, seen)
    \/ Kind(r) = "line" /\ LineBreaks(r, seen)
    \/ Kind(r) = "out" /\ OutBreaks(r, seen)
    \/ Kind(r) = "receive" /\ ReceiveBreaks(r, seen)

\* What plan_op makes of a row: write it, nothing to write (a void of a sale that is
\* voided already), refuse it for good, or for now.
Plan(r, seen) ==
    IF Missing(r, seen) \/ Kind(r) \in denied THEN "later"
    ELSE IF Kind(r) = "void" /\ VoidsOf(seen, Says[r[1]].of) # {} THEN "noop"
    ELSE IF r \in db \/ Breaks(r, seen)
         THEN IF Kind(r) = "out" /\ ~Complete(seen, r[1]) THEN "later" ELSE "rejected"
    ELSE "write"

-----------------------------------------------------------------------------
(* The till pushes, again and again *)

Push(w, d) ==
    /\ txn[w] = Idle /\ waits[d] = None /\ Pending(d) # {}
    /\ GoOn(w, [Idle EXCEPT !.doc = d, !.step = "look", !.todo = Pending(d), !.sent = Pending(d)])
    /\ waits' = [waits EXCEPT ![d] = w]
    /\ UNCHANGED <<db, recorded, shown, denied, loose, faults>>

\* The till stops waiting; the server goes on.
NoAnswer(d) ==
    /\ waits[d] # None /\ faults < MaxFault
    /\ waits' = [waits EXCEPT ![d] = None]
    /\ faults' = faults + 1
    /\ UNCHANGED <<db, recorded, txn, shown, denied, loose>>

\* What the till's outbox shows once it has read the answers to the rows in `is`.
Read(t, is) ==
    [r \in Row |-> IF r \in Rows(t, is) /\ t.got[r[2]] \in {"applied", "rejected"}
                   THEN t.got[r[2]] ELSE shown[r]]

Answer(w) ==
    LET t == txn[w] IN
    /\ t.step = "answer"
    /\ IF waits[t.doc] = w
       THEN /\ shown' = Read(t, t.sent)
            /\ waits' = [waits EXCEPT ![t.doc] = None]
       ELSE UNCHANGED <<shown, waits>>
    /\ GoOn(w, Idle)
    /\ UNCHANGED <<db, recorded, denied, loose, faults>>

\* The app is killed between two of the till's writes: it has read some of the answers.
KillApp(w) ==
    LET t == txn[w] IN
    /\ t.step = "answer" /\ waits[t.doc] = w /\ faults < MaxFault
    /\ \E n \in t.sent : shown' = Read(t, {i \in t.sent : i < n})
    /\ waits' = [waits EXCEPT ![t.doc] = None]
    /\ GoOn(w, Idle)
    /\ faults' = faults + 1
    /\ UNCHANGED <<db, recorded, denied, loose>>

-----------------------------------------------------------------------------
(* The server: _push_together *)

Recorded(t) == {i \in t.sent : recorded[<<t.doc, i>>] # "none"}
\* Roll back, and decide the rows one by one, or only record what became of them.
RollBack(t, step) == [t EXCEPT !.step = step, !.todo = t.sent, !.wrote = {}, !.held = {}]
\* All refused for now: nothing is recorded.
ForNow(t) == [RollBack(t, "answer") EXCEPT !.got = [i \in 1 .. MaxRows |->
                                                      IF i \in t.sent THEN "later" ELSE "none"]]

\* Mutated: rows are decided one by one whether they came together or not.
LookAway(w) ==
    LET t == txn[w] IN
    /\ t.step = "look"
    /\ GoOn(w, [t EXCEPT !.step = "singly"])
    /\ UNCHANGED <<db, recorded, shown, waits, denied, loose, faults>>

\* A single row is decided alone; so are rows of which one was recorded before.
Look(w) ==
    LET t == txn[w] IN
    /\ t.step = "look"
    /\ GoOn(w, [t EXCEPT !.step = IF Recorded(t) # {} \/ Cardinality(t.sent) = 1
                                  THEN "singly" ELSE "plan"])
    /\ UNCHANGED <<db, recorded, shown, waits, denied, loose, faults>>

\* SELECT ... FOR UPDATE of a committed header waits for who holds it.
Unlocked(w, ds) == \A v \in Worker \ {w} : txn[v].held \cap ds = {}
\* record_change: one transaction at a time has written to the feed.
FeedFree(w) == \A v \in Worker \ {w} : txn[v].wrote = {}

Headers(ds) == {d \in ds : Exists(db, d)}

CanRead(w, r) == Unlocked(w, Headers(Reads(r)))

\* The first step of _apply: lock, read, and check the next row.
PlanRow(w) ==
    LET t == txn[w]
        r == <<t.doc, At(t)>>
        held == [t EXCEPT !.held = @ \cup Headers(Reads(r))]
        plan == Plan(r, db \cup t.wrote) IN
    /\ t.step = "plan" /\ t.todo # {}
    /\ CanRead(w, r)
    /\ GoOn(w, CASE plan = "write"    -> [held EXCEPT !.step = "write"]
                 [] plan = "noop"     -> [held EXCEPT !.todo = @ \ {At(t)}]
                 [] plan = "rejected" -> RollBack(t, "settle")
                 [] plan = "later"    -> ForNow(t))
    /\ UNCHANGED <<db, recorded, shown, waits, denied, loose, faults>>

\* Then it writes, and enters the change in the feed.  A row that is there by now
\* (IntegrityError) undoes the transaction.
WriteRow(w) ==
    LET t == txn[w]
        r == <<t.doc, At(t)>> IN
    /\ t.step = "write" /\ FeedFree(w)
    /\ GoOn(w, IF r \notin db
               THEN [t EXCEPT !.step = "plan", !.wrote = @ \cup {r}, !.todo = @ \ {At(t)}]
               ELSE IF Recorded(t) # {} THEN RollBack(t, "singly") ELSE ForNow(t))
    /\ UNCHANGED <<db, recorded, shown, waits, denied, loose, faults>>

Commit(w) ==
    LET t == txn[w] IN
    /\ t.step = "plan" /\ t.todo = {}
    /\ IF Recorded(t) # {}
       THEN GoOn(w, RollBack(t, "singly")) /\ UNCHANGED <<db, recorded>>
       ELSE /\ db' = db \cup t.wrote
            /\ recorded' = [r \in Row |-> IF r \in Rows(t, t.sent) THEN "applied" ELSE recorded[r]]
            /\ GoOn(w, [RollBack(t, "answer") EXCEPT
                          !.got = [i \in 1 .. MaxRows |-> IF i \in t.sent THEN "applied" ELSE "none"]])
    /\ UNCHANGED <<shown, waits, denied, loose, faults>>

\* _settle, for each row in its own commit.  An outcome recorded meanwhile stands.
Settle(w) ==
    LET t == txn[w]
        now == IF AtOnce THEN t.todo ELSE {At(t)} IN
    /\ t.step = "settle"
    /\ recorded' = [r \in Row |-> IF r \in Rows(t, now) /\ recorded[r] = "none"
                                  THEN "rejected" ELSE recorded[r]]
    /\ GoOn(w, [t EXCEPT !.todo = @ \ now,
                         !.got = [i \in 1 .. MaxRows |-> IF i \in now THEN recorded'[<<t.doc, i>>] ELSE @[i]],
                         !.step = IF t.todo = now THEN "answer" ELSE "settle"])
    /\ UNCHANGED <<db, shown, waits, denied, loose, faults>>

-----------------------------------------------------------------------------
(* _push_one, for one row after the other, each a transaction of its own *)

Is(w, verdict) ==
    LET t == txn[w] IN
    GoOn(w, [t EXCEPT !.todo = @ \ {At(t)}, !.got[At(t)] = verdict,
                      !.step = IF t.todo = {At(t)} THEN "answer" ELSE "singly"])

\* Mutated: what was recorded before is not looked up.
PushOneAgain(w) ==
    LET t == txn[w]
        r == <<t.doc, At(t)>>
        plan == Plan(r, db)
        verdict == CASE plan \in {"write", "noop"} -> "applied" [] OTHER -> plan IN
    /\ t.step = "singly"
    /\ CanRead(w, r) /\ (plan = "write" => FeedFree(w))
    /\ db' = IF plan = "write" THEN db \cup {r} ELSE db
    /\ recorded' = IF verdict = "later" THEN recorded ELSE [recorded EXCEPT ![r] = verdict]
    /\ Is(w, verdict)
    /\ UNCHANGED <<shown, waits, denied, loose, faults>>

PushOne(w) ==
    LET t == txn[w]
        r == <<t.doc, At(t)>>
        plan == Plan(r, db)
        verdict == CASE plan \in {"write", "noop"} -> "applied" [] OTHER -> plan IN
    /\ t.step = "singly"
    /\ IF recorded[r] # "none"
       THEN Is(w, recorded[r]) /\ UNCHANGED <<db, recorded>>
       ELSE /\ CanRead(w, r) /\ (plan = "write" => FeedFree(w))
            /\ db' = IF plan = "write" THEN db \cup {r} ELSE db
            /\ recorded' = IF verdict = "later" THEN recorded ELSE [recorded EXCEPT ![r] = verdict]
            /\ Is(w, verdict)
    /\ UNCHANGED <<shown, waits, denied, loose, faults>>

-----------------------------------------------------------------------------
(* Around it *)

\* The database connection is lost, or the server stops: nothing is
\* committed, and the till gets an error.
Fail(w) ==
    /\ txn[w] # Idle /\ faults < MaxFault
    /\ GoOn(w, Idle)
    /\ waits' = [d \in Doc |-> IF waits[d] = w THEN None ELSE waits[d]]
    /\ faults' = faults + 1
    /\ UNCHANGED <<db, recorded, shown, denied, loose>>

\* A user loses or gets a permission.
ChangePermission(k) ==
    /\ denied' \in {denied \cup {k}, denied \ {k}}
    /\ UNCHANGED <<db, recorded, txn, shown, waits, loose, faults>>

\* The product is edited to move stock, or not to.
EditProduct(d) ==
    /\ loose' \in {loose \cup {d}, loose \ {d}}
    /\ UNCHANGED <<db, recorded, txn, shown, waits, denied, faults>>

Work(w) ==
    \/ \E d \in Doc : Push(w, d)
    \/ Look(w) \/ PlanRow(w) \/ WriteRow(w) \/ Commit(w) \/ Settle(w) \/ PushOne(w) \/ Answer(w)

Disturb ==
    \/ \E w \in Worker : Fail(w) \/ KillApp(w)
    \/ \E d \in Doc : NoAnswer(d)
    \/ \E k \in Deniable : ChangePermission(k)
    \/ \E d \in Edited : EditProduct(d)

Next == Disturb \/ \E w \in Worker : Work(w)

Spec == Init /\ [][Next]_vars

\* Threads go on, and a till pushes what is pending again.
Fairness ==
    /\ \A w \in Worker :
         WF_vars(Look(w) \/ PlanRow(w) \/ WriteRow(w) \/ Commit(w) \/ Settle(w) \/ PushOne(w) \/ Answer(w))
    /\ \A d \in Doc : SF_vars(\E w \in Worker : Push(w, d))
FairSpec == Spec /\ Fairness

-----------------------------------------------------------------------------
(* Properties *)

TypeOK ==
    /\ db \subseteq Row
    /\ recorded \in [Row -> {"none", "applied", "rejected"}]
    /\ txn \in [Worker -> Txn]
    /\ shown \in [Row -> {"pending", "applied", "rejected"}]
    /\ waits \in [Doc -> Worker \cup {None}]
    /\ denied \subseteq Deniable
    /\ loose \subseteq Edited
    /\ faults \in 0 .. MaxFault

\* A document's rows are all in the books or none of them is: a receipt never leaves
\* a bill for goods that were refused.
AllOrNone == \A d \in Doc : RowsOf[d] \subseteq db \/ RowsOf[d] \cap db = {}

\* What became of a document, as its rows tell it.
Became(d) ==
    IF RowsOf[d] \subseteq db THEN "entered"
    ELSE IF RowsOf[d] \cap db # {} THEN "torn"
    ELSE IF \E r \in RowsOf[d] : recorded[r] # "none" THEN "refused" ELSE "open"

Books == INSTANCE Documents WITH state <- [d \in Doc |-> Became(d)]

\* The server enters each document once and whole, or refuses it for good, and takes
\* back no more of a sale than it sold, whatever tills send at the same time.
ImplementsDocuments == Books!Spec

\* A till shows a document as a whole: no row applied beside one that was refused,
\* and what it shows applied is in the books.
ShownWhole ==
    \A d \in Doc : \A r \in RowsOf[d] :
        shown[r] = "applied" => r \in db /\ \A q \in RowsOf[d] : shown[q] # "rejected"

\* No transactions wait for each other in a circle, for a header or for the feed.
WaitsFor(w, v) ==
    LET t == txn[w] IN
    /\ v # w
    /\ \/ /\ t.step \in {"plan", "singly"} /\ t.todo # {}
          /\ txn[v].held \cap Headers(Reads(<<t.doc, At(t)>>)) # {}
       \/ t.step = "write" /\ txn[v].wrote # {}
NoDeadlock == \A ws \in (SUBSET Worker) \ {{}} : \E w \in ws : \A v \in ws : ~WaitsFor(w, v)

\* Once connections hold and permissions are back, every document is decided.
EveryDocumentIsDecided ==
    (<>[][~Disturb]_vars /\ <>[](denied = {})) => \A d \in Doc : <>(Pending(d) = {})
=============================================================================
