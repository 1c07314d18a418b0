-------------------------------- MODULE Counter --------------------------------
(***************************************************************************)
(* Requests a shop's staff send to the server over REST, each a database   *)
(* transaction that locks the rows it decides by, checks, writes and       *)
(* commits: sales, voids and returns, what customers and suppliers are     *)
(* owed, receipts and corrections of stock, the close of a drawer.         *)
(*   server/dukan/infrastructure/sales_service.py, customers_service.py,   *)
(*   purchasing_service.py, catalog_service.py, shift_cash.py              *)
(*   server/dukan/domain/sales.py, customers.py, inventory.py              *)
(*                                                                         *)
(* The ledgers of stock and debts are append-only and read as a sum; their *)
(* sums are kept here.  The feed's lock is always the last one and lasts   *)
(* until the commit (ChangeFeed), so the write of a request stands for     *)
(* both.  What is counted in a drawer is in Drawer, users and permissions  *)
(* in Staff.  A sale is paid in cash; a return that names no drawer gives  *)
(* its money back another way; all goods are counted in stock.             *)
(***************************************************************************)
EXTENDS Integers, FiniteSets, Sequences, FiniteSetsExt

CONSTANTS
    Product,    \* by id
    Customer, Supplier, Shift,
    Request,
    Asks,       \* Asks[q]: what request q asks for
    Mixes,      \* bound: the sets of requests that may be sent in one run
    Price,      \* Price[p]: of a whole unit of p
    Unit,       \* Unit[p]: the quantity that is a whole unit (10^decimal_places)
    OnHand0, Debt0, Owed0,  \* what is in stock and owed at the start
    Limit0,     \* the customers' credit limits
    Worker,     \* server threads
    None        \* no customer, no shift, no limit

Line == [product : Product, qty : Int]
Kinds == {"sale", "void", "refund", "payment", "writeoff", "limit", "active",
          "receive", "pay", "adjust", "close"}

\* A void and a return name the sale, a close the shift; n is the money paid, forgiven or
\* billed, a new limit, the change of stock or, for "active", whether (1) or not (0).
Ask == [kind : Kinds, of : Request, lines : Seq(Line), discount : Int, n : Int \cup {None},
        who : Customer \cup Supplier \cup {None}, shift : Shift \cup {None}, version : Nat]

ASSUME ProductAssumption == Product \subseteq Nat
ASSUME NoneAssumption == None \notin Customer \cup Supplier \cup Shift \cup Request \cup Int
ASSUME WorkerAssumption == IsFiniteSet(Worker)
ASSUME StartAssumption ==
    /\ Mixes \subseteq SUBSET Request
    /\ OnHand0 \in [Product -> Nat] /\ Debt0 \in [Customer -> Nat] /\ Owed0 \in [Supplier -> Nat]
    /\ Limit0 \in [Customer -> Nat \cup {None}]
    /\ Price \in [Product -> Nat] /\ Unit \in [Product -> Nat \ {0}]
ASSUME AsksAssumption ==
    /\ Asks \in [Request -> Ask]
    /\ \A q \in Request :
         /\ Asks[q].kind # "limit" => Asks[q].n \in Int
         /\ Asks[q].kind = "sale" => Asks[q].who \in Customer \cup {None}
         /\ Asks[q].kind \in {"payment", "writeoff", "limit", "active"} => Asks[q].who \in Customer
         /\ Asks[q].kind = "receive" => Asks[q].who \in Supplier \cup {None}
         /\ Asks[q].kind = "pay" => Asks[q].who \in Supplier
         /\ Asks[q].kind = "close" => Asks[q].shift \in Shift

VARIABLES
    asked,      \* the requests that are sent
    request,    \* request[q]: whether q is done or refused
    stock,      \* stock[p]: the sum of the movements of p
    sale,       \* sale[s]: the sale that request s made, and what its returns took back
    debt,       \* debt[c]: the sum of the ledger of customer c
    bill,       \* bill[x]: the sum of the ledger of supplier x
    card,       \* card[c]: the row of customer c
    drawer,     \* drawer[h]: the status of shift h
    txn         \* txn[w]: the request thread w serves and the rows it has locked

books == <<stock, sale, debt, bill, card, drawer>>
vars == <<asked, request, books, txn>>

-----------------------------------------------------------------------------
(* What requests are about *)

Is(kind) == {q \in Request : Asks[q].kind = kind}
Done == {q \in Request : request[q] = "done"}
Voids(s) == {q \in Is("void") \cap Done : Asks[q].of = s}
Returns(s) == {q \in Is("refund") \cap Done : Asks[q].of = s}

Sum(op(_), s) == MapThenSumSet(op, s)
LinesOf(q, p) == {i \in DOMAIN Asks[q].lines : Asks[q].lines[i].product = p}
Qty(q, p) == Sum(LAMBDA i : Asks[q].lines[i].qty, LinesOf(q, p))
Goods(q) == {Asks[q].lines[i].product : i \in DOMAIN Asks[q].lines}

\* Rounded half up; b > 0 and a >= 0.
Div(a, b) == (2 * a + b) \div (2 * b)

\* What a sale charges, by its prices and units.
Worth(q, p) == Sum(LAMBDA i : Div(Price[p] * Asks[q].lines[i].qty, Unit[p]), LinesOf(q, p))
Subtotal(q) == Sum(LAMBDA p : Worth(q, p), Goods(q))
Total(q) == Subtotal(q) - Asks[q].discount
Paid(q) == Asks[q].n
Charge(q) == Total(q) - Paid(q)

LinesValid(q) == \A i \in DOMAIN Asks[q].lines : Asks[q].lines[i].qty > 0

\* What of a sale's goods is not returned yet.
Left(s, p) == Qty(s, p) - sale[s].returned[p]

\* What the goods of a return were sold for: of each product its share of what it made.
Gross(q) ==
    LET s == Asks[q].of IN
    Sum(LAMBDA p : IF Qty(s, p) <= 0 THEN 0 ELSE Div(Worth(s, p) * Qty(q, p), Qty(s, p)),
        Goods(q))

\* Mutated: the whole discount comes off each return.
RefundTotalAllDiscount(q) ==
    LET s == Asks[q].of
        rest == Total(s) - sale[s].given IN
    IF \A p \in Goods(s) : Left(s, p) = Qty(q, p) THEN rest
    ELSE Min({Gross(q) - Asks[s].discount, rest})

\* Its share of the sale's discount.
DiscountShare(q) ==
    LET s == Asks[q].of IN
    IF Subtotal(s) <= 0 THEN 0 ELSE Div(Asks[s].discount * Gross(q), Subtotal(s))

\* Mutated: the last return is worth its own share, like any other.
RefundTotalByShare(q) == Gross(q) - DiscountShare(q)

\* The money a return is worth; the last return takes what is left.
RefundTotal(q) ==
    LET s == Asks[q].of
        rest == Total(s) - sale[s].given IN
    IF \A p \in Goods(s) : Left(s, p) = Qty(q, p) THEN rest
    ELSE Min({Gross(q) - DiscountShare(q), rest})

-----------------------------------------------------------------------------
(* The rows a request locks, and the order it locks them in *)

Table == {"sale", "supplier", "shift", "product", "customer"}
Row == Table \X (Product \cup Customer \cup Supplier \cup Shift \cup Request)
Opt(table, id) == IF id = None THEN {} ELSE {<<table, id>>}
Each(table, ids) == {<<table, id>> : id \in ids}

SaleRows(q) ==
    Opt("shift", Asks[q].shift) \cup Each("product", Goods(q))
    \cup (IF Charge(q) > 0 THEN Opt("customer", Asks[q].who) ELSE {})
VoidRows(q) ==
    LET s == Asks[q].of IN
    {<<"sale", s>>} \cup Opt("shift", Asks[s].shift)
    \cup (IF Charge(s) > 0 THEN Opt("customer", Asks[s].who) ELSE {})
RefundRows(q) ==
    LET s == Asks[q].of IN
    {<<"sale", s>>} \cup Opt("shift", Asks[q].shift)
    \cup (IF Charge(s) > sale[s].takenBack THEN Opt("customer", Asks[s].who) ELSE {})
PaymentRows(q) == Opt("shift", Asks[q].shift) \cup {<<"customer", Asks[q].who>>}
CardRows(q) == {<<"customer", Asks[q].who>>}
ReceiptRows(q) == Each("product", Goods(q))
PayRows(q) == {<<"supplier", Asks[q].who>>} \cup Opt("shift", Asks[q].shift)
CloseRows(q) == {<<"shift", Asks[q].shift>>}

Rows(q) ==
    CASE Asks[q].kind = "sale"    -> SaleRows(q)
      [] Asks[q].kind = "void"    -> VoidRows(q)
      [] Asks[q].kind = "refund"  -> RefundRows(q)
      [] Asks[q].kind = "payment" -> PaymentRows(q)
      [] Asks[q].kind \in {"writeoff", "limit", "active"} -> CardRows(q)
      [] Asks[q].kind = "receive" -> ReceiptRows(q)
      [] Asks[q].kind = "pay"     -> PayRows(q)
      [] Asks[q].kind = "close"   -> CloseRows(q)
      [] Asks[q].kind = "adjust"  -> {}

\* Mutated: a return locks the customer before the drawer.
TablesCustomerFirst(kind) ==
    CASE kind = "sale"           -> <<"shift", "product", "customer">>
      [] kind = "void"           -> <<"sale", "shift", "customer">>
      [] kind = "refund"         -> <<"sale", "customer", "shift">>
      [] kind = "payment"        -> <<"shift", "customer">>
      [] kind = "pay"            -> <<"supplier", "shift">>
      [] OTHER                   -> <<>>

\* The order of the tables in the transactions that lock rows of more than one.
Tables(kind) ==
    CASE kind = "sale"             -> <<"shift", "product", "customer">>
      [] kind \in {"void", "refund"} -> <<"sale", "shift", "customer">>
      [] kind = "payment"          -> <<"shift", "customer">>
      [] kind = "pay"              -> <<"supplier", "shift">>
      [] OTHER                     -> <<>>

\* A sale locks its products as they come in the cart, a receipt by id.
InCart(q, p, o) ==
    \E i \in DOMAIN Asks[q].lines :
        /\ Asks[q].lines[i].product = p
        /\ \A j \in 1 .. i : Asks[q].lines[j].product # o

Before(q, r, t) ==
    \/ \E i, j \in DOMAIN Tables(Asks[q].kind) :
         i < j /\ Tables(Asks[q].kind)[i] = r[1] /\ Tables(Asks[q].kind)[j] = t[1]
    \/ /\ r[1] = "product" /\ t[1] = "product"
       /\ IF Asks[q].kind = "sale" THEN InCart(q, r[2], t[2]) ELSE r[2] < t[2]

\* What request t.req locks next.
IsNext(t, r) ==
    /\ r \in Rows(t.req) \ t.held
    /\ \A o \in Rows(t.req) \ t.held : ~Before(t.req, o, r)

-----------------------------------------------------------------------------
(* What a request is refused for: before it locks anything *)

Malformed(q) ==
    \/ Asks[q].kind \in {"sale", "receive"} /\ Asks[q].lines = <<>>
    \/ Asks[q].kind = "payment" /\ Asks[q].n <= 0
    \/ Asks[q].kind = "limit" /\ Asks[q].n # None /\ Asks[q].n < 0
    \/ Asks[q].kind = "adjust" /\ Asks[q].n = 0

-----------------------------------------------------------------------------
(* ... and when it has locked row r beside those in held *)

DiscountValid(q) == Asks[q].discount >= 0 /\ Asks[q].discount <= Subtotal(q)
Settleable(q) == Paid(q) >= 0 /\ (Asks[q].who = None => Paid(q) >= Total(q))
NotOverpaid(q) == Paid(q) <= Total(q)
SaleValid(q) == LinesValid(q) /\ DiscountValid(q) /\ Settleable(q) /\ NotOverpaid(q)

\* Mutated: the lines of one product are not counted together.
ShortByLine(q) ==
    \E i \in DOMAIN Asks[q].lines : Asks[q].lines[i].qty > stock[Asks[q].lines[i].product].onHand

\* There is less of a product than the cart takes.
Short(q) == \E p \in Goods(q) : Qty(q, p) > stock[p].onHand

OverLimit(q, c) == card[c].limit # None /\ debt[c] + Charge(q) > card[c].limit

SaleRefused(q, r, held) ==
    \/ r[1] = "shift" /\ drawer[r[2]] # "open"
    \/ r[1] = "product" /\ Each("product", Goods(q)) \subseteq held \cup {r}
       /\ (~SaleValid(q) \/ Short(q))
    \/ r[1] = "customer" /\ (~card[r[2]].active \/ OverLimit(q, r[2]))

\* The cash of a sale stays in the count of its drawer.
VoidRefused(q, r) ==
    \/ r[1] = "sale" /\ (sale[r[2]].status # "settled" \/ Returns(r[2]) # {})
    \/ r[1] = "shift" /\ drawer[r[2]] # "open" /\ Paid(Asks[q].of) > 0

RefundInvalid(q, s) ==
    Goods(q) = {} \/ \E p \in Goods(q) : Qty(q, p) <= 0 \/ Qty(q, p) > Left(s, p)
RefundRefused(q, r) ==
    \/ r[1] = "sale" /\ (sale[r[2]].status # "settled" \/ RefundInvalid(q, r[2]))
    \/ r[1] = "shift" /\ drawer[r[2]] # "open"

PaymentRefused(q, r) ==
    \/ r[1] = "shift" /\ drawer[r[2]] # "open"
    \/ r[1] = "customer" /\ Asks[q].n > debt[r[2]]
WriteOffRefused(q, r) == Asks[q].n <= 0 \/ Asks[q].n > debt[r[2]]
StaleVersion(q, r) == card[r[2]].version # Asks[q].version
ReceiptRefused(q, r, held) ==
    /\ Each("product", Goods(q)) \subseteq held \cup {r}
    /\ ~LinesValid(q) \/ Asks[q].n < 0
PayRefused(q, r) ==
    \/ r[1] = "supplier" /\ (Asks[q].n <= 0 \/ Asks[q].n > bill[r[2]])
    \/ r[1] = "shift" /\ drawer[r[2]] # "open"
CloseRefused(r) == drawer[r[2]] # "open"

Refused(q, r, held) ==
    CASE Asks[q].kind = "sale"     -> SaleRefused(q, r, held)
      [] Asks[q].kind = "void"     -> VoidRefused(q, r)
      [] Asks[q].kind = "refund"   -> RefundRefused(q, r)
      [] Asks[q].kind = "payment"  -> PaymentRefused(q, r)
      [] Asks[q].kind = "writeoff" -> WriteOffRefused(q, r)
      [] Asks[q].kind \in {"limit", "active"} -> StaleVersion(q, r)
      [] Asks[q].kind = "receive"  -> ReceiptRefused(q, r, held)
      [] Asks[q].kind = "pay"      -> PayRefused(q, r)
      [] Asks[q].kind = "close"    -> CloseRefused(r)

-----------------------------------------------------------------------------
(* A transaction: it begins, locks its rows one at a time, and writes or fails *)

Txn == [req : Request \cup {None}, held : SUBSET Row, seen : Int]
Idle == [req |-> None, held |-> {}, seen |-> 0]
GoOn(w, t) == txn' = [txn EXCEPT ![w] = t]

NoSale == [status |-> "none", returned |-> [p \in Product |-> 0], given |-> 0, takenBack |-> 0]

Init ==
    /\ asked \in Mixes
    /\ request = [q \in Request |-> "new"]
    /\ stock = [p \in Product |-> [onHand |-> OnHand0[p], lost |-> 0]]
    /\ sale = [s \in Request |-> NoSale]
    /\ debt = Debt0 /\ bill = Owed0
    /\ card = [c \in Customer |-> [limit |-> Limit0[c], active |-> TRUE, version |-> 0]]
    /\ drawer = [h \in Shift |-> "open"]
    /\ txn = [w \in Worker |-> Idle]

Begin(w, q) ==
    /\ q \in asked /\ txn[w] = Idle /\ request[q] = "new"
    /\ \A v \in Worker : txn[v].req # q
    /\ IF Malformed(q)
       THEN request' = [request EXCEPT ![q] = "refused"] /\ UNCHANGED txn
       ELSE GoOn(w, [Idle EXCEPT !.req = q]) /\ UNCHANGED request
    /\ UNCHANGED <<asked, books>>

\* Mutated: the customer is read without a lock.
TakenButCustomers(w, r) == r[1] # "customer" /\ \E v \in Worker \ {w} : r \in txn[v].held

\* Another transaction holds the row.
Taken(w, r) == \E v \in Worker \ {w} : r \in txn[v].held

\* The balance a request reads when it has locked the customer.
Seen(t, r) == IF r[1] = "customer" THEN debt[r[2]] ELSE t.seen

\* SELECT ... FOR UPDATE of the next row, and what the request checks by it.
Lock(w, r) ==
    LET t == txn[w] IN
    /\ t.req # None /\ IsNext(t, r) /\ ~Taken(w, r)
    /\ IF Refused(t.req, r, t.held)
       THEN GoOn(w, Idle) /\ request' = [request EXCEPT ![t.req] = "refused"]
       ELSE /\ GoOn(w, [req |-> t.req, held |-> t.held \cup {r}, seen |-> Seen(t, r)])
            /\ UNCHANGED request
    /\ UNCHANGED <<asked, books>>

\* The connection is lost or the database ends a transaction that waits in a circle.
Fail(w) ==
    /\ txn[w] # Idle
    /\ GoOn(w, Idle)
    /\ UNCHANGED <<asked, request, books>>

-----------------------------------------------------------------------------
(* What a request writes when it holds every row it needs, and commits *)

Ready(w, kind) ==
    /\ txn[w].req # None /\ Asks[txn[w].req].kind = kind
    /\ Rows(txn[w].req) \subseteq txn[w].held
Commit(w) ==
    /\ request' = [request EXCEPT ![txn[w].req] = "done"]
    /\ GoOn(w, Idle) /\ UNCHANGED asked

Move(delta(_)) == stock' = [p \in Product |-> [stock[p] EXCEPT !.onHand = @ + delta(p)]]
\* An entry of the customer's ledger, if there is anything to enter.
Enter(c, amount) == debt' = IF amount = 0 THEN debt ELSE [debt EXCEPT ![c] = @ + amount]

SettleSale(w) ==
    LET s == txn[w].req IN
    /\ Ready(w, "sale")
    /\ sale' = [sale EXCEPT ![s].status = "settled"]
    /\ Move(LAMBDA p : -Qty(s, p))
    /\ Enter(Asks[s].who, Charge(s))
    /\ Commit(w) /\ UNCHANGED <<bill, card, drawer>>

\* The debt goes with the sale as far as it is still owed.
VoidSale(w) ==
    LET s == Asks[txn[w].req].of
        owed == Max({0, txn[w].seen}) IN
    /\ Ready(w, "void")
    /\ sale' = [sale EXCEPT ![s].status = "voided"]
    /\ Move(LAMBDA p : Qty(s, p))
    /\ Enter(Asks[s].who, IF Charge(s) = 0 THEN 0 ELSE -Min({Charge(s), owed}))
    /\ Commit(w) /\ UNCHANGED <<bill, card, drawer>>

\* What a return takes off the debt instead of paying it out.
DebtBack(q, seen) ==
    LET s == Asks[q].of
        charged == Charge(s) - sale[s].takenBack IN
    IF charged <= 0 THEN 0 ELSE Max({0, Min({RefundTotal(q), charged, seen})})

RefundSale(w) ==
    LET q == txn[w].req
        s == Asks[q].of
        debtBack == DebtBack(q, txn[w].seen) IN
    /\ Ready(w, "refund")
    /\ sale' = [sale EXCEPT ![s] =
                  [status |-> @.status,
                   returned |-> [p \in Product |-> @.returned[p] + Qty(q, p)],
                   given |-> @.given + RefundTotal(q),
                   takenBack |-> @.takenBack + debtBack]]
    /\ Move(LAMBDA p : Qty(q, p))
    /\ Enter(Asks[s].who, -debtBack)
    /\ Commit(w) /\ UNCHANGED <<bill, card, drawer>>

RecordPayment(w) ==
    LET a == Asks[txn[w].req] IN
    /\ Ready(w, "payment")
    /\ Enter(a.who, -a.n)
    /\ Commit(w) /\ UNCHANGED <<stock, sale, bill, card, drawer>>

WriteOff(w) ==
    LET a == Asks[txn[w].req] IN
    /\ Ready(w, "writeoff")
    /\ Enter(a.who, -a.n)
    /\ Commit(w) /\ UNCHANGED <<stock, sale, bill, card, drawer>>

SetCreditLimit(w) ==
    LET a == Asks[txn[w].req] IN
    /\ Ready(w, "limit")
    /\ card' = [card EXCEPT ![a.who].limit = a.n, ![a.who].version = @ + 1]
    /\ Commit(w) /\ UNCHANGED <<stock, sale, debt, bill, drawer>>

SetActive(w) ==
    LET a == Asks[txn[w].req] IN
    /\ Ready(w, "active")
    /\ card' = [card EXCEPT ![a.who].active = (a.n = 1), ![a.who].version = @ + 1]
    /\ Commit(w) /\ UNCHANGED <<stock, sale, debt, bill, drawer>>

ReceiveGoods(w) ==
    LET a == Asks[txn[w].req] IN
    /\ Ready(w, "receive")
    /\ Move(LAMBDA p : Qty(txn[w].req, p))
    /\ bill' = IF a.who = None THEN bill ELSE [bill EXCEPT ![a.who] = @ + a.n]
    /\ Commit(w) /\ UNCHANGED <<sale, debt, card, drawer>>

PaySupplier(w) ==
    LET a == Asks[txn[w].req] IN
    /\ Ready(w, "pay")
    /\ bill' = [bill EXCEPT ![a.who] = @ - a.n]
    /\ Commit(w) /\ UNCHANGED <<stock, sale, debt, card, drawer>>

\* A correction may leave less than nothing: lost counts what corrections took out.
AdjustStock(w) ==
    LET q == txn[w].req
        n == Asks[q].n IN
    /\ Ready(w, "adjust")
    /\ stock' = [p \in Product |->
                   IF p \notin Goods(q) THEN stock[p]
                   ELSE [onHand |-> stock[p].onHand + n,
                         lost |-> stock[p].lost + (IF n < 0 THEN -n ELSE 0)]]
    /\ Commit(w) /\ UNCHANGED <<sale, debt, bill, card, drawer>>

CloseShift(w) ==
    /\ Ready(w, "close")
    /\ drawer' = [drawer EXCEPT ![Asks[txn[w].req].shift] = "closed"]
    /\ Commit(w) /\ UNCHANGED <<stock, sale, debt, bill, card>>

Write(w) ==
    \/ SettleSale(w) \/ VoidSale(w) \/ RefundSale(w) \/ RecordPayment(w) \/ WriteOff(w)
    \/ SetCreditLimit(w) \/ SetActive(w) \/ ReceiveGoods(w) \/ PaySupplier(w)
    \/ AdjustStock(w) \/ CloseShift(w)

Next ==
    \E w \in Worker :
        \/ \E q \in Request : Begin(w, q)
        \/ txn[w].req # None /\ \E r \in Rows(txn[w].req) : Lock(w, r)
        \/ Fail(w) \/ Write(w)

Spec == Init /\ [][Next]_vars

-----------------------------------------------------------------------------
(* Properties *)

TypeOK ==
    /\ asked \subseteq Request
    /\ request \in [Request -> {"new", "done", "refused"}]
    /\ stock \in [Product -> [onHand : Int, lost : Nat]]
    /\ sale \in [Request -> [status : {"none", "settled", "voided"},
                             returned : [Product -> Nat], given : Nat, takenBack : Nat]]
    /\ debt \in [Customer -> Int] /\ bill \in [Supplier -> Int]
    /\ card \in [Customer -> [limit : Nat \cup {None}, active : BOOLEAN, version : Nat]]
    /\ drawer \in [Shift -> {"open", "closed"}]
    /\ txn \in [Worker -> Txn]

\* Requests that run at the same time never sell goods twice (what corrections took
\* out of stock apart), make the shop owe a customer, or pay a supplier too much.
BalancesHold ==
    /\ \A p \in Product : stock[p].onHand + stock[p].lost >= 0
    /\ \A c \in Customer : debt[c] >= 0
    /\ \A x \in Supplier : bill[x] >= 0

\* A sale is voided or goods of it are returned, never both, and voided once; its
\* returns take back no more than it sold, give back no more than it charged, and
\* exactly that once every piece is back, however they are split and rounded.
ReturnsAddUp ==
    \A s \in Is("sale") \cap Done :
        /\ Voids(s) = {} \/ Returns(s) = {}
        /\ \A u, v \in Voids(s) : u = v
        /\ \A p \in Goods(s) : Left(s, p) >= 0
        /\ sale[s].given <= Total(s) /\ sale[s].takenBack <= Charge(s)
        /\ (\A p \in Goods(s) : Left(s, p) = 0) => sale[s].given = Total(s)

\* What a customer owes grows only up to the credit limit, and never once the account
\* is closed to credit, even if a manager changes either at the same time.
CreditKept ==
    [][\A c \in Customer : debt'[c] > debt[c] =>
          card[c].active /\ (card[c].limit = None \/ debt'[c] <= card[c].limit)]_vars

\* Requests wait for each other in a circle only because of a cart: one of them is a
\* sale that holds a product with a higher id than the one it waits for.
WaitsFor(w, v) ==
    /\ v # w /\ txn[w].req # None
    /\ \E r \in txn[v].held : IsNext(txn[w], r)
CirclesAreOfCarts ==
    \A ws \in (SUBSET Worker) \ {{}} :
        (\A w \in ws : \E v \in ws : WaitsFor(w, v)) =>
            \E w \in ws : \E r \in txn[w].held, o \in Rows(txn[w].req) :
                /\ Asks[txn[w].req].kind = "sale" /\ IsNext(txn[w], o)
                /\ o[1] = "product" /\ r[1] = "product" /\ o[2] < r[2]
=============================================================================
