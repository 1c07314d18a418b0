----------------------------- MODULE DrawerProofs -----------------------------
(***************************************************************************)
(* Theorems about Drawer, for any number of shifts, rows and threads: its  *)
(* type invariant, RestCloseIsWhole, GoesBackOnce, NoDeadlock and          *)
(* ClosedForGood.  The invariant says what a transaction has locked and    *)
(* what it has read that is still so when it commits.                      *)
(***************************************************************************)
EXTENDS Drawer, FiniteSetTheorems, TLAPS

-----------------------------------------------------------------------------
(* The inductive invariant *)

\* A shift about to be opened is not there yet.
Opening(t) == t.step = "open" => t.shift \in Shift /\ shift[t.shift] = NewShift

\* A row about to be inserted is not there yet; the sale it takes goods back from
\* is locked, and so is the drawer of a REST request.
Inserting(t) ==
    t.step \in {"insert", "returnDrawer"} =>
        /\ t.id \in Entry /\ entry[t.id] = NewEntry
        /\ t.shift \in Shift /\ t.row.shift = t.shift /\ t.row.void = "no"
        /\ t.row.kind \in Kind
        /\ t.row.kind = "return" =>
              t.row.of \in Entry /\ t.row.of \in t.held /\ Returnable(t.row.of)
        /\ t.step = "insert" /\ t.row.way = "rest" => t.shift \in t.held /\ Open(t.shift)

\* A sale about to be voided is locked and still voidable.
Voiding(t) ==
    t.step \in {"void", "voidDrawer"} =>
        /\ t.id \in Entry /\ t.id \in t.held /\ Voidable(t.id)
        /\ t.shift \in Shift /\ t.shift = entry[t.id].shift
        /\ t.row.kind = "sale" /\ t.row.shift = t.shift /\ t.row.way = entry[t.id].way
        /\ t.row.void \in Way
        /\ t.step = "void" /\ t.row.void = "rest" => t.shift \in t.held /\ Open(t.shift)

\* A shift about to be closed over REST is locked, open and counted as it is; one
\* about to be closed by a till was open when it was read.
Closing(t) ==
    /\ t.step = "close" => /\ t.shift \in Shift /\ t.shift \in t.held
                           /\ Open(t.shift) /\ Whole(t.count, t.shift)
    /\ t.step = "lateClose" => t.shift \in Shift /\ t.version = 1

\* Who waits for a drawer holds none.
Waiting(t) == t.wants # None => t.wants \in Shift /\ t.held \cap Shift = {}

TxnOK(t) == Opening(t) /\ Inserting(t) /\ Voiding(t) /\ Closing(t) /\ Waiting(t)

InsertsRow(t) == t.step \in {"insert", "returnDrawer"}

\* Two transactions share no lock, no new shift and no new row.
Apart(t, u) ==
    /\ t.held \cap u.held = {}
    /\ t.step = "open" /\ u.step = "open" => t.shift # u.shift
    /\ InsertsRow(t) /\ InsertsRow(u) => t.id # u.id

\* The version of a shift tells whether it is open.
ShiftOK(s) ==
    /\ shift[s].status = "new" => shift[s] = NewShift
    /\ shift[s].status = "open" <=> shift[s].version = 1
    /\ shift[s].closedBy = "rest" => shift[s].status = "closed"

\* A row that is there has a shift, and the returns of a sale are finitely many.
EntryOK(e) ==
    /\ entry[e].kind # "new" => entry[e].shift \in Shift
    /\ entry[e].kind = "new" => entry[e] = NewEntry
    /\ IsFiniteSet(Returns(e))

Inv ==
    /\ TypeOK
    /\ \A w \in Worker : TxnOK(txn[w])
    /\ \A v, w \in Worker : v # w => Apart(txn[v], txn[w])
    /\ \A s \in Shift : ShiftOK(s)
    /\ \A e \in Entry : EntryOK(e)
    /\ RestCloseIsWhole
    /\ GoesBackOnce

-----------------------------------------------------------------------------
(* The start, and the steps that write neither a shift nor a row *)

(* A thread with no transaction satisfies all that is said of transactions. *)
LEMMA IdleOK ==
    /\ Idle \in Txn /\ TxnOK(Idle)
    /\ \A u : Apart(Idle, u) /\ Apart(u, Idle)
  BY IdsAssumption DEF Idle, Txn, Step, EntryRow, NewEntry, Kind, Way, TxnOK, Opening, Inserting,
     Voiding, Closing, Waiting, Apart, InsertsRow

(* The empty database. *)
LEMMA InvInit == Init => Inv
<1> SUFFICES ASSUME Init PROVE Inv
  OBVIOUS
<1>1. TypeOK
  BY IdleOK DEF Init, TypeOK, NewShift, ShiftRow, NewEntry, EntryRow, Kind, Way
<1>2. /\ \A w \in Worker : TxnOK(txn[w])
      /\ \A v, w \in Worker : v # w => Apart(txn[v], txn[w])
  BY IdleOK DEF Init
<1>3. \A s \in Shift : ShiftOK(s)
  BY DEF Init, ShiftOK, NewShift
<1>4. \A e \in Entry : Returns(e) = {}
  BY DEF Init, Returns, NewEntry
<1>5. \A e \in Entry : EntryOK(e)
  BY <1>4, FS_EmptySet DEF Init, EntryOK, NewEntry
<1>6. RestCloseIsWhole
  BY DEF Init, RestCloseIsWhole, NewShift
<1>7. GoesBackOnce
  <2>1. Cardinality({}) <= Pieces
    BY FS_EmptySet, PiecesAssumption
  <2>2. \A o \in Entry : Cardinality(Returns(o)) = Cardinality({})
    BY <1>4
  <2>. QED BY <1>4, <2>1, <2>2 DEF GoesBackOnce
<1>. QED BY <1>1, <1>2, <1>3, <1>5, <1>6, <1>7 DEF Inv

(* A transaction that begins, goes on or ends without a write keeps the        *)
(* invariant when its own facts hold and it shares nothing with the others.    *)
LEMMA OwnStep ==
    ASSUME Inv, NEW w \in Worker, NEW t \in Txn, TxnOK(t),
           \A v \in Worker \ {w} : Apart(t, txn[v]),
           txn' = [txn EXCEPT ![w] = t], UNCHANGED <<shift, entry>>
    PROVE  Inv'
<1>1. TypeOK'
  BY DEF Inv, TypeOK
<1>2. \A v \in Worker : TxnOK(txn'[v])
  BY DEF Inv, TypeOK
<1>3. \A v \in Worker : TxnOK(txn[v])'
  <2>1. \A o : Returns(o)' = Returns(o)
    BY DEF Returns
  <2>2. \A o : Returnable(o)' = Returnable(o) /\ Voidable(o)' = Voidable(o)
    BY <2>1 DEF Returnable, Voidable
  <2>3. \A counted, s : Whole(counted, s)' = Whole(counted, s)
    BY DEF Whole, Of
  <2>. QED BY <1>2, <2>2, <2>3 DEF TxnOK, Opening, Inserting, Voiding, Closing, Waiting, Open
<1>4. \A u, v \in Worker : u # v => Apart(txn[u], txn[v])'
  <2> SUFFICES ASSUME NEW u \in Worker, NEW v \in Worker, u # v PROVE Apart(txn'[u], txn'[v])
    BY DEF Apart, InsertsRow
  <2>1. \A x \in Worker : txn'[x] = IF x = w THEN t ELSE txn[x]
    BY DEF Inv, TypeOK
  <2>2. \A x, y : Apart(x, y) => Apart(y, x)
    BY DEF Apart
  <2>. QED BY <2>1, <2>2 DEF Inv
<1>5. /\ \A s \in Shift : ShiftOK(s)'
      /\ \A e \in Entry : EntryOK(e)'
  BY DEF Inv, ShiftOK, EntryOK, Returns
<1>6. RestCloseIsWhole' /\ GoesBackOnce'
  BY DEF Inv, RestCloseIsWhole, Whole, Of, GoesBackOnce, Returns
<1>. QED BY <1>1, <1>3, <1>4, <1>5, <1>6 DEF Inv

(* A transaction that ends without a write: rolled back, or refused.           *)
LEMMA EndStep ==
    ASSUME Inv, NEW w \in Worker, GoOn(w, Idle), UNCHANGED <<shift, entry>>
    PROVE  Inv'
  BY OwnStep, IdleOK DEF GoOn

(* A transaction that begins with no lock that another holds.                  *)
LEMMA BeginStep ==
    ASSUME Inv, NEW w \in Worker, NEW t \in Txn, Begin(w, t), TxnOK(t),
           \A v \in Worker \ {w} : Apart(t, txn[v]),
           UNCHANGED <<shift, entry>>
    PROVE  Inv'
  BY OwnStep DEF Begin

(* Locks that are free, no new shift and a row of its own make a transaction   *)
(* share nothing with the others.                                              *)
LEMMA ApartFrom ==
    ASSUME NEW w \in Worker, NEW t, \A x \in t.held : Free(w, x), t.step # "open",
           InsertsRow(t) => Unused(t.id)
    PROVE  \A v \in Worker \ {w} : Apart(t, txn[v])
  BY DEF Apart, Free, Unused

(* Opening a shift begins.                                                     *)
LEMMA OpenShiftInv ==
    ASSUME Inv, NEW w \in Worker, NEW s \in Shift, NEW way \in Way, OpenShift(w, s, way)
    PROVE  Inv'
<1> DEFINE t == [Idle EXCEPT !.step = "open", !.shift = s]
<1>1. t \in Txn /\ t.step = "open" /\ t.shift = s /\ t.held = {} /\ t.wants = None
  BY IdleOK DEF Idle, Txn, Step
<1>2. TxnOK(t)
  BY <1>1 DEF TxnOK, Opening, Inserting, Voiding, Closing, Waiting, OpenShift
<1>3. \A v \in Worker \ {w} : Apart(t, txn[v])
  BY <1>1 DEF Apart, InsertsRow, OpenShift
<1>. QED BY <1>1, <1>2, <1>3, BeginStep DEF OpenShift

(* The transaction that is to insert a row, as its helper builds it.           *)
LEMMA InsertShape ==
    ASSUME NEW s \in Shift, NEW e \in Entry, NEW row \in EntryRow,
           NEW held \in SUBSET (Shift \cup Entry)
    PROVE  LET t == Insert(s, e, row, held) IN
           /\ t \in Txn /\ t.step = "insert" /\ t.shift = s /\ t.id = e /\ t.held = held
           /\ t.wants = None /\ t.row = row
<1> DEFINE t == Insert(s, e, row, held)
<1>1. Idle \in Txn /\ Idle.wants = None
  BY IdleOK DEF Idle
<1>2. /\ t \in Txn /\ t.step = "insert" /\ t.shift = s /\ t.id = e /\ t.held = held
      /\ t.wants = None /\ t.row = row
  BY <1>1 DEF Insert, Txn, Step
<1> HIDE DEF t
<1>. QED BY <1>2 DEF t

(* An empty row. *)
LEMMA NewEntryShape == NewEntry \in EntryRow /\ NewEntry.void = "no"
  BY DEF NewEntry, EntryRow, Way

(* Money posted over REST, under the lock of its open shift.                   *)
LEMMA PostInv ==
    ASSUME Inv, NEW w \in Worker, NEW s \in Shift, NEW e \in Entry, Post(w, s, e)
    PROVE  Inv'
<1> DEFINE row == Row(s, "sale", None, "rest", FALSE)
           t == Insert(s, e, row, {s})
<1>1. /\ row \in EntryRow /\ row.kind = "sale" /\ row.shift = s /\ row.of = None
      /\ row.way = "rest" /\ row.void = "no"
  BY NewEntryShape DEF Row, EntryRow, Kind, Way
<1> HIDE DEF row
<1>2. /\ t \in Txn /\ t.step = "insert" /\ t.shift = s /\ t.id = e /\ t.held = {s}
      /\ t.wants = None /\ t.row = row
  BY <1>1, InsertShape
<1> HIDE DEF t
<1>3. TxnOK(t)
  BY <1>1, <1>2 DEF TxnOK, Opening, Inserting, Voiding, Closing, Waiting, Post, Unused, Kind
<1>4. \A v \in Worker \ {w} : Apart(t, txn[v])
  BY <1>2, ApartFrom DEF Post
<1>. QED BY <1>2, <1>3, <1>4, BeginStep DEF Post, t, row

(* Money from a till, with no lock.                                            *)
LEMMA ArriveInv ==
    ASSUME Inv, NEW w \in Worker, NEW s \in Shift, NEW e \in Entry, Arrive(w, s, e)
    PROVE  Inv'
<1> DEFINE row == Row(s, "sale", None, "sync", ~Open(s))
           t == Insert(s, e, row, {})
<1>1. /\ row \in EntryRow /\ row.kind = "sale" /\ row.shift = s /\ row.of = None
      /\ row.way = "sync" /\ row.void = "no"
  BY NewEntryShape DEF Row, EntryRow, Kind, Way
<1> HIDE DEF row
<1>2. /\ t \in Txn /\ t.step = "insert" /\ t.shift = s /\ t.id = e /\ t.held = {}
      /\ t.wants = None /\ t.row = row
  BY <1>1, InsertShape
<1> HIDE DEF t
<1>3. TxnOK(t)
  BY <1>1, <1>2 DEF TxnOK, Opening, Inserting, Voiding, Closing, Waiting, Arrive, Unused, Kind
<1>4. \A v \in Worker \ {w} : Apart(t, txn[v])
  BY <1>2, ApartFrom DEF Arrive
<1>. QED BY <1>2, <1>3, <1>4, BeginStep DEF Arrive, t, row

(* A return over REST, under the lock of its sale.                             *)
LEMMA LockReturnedInv ==
    ASSUME Inv, NEW w \in Worker, NEW s \in Shift, NEW e \in Entry, NEW o \in Entry,
           LockReturned(w, s, e, o)
    PROVE  Inv'
<1> DEFINE row == Row(s, "return", o, "rest", FALSE)
           i == Insert(s, e, row, {o})
           t == [i EXCEPT !.step = "returnDrawer", !.wants = s]
<1>1. /\ row \in EntryRow /\ row.kind = "return" /\ row.shift = s /\ row.of = o
      /\ row.way = "rest" /\ row.void = "no"
  BY NewEntryShape DEF Row, EntryRow, Kind, Way
<1> HIDE DEF row
<1>2. /\ i \in Txn /\ i.step = "insert" /\ i.shift = s /\ i.id = e /\ i.held = {o}
      /\ i.wants = None /\ i.row = row
  BY <1>1, InsertShape
<1> HIDE DEF i
<1>3. /\ t \in Txn /\ t.step = "returnDrawer" /\ t.shift = s /\ t.id = e /\ t.held = {o}
      /\ t.wants = s
      /\ t.row.kind = "return" /\ t.row.shift = s /\ t.row.of = o /\ t.row.void = "no"
  BY <1>1, <1>2 DEF Txn, Step
<1>4. Begin(w, t) /\ UNCHANGED <<shift, entry>>
  BY DEF LockReturned, i, row
<1> HIDE DEF t
<1>5. TxnOK(t)
  BY <1>3, IdsAssumption
     DEF TxnOK, Opening, Inserting, Voiding, Closing, Waiting, LockReturned, Unused, Kind
<1>6. \A v \in Worker \ {w} : Apart(t, txn[v])
  BY <1>3, ApartFrom DEF LockReturned
<1>. QED BY <1>3, <1>4, <1>5, <1>6, BeginStep

(* A return from a till, under the lock of its sale alone.                     *)
LEMMA ArriveReturnInv ==
    ASSUME Inv, NEW w \in Worker, NEW s \in Shift, NEW e \in Entry, NEW o \in Entry,
           ArriveReturn(w, s, e, o)
    PROVE  Inv'
<1> DEFINE row == Row(s, "return", o, "sync", ~Open(s))
           t == Insert(s, e, row, {o})
<1>1. /\ row \in EntryRow /\ row.kind = "return" /\ row.shift = s /\ row.of = o
      /\ row.way = "sync" /\ row.void = "no"
  BY NewEntryShape DEF Row, EntryRow, Kind, Way
<1> HIDE DEF row
<1>2. /\ t \in Txn /\ t.step = "insert" /\ t.shift = s /\ t.id = e /\ t.held = {o}
      /\ t.wants = None /\ t.row = row
  BY <1>1, InsertShape
<1> HIDE DEF t
<1>3. TxnOK(t)
  BY <1>1, <1>2 DEF TxnOK, Opening, Inserting, Voiding, Closing, Waiting, ArriveReturn, Unused, Kind
<1>4. \A v \in Worker \ {w} : Apart(t, txn[v])
  BY <1>2, ApartFrom DEF ArriveReturn
<1>. QED BY <1>2, <1>3, <1>4, BeginStep DEF ArriveReturn, t, row

(* The transaction that is to void a row, as its helper builds it.             *)
LEMMA VoidShape ==
    ASSUME TypeOK, NEW s \in Shift, NEW e \in Entry, NEW way \in Way, NEW late \in BOOLEAN,
           NEW held \in SUBSET (Shift \cup Entry)
    PROVE  LET t == Void(s, e, way, late, held) IN
           /\ t \in Txn /\ t.step = "void" /\ t.shift = s /\ t.id = e /\ t.held = held
           /\ t.wants = None
           /\ t.row.void = way /\ t.row.kind = entry[e].kind /\ t.row.shift = entry[e].shift
           /\ t.row.way = entry[e].way
<1> DEFINE row == [entry[e] EXCEPT !.void = way, !.voidLate = late]
           t == Void(s, e, way, late, held)
<1>1. /\ row \in EntryRow /\ row.void = way /\ row.kind = entry[e].kind
      /\ row.shift = entry[e].shift /\ row.way = entry[e].way
  BY DEF TypeOK, EntryRow
<1>2. Idle \in Txn /\ Idle.wants = None
  BY IdleOK DEF Idle
<1>3. Void(s, e, way, late, held) =
        [Idle EXCEPT !.step = "void", !.shift = s, !.id = e, !.held = held, !.row = row]
  BY DEF Void
<1> HIDE DEF row
<1>4. /\ t \in Txn /\ t.step = "void" /\ t.shift = s /\ t.id = e /\ t.held = held
      /\ t.wants = None /\ t.row = row
  BY ZenonT(60), <1>1, <1>2, <1>3 DEF Txn, Step
<1> HIDE DEF t
<1>. QED BY <1>1, <1>4 DEF t

(* A void over REST, under the lock of its sale.                               *)
LEMMA LockVoidedInv ==
    ASSUME Inv, NEW w \in Worker, NEW o \in Entry, LockVoided(w, o)
    PROVE  Inv'
<1> DEFINE s == entry[o].shift
           late == FALSE
           i == Void(s, o, "rest", late, {o})
           t == [i EXCEPT !.step = "voidDrawer", !.wants = s]
<1>1. s \in Shift
  BY DEF Inv, EntryOK, LockVoided, Voidable
<1>2. /\ i \in Txn /\ i.step = "void" /\ i.shift = s /\ i.id = o /\ i.held = {o}
      /\ i.wants = None
      /\ i.row.void = "rest" /\ i.row.kind = entry[o].kind /\ i.row.shift = s
      /\ i.row.way = entry[o].way
  <2>1. late \in BOOLEAN /\ "rest" \in Way /\ {o} \in SUBSET (Shift \cup Entry) /\ TypeOK
    BY DEF Way, Inv
  <2> HIDE DEF late
  <2>. QED BY <1>1, <2>1, VoidShape
<1> HIDE DEF i
<1>3. /\ t \in Txn /\ t.step = "voidDrawer" /\ t.shift = s /\ t.id = o /\ t.held = {o}
      /\ t.wants = s
      /\ t.row.void = "rest" /\ t.row.kind = entry[o].kind /\ t.row.shift = s
      /\ t.row.way = entry[o].way
  BY <1>1, <1>2 DEF Txn, Step
<1>4. Begin(w, t) /\ UNCHANGED <<shift, entry>>
  BY DEF LockVoided, i
<1> HIDE DEF t
<1>5. TxnOK(t)
  BY <1>1, <1>3, IdsAssumption
     DEF TxnOK, Opening, Inserting, Voiding, Closing, Waiting, LockVoided, Voidable, Way
<1>6. \A v \in Worker \ {w} : Apart(t, txn[v])
  BY <1>3, ApartFrom DEF LockVoided, InsertsRow
<1>. QED BY <1>3, <1>4, <1>5, <1>6, BeginStep

(* A void from a till, under the lock of its sale alone.                       *)
LEMMA ArriveVoidInv ==
    ASSUME Inv, NEW w \in Worker, NEW o \in Entry, ArriveVoid(w, o)
    PROVE  Inv'
<1> DEFINE s == entry[o].shift
           late == ~Open(s)
           t == Void(s, o, "sync", late, {o})
<1>1. s \in Shift
  BY DEF Inv, EntryOK, ArriveVoid, Voidable
<1>2. Begin(w, t) /\ UNCHANGED <<shift, entry>>
  BY DEF ArriveVoid
<1>3. late \in BOOLEAN
  BY DEF Open
<1> HIDE DEF late
<1>4. /\ t \in Txn /\ t.step = "void" /\ t.shift = s /\ t.id = o /\ t.held = {o}
      /\ t.wants = None
      /\ t.row.void = "sync" /\ t.row.kind = entry[o].kind /\ t.row.shift = s
      /\ t.row.way = entry[o].way
  <2>1. "sync" \in Way /\ {o} \in SUBSET (Shift \cup Entry) /\ TypeOK
    BY DEF Way, Inv
  <2>. QED BY <1>1, <1>3, <2>1, VoidShape
<1> HIDE DEF t
<1>5. TxnOK(t)
  BY <1>1, <1>4, IdsAssumption
     DEF TxnOK, Opening, Inserting, Voiding, Closing, Waiting, ArriveVoid, Voidable, Way
<1>6. \A v \in Worker \ {w} : Apart(t, txn[v])
  BY <1>4, ApartFrom DEF ArriveVoid, InsertsRow
<1>. QED BY <1>2, <1>4, <1>5, <1>6, BeginStep

(* The transaction that is to close a shift, as its helper builds it.          *)
LEMMA CountShape ==
    ASSUME TypeOK, NEW s \in Shift, NEW step \in Step,
           NEW held \in SUBSET (Shift \cup Entry)
    PROVE  LET t == Count(s, step, held) IN
           /\ t \in Txn /\ t.step = step /\ t.shift = s /\ t.held = held /\ t.wants = None
           /\ t.count = InDrawer(s) /\ t.version = shift[s].version
<1> DEFINE t == Count(s, step, held)
<1>1. Idle \in Txn /\ Idle.wants = None
  BY IdleOK DEF Idle
<1>2. InDrawer(s) \in SUBSET Entry /\ shift[s].version \in 0..2
  BY DEF InDrawer, TypeOK, ShiftRow
<1>3. /\ t \in Txn /\ t.step = step /\ t.shift = s /\ t.held = held /\ t.wants = None
      /\ t.count = InDrawer(s) /\ t.version = shift[s].version
  BY <1>1, <1>2 DEF Count, Txn
<1> HIDE DEF t
<1>. QED BY <1>3 DEF t

(* A close over REST counts under the lock of its open shift.                  *)
LEMMA CountLockedInv ==
    ASSUME Inv, NEW w \in Worker, NEW s \in Shift, CountLocked(w, s)
    PROVE  Inv'
<1> DEFINE t == Count(s, "close", {s})
<1>1. /\ t \in Txn /\ t.step = "close" /\ t.shift = s /\ t.held = {s} /\ t.wants = None
      /\ t.count = InDrawer(s)
  BY CountShape DEF Inv, Step
<1> HIDE DEF t
<1>2. Whole(InDrawer(s), s)
  BY DEF Whole, Of, InDrawer
<1>3. TxnOK(t)
  BY <1>1, <1>2 DEF TxnOK, Opening, Inserting, Voiding, Closing, Waiting, CountLocked
<1>4. \A v \in Worker \ {w} : Apart(t, txn[v])
  BY <1>1, ApartFrom DEF CountLocked, InsertsRow
<1>. QED BY <1>1, <1>3, <1>4, BeginStep DEF CountLocked, t

(* A till's close reads its shift and the rows without a lock.                 *)
LEMMA ReadAndCountInv ==
    ASSUME Inv, NEW w \in Worker, NEW s \in Shift, ReadAndCount(w, s)
    PROVE  Inv'
<1> DEFINE i == Count(s, "lateClose", {})
           t == [i EXCEPT !.wants = s]
<1>1. /\ i \in Txn /\ i.step = "lateClose" /\ i.shift = s /\ i.held = {} /\ i.wants = None
      /\ i.version = shift[s].version
  BY CountShape DEF Inv, Step
<1> HIDE DEF i
<1>2. /\ t \in Txn /\ t.step = "lateClose" /\ t.shift = s /\ t.held = {} /\ t.wants = s
      /\ t.version = shift[s].version
  BY <1>1 DEF Txn
<1>3. Begin(w, t) /\ UNCHANGED <<shift, entry>>
  BY DEF ReadAndCount, i
<1> HIDE DEF t
<1>4. shift[s].version = 1
  BY DEF ReadAndCount, Open, Inv, ShiftOK
<1>5. TxnOK(t)
  BY <1>2, <1>4 DEF TxnOK, Opening, Inserting, Voiding, Closing, Waiting
<1>6. \A v \in Worker \ {w} : Apart(t, txn[v])
  BY <1>2, ApartFrom DEF InsertsRow
<1>. QED BY <1>2, <1>3, <1>5, <1>6, BeginStep

(* The next lock of a transaction, its drawer, once no other holds it.         *)
LEMMA DrawerShape ==
    ASSUME TypeOK, NEW w \in Worker, NEW step \in Step, txn[w].shift \in Shift
    PROVE  LET t == WithDrawer(w, step) IN
           /\ t \in Txn /\ t.step = step /\ t.shift = txn[w].shift /\ t.id = txn[w].id
           /\ t.row = txn[w].row /\ t.held = txn[w].held \cup {txn[w].shift}
           /\ t.wants = None
  BY DEF WithDrawer, TypeOK, Txn

(* Who waited for a drawer and has it shares nothing with the others.          *)
LEMMA DrawerApart ==
    ASSUME Inv, NEW w \in Worker, InsertsRow(txn[w]) \/ txn[w].step = "voidDrawer",
           Free(w, txn[w].shift),
           NEW t, t.held = txn[w].held \cup {txn[w].shift}, t.id = txn[w].id,
           t.step # "open", InsertsRow(t) => InsertsRow(txn[w])
    PROVE  \A v \in Worker \ {w} : Apart(t, txn[v])
  BY DEF Inv, Apart, Free

(* A return over REST locks its drawer, and ends when that is closed.          *)
LEMMA LockDrawerOfReturnInv ==
    ASSUME Inv, NEW w \in Worker, LockDrawerOfReturn(w)
    PROVE  Inv'
<1> DEFINE s == txn[w].shift
           t == WithDrawer(w, "insert")
<1>1. TxnOK(txn[w]) /\ InsertsRow(txn[w]) /\ s \in Shift
  BY DEF Inv, TxnOK, Inserting, InsertsRow, LockDrawerOfReturn
<1>2. CASE ~Open(s)
  BY <1>2, EndStep DEF LockDrawerOfReturn
<1>3. CASE Open(s)
  <2>1. GoOn(w, t) /\ UNCHANGED <<shift, entry>> /\ Free(w, s)
    BY <1>3 DEF LockDrawerOfReturn
  <2>2. /\ t \in Txn /\ t.step = "insert" /\ t.shift = s /\ t.id = txn[w].id
        /\ t.row = txn[w].row /\ t.held = txn[w].held \cup {s} /\ t.wants = None
    BY <1>1, DrawerShape DEF Inv, Step
  <2> HIDE DEF t
  <2>3. TxnOK(t)
    BY <1>1, <1>3, <2>2
       DEF TxnOK, Opening, Inserting, Voiding, Closing, Waiting, InsertsRow
  <2>4. \A v \in Worker \ {w} : Apart(t, txn[v])
    BY <1>1, <2>1, <2>2, DrawerApart DEF InsertsRow
  <2>. QED BY <2>1, <2>2, <2>3, <2>4, OwnStep DEF GoOn
<1>. QED BY <1>2, <1>3

(* A void over REST locks its shift, and is refused when that is closed.       *)
LEMMA LockDrawerOfVoidInv ==
    ASSUME Inv, NEW w \in Worker, LockDrawerOfVoid(w)
    PROVE  Inv'
<1> DEFINE s == txn[w].shift
           t == WithDrawer(w, "void")
<1>1. TxnOK(txn[w]) /\ txn[w].step = "voidDrawer" /\ s \in Shift
  BY DEF Inv, TxnOK, Voiding, LockDrawerOfVoid
<1>2. CASE ~Open(s)
  BY <1>2, EndStep DEF LockDrawerOfVoid
<1>3. CASE Open(s)
  <2>1. GoOn(w, t) /\ UNCHANGED <<shift, entry>> /\ Free(w, s)
    BY <1>3 DEF LockDrawerOfVoid
  <2>2. /\ t \in Txn /\ t.step = "void" /\ t.shift = s /\ t.id = txn[w].id
        /\ t.row = txn[w].row /\ t.held = txn[w].held \cup {s} /\ t.wants = None
    BY <1>1, DrawerShape DEF Inv, Step
  <2> HIDE DEF t
  <2>3. TxnOK(t)
    BY <1>1, <1>3, <2>2 DEF TxnOK, Opening, Inserting, Voiding, Closing, Waiting
  <2>4. \A v \in Worker \ {w} : Apart(t, txn[v])
    BY <1>1, <2>1, <2>2, DrawerApart DEF InsertsRow
  <2>. QED BY <2>1, <2>2, <2>3, <2>4, OwnStep DEF GoOn
<1>. QED BY <1>2, <1>3

-----------------------------------------------------------------------------
(* The steps that write *)

(* What is left to show of a commit: that its write keeps the shifts, the rows *)
(* and the facts of the other transactions.                                    *)
LEMMA CommitStep ==
    ASSUME Inv, NEW w \in Worker, GoOn(w, Idle),
           shift' \in [Shift -> ShiftRow], entry' \in [Entry -> EntryRow],
           \A v \in Worker \ {w} : TxnOK(txn[v])',
           \A s \in Shift : ShiftOK(s)',
           \A e \in Entry : EntryOK(e)',
           RestCloseIsWhole', GoesBackOnce'
    PROVE  Inv'
<1>1. /\ txn' \in [Worker -> Txn]
      /\ \A v \in Worker : txn'[v] = IF v = w THEN Idle ELSE txn[v]
  BY IdleOK DEF Inv, TypeOK, GoOn
<1>2. TxnOK(txn[w])'
  BY <1>1 DEF Idle, TxnOK, Opening, Inserting, Voiding, Closing, Waiting
<1>3. \A u, v \in Worker : u # v => Apart(txn[u], txn[v])'
  <2> SUFFICES ASSUME NEW u \in Worker, NEW v \in Worker, u # v PROVE Apart(txn'[u], txn'[v])
    BY DEF Apart, InsertsRow
  <2>. QED BY <1>1, IdleOK DEF Inv
<1>4. TypeOK'
  BY <1>1 DEF TypeOK
<1>5. \A v \in Worker : TxnOK(txn[v])'
  BY <1>2
<1>. QED BY <1>3, <1>4, <1>5 DEF Inv

(* The new shift is open.                                                      *)
LEMMA CommitOpenInv ==
    ASSUME Inv, NEW w \in Worker, CommitOpen(w)
    PROVE  Inv'
<1> DEFINE s == txn[w].shift
<1>1. GoOn(w, Idle) /\ s \in Shift /\ shift[s] = NewShift /\ txn[w].step = "open"
  BY DEF CommitOpen, Inv, TxnOK, Opening
<1>2. /\ shift' \in [Shift -> ShiftRow] /\ entry' = entry
      /\ \A r \in Shift : r # s => shift'[r] = shift[r]
      /\ shift'[s].status = "open" /\ shift'[s].version = 1 /\ shift'[s].closedBy = "none"
  BY <1>1 DEF CommitOpen, Inv, TypeOK, ShiftRow, NewShift
<1>3. \A v \in Worker \ {w} : txn'[v] = txn[v]
  BY <1>1 DEF GoOn, Inv, TypeOK
<1>4. /\ \A o : Returns(o)' = Returns(o)
      /\ \A counted, r : Whole(counted, r)' = Whole(counted, r)
  BY <1>2 DEF Returns, Whole, Of
<1>5. ASSUME NEW v \in Worker \ {w} PROVE TxnOK(txn[v])'
  <2>1. TxnOK(txn[v]) /\ Apart(txn[w], txn[v])
    BY DEF Inv
  <2>2. \A r \in Shift : Open(r) => Open(r)'
    BY <1>2 DEF Open
  <2>3. \A o : Returnable(o)' = Returnable(o) /\ Voidable(o)' = Voidable(o)
    BY <1>2, <1>4 DEF Returnable, Voidable
  <2>4. Opening(txn[v])'
    BY <1>1, <1>2, <1>3, <2>1 DEF TxnOK, Opening, Apart
  <2>5. Inserting(txn[v])' /\ Voiding(txn[v])'
    BY <1>2, <1>3, <2>1, <2>2, <2>3 DEF TxnOK, Inserting, Voiding
  <2>6. Closing(txn[v])' /\ Waiting(txn[v])'
    BY <1>3, <1>4, <2>1, <2>2 DEF TxnOK, Closing, Waiting
  <2>. QED BY <2>4, <2>5, <2>6 DEF TxnOK
<1>6. \A r \in Shift : ShiftOK(r)'
  BY <1>2 DEF Inv, ShiftOK
<1>7. (\A e \in Entry : EntryOK(e)') /\ GoesBackOnce'
  BY <1>2, <1>4 DEF Inv, EntryOK, GoesBackOnce
<1>8. RestCloseIsWhole'
  BY <1>2, <1>4 DEF Inv, RestCloseIsWhole, Whole, Of
<1>. QED BY <1>1, <1>2, <1>5, <1>6, <1>7, <1>8, CommitStep DEF Inv, TypeOK

(* The new row is in its drawer.                                               *)
LEMMA CommitInsertInv ==
    ASSUME Inv, NEW w \in Worker, CommitInsert(w)
    PROVE  Inv'
<1> DEFINE e == txn[w].id
           row == txn[w].row
<1>1. /\ GoOn(w, Idle) /\ txn[w].step = "insert" /\ TxnOK(txn[w]) /\ InsertsRow(txn[w])
      /\ e \in Entry /\ entry[e] = NewEntry /\ row \in EntryRow
      /\ row.shift \in Shift /\ row.shift = txn[w].shift /\ row.void = "no" /\ row.kind \in Kind
      /\ row.way = "rest" => Open(row.shift) /\ row.shift \in txn[w].held
      /\ row.kind = "return" =>
            row.of \in Entry /\ row.of \in txn[w].held /\ Returnable(row.of)
  BY DEF CommitInsert, Inv, TxnOK, Inserting, TypeOK, Txn, InsertsRow
<1>2. /\ entry' \in [Entry -> EntryRow] /\ shift' = shift
      /\ \A o \in Entry : entry'[o] = IF o = e THEN row ELSE entry[o]
      /\ entry[e].kind = "new"
  BY <1>1 DEF CommitInsert, Inv, TypeOK, NewEntry
<1> HIDE DEF e, row
<1>3. \A v \in Worker \ {w} : txn'[v] = txn[v]
  BY <1>1 DEF GoOn, Inv, TypeOK
<1>4. \A o : Returns(o)' = IF row.kind = "return" /\ row.of = o
                           THEN Returns(o) \cup {e} ELSE Returns(o)
  BY <1>1, <1>2 DEF Returns
<1>5. ASSUME NEW v \in Worker \ {w} PROVE TxnOK(txn[v])'
  <2>1. TxnOK(txn[v]) /\ Apart(txn[w], txn[v])
    BY DEF Inv
  <2>2. ASSUME NEW o \in Entry, o \in txn[v].held PROVE Returns(o)' = Returns(o)
    BY <1>1, <1>4, <2>1, <2>2 DEF Apart
  <2>3. ASSUME NEW o \in Entry, o \in txn[v].held
        PROVE  (Returnable(o) => Returnable(o)') /\ (Voidable(o) => Voidable(o)')
    BY <1>2, <2>2, <2>3 DEF Returnable, Voidable
  <2>4. Inserting(txn[v])'
    <3>1. InsertsRow(txn[v]) => txn[v].id # e
      BY <1>1, <2>1 DEF Apart, e
    <3>. QED BY <1>2, <1>3, <2>1, <2>3, <3>1 DEF TxnOK, Inserting, InsertsRow, Open
  <2>5. Voiding(txn[v])'
    <3>1. Voidable(txn[v].id) => txn[v].id # e
      BY <1>2 DEF Voidable
    <3>. QED BY <1>2, <1>3, <2>1, <2>3, <3>1 DEF TxnOK, Voiding, Open
  <2>6. Closing(txn[v])'
    <3>1. ASSUME txn[v].step = "close" PROVE Whole(txn[v].count, txn[v].shift)'
      <4>1. row.way = "rest" => row.shift # txn[v].shift
        BY <1>1, <2>1, <3>1 DEF TxnOK, Closing, Apart
      <4>2. Whole(txn[v].count, txn[v].shift)
        BY <2>1, <3>1 DEF TxnOK, Closing
      <4>3. row.void = "no" /\ txn'[v] = txn[v]
        BY <1>1, <1>3
      <4>. QED BY <1>2, <4>1, <4>2, <4>3 DEF Whole, Of
    <3>. QED BY <1>2, <1>3, <2>1, <3>1 DEF TxnOK, Closing, Open
  <2>7. Opening(txn[v])' /\ Waiting(txn[v])'
    BY <1>2, <1>3, <2>1 DEF TxnOK, Opening, Waiting
  <2>. QED BY <2>4, <2>5, <2>6, <2>7 DEF TxnOK
<1>6. \A s \in Shift : ShiftOK(s)'
  BY <1>2 DEF Inv, ShiftOK
<1>7. ASSUME NEW o \in Entry PROVE EntryOK(o)'
  <2>1. IsFiniteSet(Returns(o))
    BY DEF Inv, EntryOK
  <2>2. IsFiniteSet(Returns(o) \cup {e})
    BY <2>1, FS_AddElement
  <2>3. IsFiniteSet(Returns(o)')
    BY <1>4, <2>1, <2>2
  <2>4. row.kind # "new" /\ row.shift \in Shift
    BY <1>1 DEF Kind
  <2>. QED BY <1>2, <2>3, <2>4 DEF Inv, EntryOK
<1>8. RestCloseIsWhole'
  <2> SUFFICES ASSUME NEW s \in Shift, shift[s].closedBy = "rest"
               PROVE  Whole(shift[s].counted, s)'
    BY <1>2 DEF RestCloseIsWhole
  <2>1. ~Open(s) /\ Whole(shift[s].counted, s)
    BY DEF Inv, ShiftOK, RestCloseIsWhole, Open
  <2>2. row.way = "rest" => row.shift # s
    BY <1>1, <2>1
  <2>. QED BY <1>1, <1>2, <2>1, <2>2 DEF Whole, Of
<1>9. GoesBackOnce'
  <2> SUFFICES ASSUME NEW o \in Entry
               PROVE  /\ Cardinality(Returns(o)') <= Pieces
                      /\ entry'[o].void # "no" => Returns(o)' = {}
    BY DEF GoesBackOnce
  <2>1. CASE row.kind = "return" /\ row.of = o
    <3>1. Returnable(o) /\ Returns(o)' = Returns(o) \cup {e} /\ IsFiniteSet(Returns(o))
      BY <1>1, <1>4, <2>1 DEF Inv, EntryOK
    <3>2. Cardinality(Returns(o)) \in Nat
      BY <3>1, FS_CardinalityType
    <3>3. \/ Cardinality(Returns(o) \cup {e}) = Cardinality(Returns(o))
          \/ Cardinality(Returns(o) \cup {e}) = Cardinality(Returns(o)) + 1
      BY <3>1, FS_AddElement
    <3>4. Cardinality(Returns(o) \cup {e}) <= Pieces
      BY <3>1, <3>2, <3>3, PiecesAssumption DEF Returnable
    <3>5. entry'[o].void = "no"
      BY <1>1, <1>2, <3>1 DEF Returnable
    <3>. QED BY <3>1, <3>4, <3>5
  <2>2. CASE ~(row.kind = "return" /\ row.of = o)
    <3>1. Returns(o)' = Returns(o)
      BY <1>4, <2>2
    <3>. QED BY <1>1, <1>2, <3>1 DEF Inv, GoesBackOnce
  <2>. QED BY <2>1, <2>2
<1>. QED BY <1>1, <1>2, <1>5, <1>6, <1>7, <1>8, <1>9, CommitStep DEF Inv, TypeOK

(* The row is voided, and out of its drawer.                                   *)
LEMMA CommitVoidInv ==
    ASSUME Inv, NEW w \in Worker, CommitVoid(w)
    PROVE  Inv'
<1> DEFINE e == txn[w].id
           row == txn[w].row
<1>1. /\ GoOn(w, Idle) /\ txn[w].step = "void" /\ TxnOK(txn[w])
      /\ e \in Entry /\ e \in txn[w].held /\ Voidable(e) /\ row \in EntryRow
      /\ row.kind = "sale" /\ row.shift = entry[e].shift /\ row.shift \in Shift
      /\ row.way = entry[e].way /\ row.void \in Way
      /\ row.void = "rest" => Open(row.shift) /\ row.shift \in txn[w].held
  BY DEF CommitVoid, Inv, TxnOK, Voiding, TypeOK, Txn
<1>2. /\ entry' \in [Entry -> EntryRow] /\ shift' = shift
      /\ \A o \in Entry : entry'[o] = IF o = e THEN row ELSE entry[o]
      /\ entry[e].kind = "sale" /\ entry[e].void = "no"
  BY <1>1 DEF CommitVoid, Inv, TypeOK, Voidable
<1>3. \A v \in Worker \ {w} : txn'[v] = txn[v]
  BY <1>1 DEF GoOn, Inv, TypeOK
<1>4. Returns(e) = {}
  BY <1>1 DEF Voidable
<1> HIDE DEF e, row
<1>5. \A o : Returns(o)' = Returns(o)
  BY <1>1, <1>2 DEF Returns
<1>6. ASSUME NEW v \in Worker \ {w} PROVE TxnOK(txn[v])'
  <2>1. TxnOK(txn[v]) /\ Apart(txn[w], txn[v])
    BY DEF Inv
  <2>2. ASSUME NEW o \in Entry, o \in txn[v].held
        PROVE  (Returnable(o) => Returnable(o)') /\ (Voidable(o) => Voidable(o)')
               /\ entry'[o] = entry[o]
    <3>1. o # e
      BY <1>1, <2>1, <2>2 DEF Apart
    <3>. QED BY <1>2, <1>5, <3>1 DEF Returnable, Voidable
  <2>3. Inserting(txn[v])'
    <3>1. \A o \in Entry : entry[o] = NewEntry => entry'[o] = NewEntry
      BY <1>2 DEF NewEntry
    <3>. QED BY <1>2, <1>3, <2>1, <2>2, <3>1 DEF TxnOK, Inserting, Open
  <2>4. Voiding(txn[v])'
    BY <1>2, <1>3, <2>1, <2>2 DEF TxnOK, Voiding, Open
  <2>5. Closing(txn[v])'
    <3>1. ASSUME txn[v].step = "close" PROVE Whole(txn[v].count, txn[v].shift)'
      <4>1. row.void = "rest" => row.shift # txn[v].shift
        BY <1>1, <2>1, <3>1 DEF TxnOK, Closing, Apart
      <4>2. Whole(txn[v].count, txn[v].shift)
        BY <2>1, <3>1 DEF TxnOK, Closing
      <4>3. row.void # "no" /\ txn'[v] = txn[v]
        BY <1>1, <1>3 DEF Way
      <4>. QED BY <1>1, <1>2, <4>1, <4>2, <4>3 DEF Whole, Of
    <3>. QED BY <1>2, <1>3, <2>1, <3>1 DEF TxnOK, Closing, Open
  <2>6. Opening(txn[v])' /\ Waiting(txn[v])'
    BY <1>2, <1>3, <2>1 DEF TxnOK, Opening, Waiting
  <2>. QED BY <2>3, <2>4, <2>5, <2>6 DEF TxnOK
<1>7. \A s \in Shift : ShiftOK(s)'
  BY <1>2 DEF Inv, ShiftOK
<1>8. \A o \in Entry : EntryOK(o)'
  BY <1>1, <1>2, <1>5 DEF Inv, EntryOK
<1>9. RestCloseIsWhole'
  <2> SUFFICES ASSUME NEW s \in Shift, shift[s].closedBy = "rest"
               PROVE  Whole(shift[s].counted, s)'
    BY <1>2 DEF RestCloseIsWhole
  <2>1. ~Open(s) /\ Whole(shift[s].counted, s)
    BY DEF Inv, ShiftOK, RestCloseIsWhole, Open
  <2>2. row.void = "rest" => row.shift # s
    BY <1>1, <2>1
  <2>3. row.void # "no"
    BY <1>1 DEF Way
  <2>. QED BY <1>1, <1>2, <2>1, <2>2, <2>3 DEF Whole, Of
<1>10. GoesBackOnce'
  BY <1>2, <1>4, <1>5 DEF Inv, GoesBackOnce
<1>. QED BY <1>1, <1>2, <1>6, <1>7, <1>8, <1>9, <1>10, CommitStep DEF Inv, TypeOK

(* A close of an open shift that no other transaction holds, with a count that *)
(* is whole when it came over REST.                                            *)
LEMMA CloseInv ==
    ASSUME Inv, NEW w \in Worker, txn[w].shift \in Shift, Free(w, txn[w].shift),
           Open(txn[w].shift), txn[w].step = "close" => Whole(txn[w].count, txn[w].shift),
           Close(w, shift[txn[w].shift].version + 1), GoOn(w, Idle), UNCHANGED entry
    PROVE  Inv'
<1> DEFINE s == txn[w].shift
<1>1. shift[s].version = 1 /\ shift[s].status = "open"
  BY DEF Inv, ShiftOK, Open
<1>2. /\ shift' \in [Shift -> ShiftRow] /\ entry' = entry
      /\ \A r \in Shift : r # s => shift'[r] = shift[r]
      /\ shift'[s].status = "closed" /\ shift'[s].version = 2
      /\ shift'[s].counted = txn[w].count
      /\ shift'[s].closedBy = "rest" => txn[w].step = "close"
  <2>1. txn[w].count \in SUBSET Entry
    BY DEF Inv, TypeOK, Txn
  <2>. QED BY <1>1, <2>1 DEF Close, Inv, TypeOK, ShiftRow, Way
<1>3. \A v \in Worker \ {w} : txn'[v] = txn[v]
  BY DEF GoOn, Inv, TypeOK
<1>4. /\ \A o : Returns(o)' = Returns(o)
      /\ \A counted, r : Whole(counted, r)' = Whole(counted, r)
  BY <1>2 DEF Returns, Whole, Of
<1>5. ASSUME NEW v \in Worker \ {w} PROVE TxnOK(txn[v])'
  <2>1. TxnOK(txn[v]) /\ s \notin txn[v].held
    BY DEF Inv, Free
  <2>2. \A r \in Shift : r \in txn[v].held => shift'[r] = shift[r]
    BY <1>2, <2>1
  <2>3. \A o : Returnable(o)' = Returnable(o) /\ Voidable(o)' = Voidable(o)
    BY <1>2, <1>4 DEF Returnable, Voidable
  <2>4. Opening(txn[v])'
    BY <1>1, <1>2, <1>3, <2>1 DEF TxnOK, Opening, NewShift
  <2>5. Inserting(txn[v])' /\ Voiding(txn[v])'
    BY <1>2, <1>3, <2>1, <2>2, <2>3 DEF TxnOK, Inserting, Voiding, Open
  <2>6. Closing(txn[v])' /\ Waiting(txn[v])'
    BY <1>3, <1>4, <2>1, <2>2 DEF TxnOK, Closing, Waiting, Open
  <2>. QED BY <2>4, <2>5, <2>6 DEF TxnOK
<1>6. \A r \in Shift : ShiftOK(r)'
  BY <1>2 DEF Inv, ShiftOK
<1>7. (\A e \in Entry : EntryOK(e)') /\ GoesBackOnce'
  BY <1>2, <1>4 DEF Inv, EntryOK, GoesBackOnce
<1>8. RestCloseIsWhole'
  <2> SUFFICES ASSUME NEW r \in Shift, shift'[r].closedBy = "rest"
               PROVE  Whole(shift'[r].counted, r)
    BY <1>4 DEF RestCloseIsWhole, Whole, Of
  <2>. QED BY <1>2 DEF Inv, RestCloseIsWhole
<1>. QED BY <1>2, <1>5, <1>6, <1>7, <1>8, CommitStep DEF Inv, TypeOK

(* A close over REST.                                                          *)
LEMMA CommitCloseInv ==
    ASSUME Inv, NEW w \in Worker, CommitClose(w)
    PROVE  Inv'
<1>1. /\ txn[w].shift \in Shift /\ Open(txn[w].shift)
      /\ txn[w].shift \in txn[w].held /\ Whole(txn[w].count, txn[w].shift)
  BY DEF CommitClose, Inv, TxnOK, Closing
<1>2. Free(w, txn[w].shift)
  BY <1>1 DEF Free, Inv, Apart
<1>. QED BY <1>1, <1>2, CloseInv DEF CommitClose

(* A till's close: nothing when the shift has moved on.                        *)
LEMMA CompareAndCloseInv ==
    ASSUME Inv, NEW w \in Worker, CompareAndClose(w)
    PROVE  Inv'
<1> DEFINE s == txn[w].shift
<1>1. s \in Shift /\ txn[w].version = 1 /\ txn[w].step = "lateClose"
  BY DEF CompareAndClose, Inv, TxnOK, Closing
<1>2. CASE shift[s].version = txn[w].version
  <2>1. Open(s)
    BY <1>1, <1>2 DEF Inv, ShiftOK, Open
  <2>. QED BY <1>1, <1>2, <2>1, CloseInv DEF CompareAndClose
<1>3. CASE shift[s].version # txn[w].version
  BY <1>3, EndStep DEF CompareAndClose
<1>. QED BY <1>2, <1>3

-----------------------------------------------------------------------------
(* The theorems *)

(* Every step keeps the invariant.                                             *)
LEMMA InvNext == Inv /\ [Next]_vars => Inv'
<1> SUFFICES ASSUME Inv, [Next]_vars PROVE Inv'
  OBVIOUS
<1>1. CASE UNCHANGED vars
  <2>1. shift' = shift /\ entry' = entry /\ txn' = txn
    BY <1>1 DEF vars
  <2>2. \A o : Returns(o)' = Returns(o)
    BY <2>1 DEF Returns
  <2>3. /\ \A o : Returnable(o)' = Returnable(o) /\ Voidable(o)' = Voidable(o)
        /\ \A counted, s : Whole(counted, s)' = Whole(counted, s)
    BY <2>1, <2>2 DEF Returnable, Voidable, Whole, Of
  <2>4. \A w \in Worker : TxnOK(txn[w])'
    BY <2>1, <2>3
       DEF Inv, TxnOK, Opening, Inserting, Voiding, Closing, Waiting, Open
  <2>5. \A v, w \in Worker : v # w => Apart(txn[v], txn[w])'
    BY <2>1 DEF Inv, Apart, InsertsRow
  <2>6. (\A s \in Shift : ShiftOK(s)') /\ (\A e \in Entry : EntryOK(e)')
    BY <2>1, <2>2 DEF Inv, ShiftOK, EntryOK
  <2>7. RestCloseIsWhole' /\ GoesBackOnce' /\ TypeOK'
    BY <2>1, <2>2, <2>3 DEF Inv, RestCloseIsWhole, GoesBackOnce, TypeOK
  <2>. QED BY <2>4, <2>5, <2>6, <2>7 DEF Inv
<1>2. ASSUME NEW w \in Worker, BeginSome(w) PROVE Inv'
  BY <1>2, OpenShiftInv, PostInv, ArriveInv, LockReturnedInv, ArriveReturnInv, LockVoidedInv,
     ArriveVoidInv, CountLockedInv, ReadAndCountInv DEF BeginSome
<1>3. ASSUME NEW w \in Worker, Continue(w) PROVE Inv'
  BY <1>3, LockDrawerOfReturnInv, LockDrawerOfVoidInv, CommitOpenInv, CommitInsertInv,
     CommitVoidInv, CommitCloseInv, CompareAndCloseInv DEF Continue
<1>4. ASSUME NEW w \in Worker, Rollback(w) PROVE Inv'
  BY <1>4, EndStep DEF Rollback
<1>. QED BY <1>1, <1>2, <1>3, <1>4 DEF Next

(* The invariant holds of every behaviour.                                     *)
THEOREM Invariance == Spec => []Inv
  BY InvInit, InvNext, PTL DEF Spec

(* Every variable keeps its type.                                              *)
THEOREM TypeInvariant == Spec => []TypeOK
<1>1. Inv => TypeOK
  BY DEF Inv
<1>. QED BY <1>1, Invariance, PTL

(* A close under the shift's lock (shift_cash.py, close_shift) counts every    *)
(* row the REST API took into the shift, and none that it voided.              *)
THEOREM RestCloseCountsEverything == Spec => []RestCloseIsWhole
<1>1. Inv => RestCloseIsWhole
  BY DEF Inv
<1>. QED BY <1>1, Invariance, PTL

(* No sale gives back more than it sold, and none is voided and returned       *)
(* (void_sale, refund_sale and their like from a till).                        *)
THEOREM MoneyGoesBackOnce == Spec => []GoesBackOnce
<1>1. Inv => GoesBackOnce
  BY DEF Inv
<1>. QED BY <1>1, Invariance, PTL

(* No set of transactions wait for each other: one of them waits for a drawer, *)
(* and who holds a drawer waits for nothing.                                   *)
THEOREM LocksNeverCircle == Spec => []NoDeadlock
<1>1. Inv => NoDeadlock
  <2> SUFFICES ASSUME Inv, NEW S \in SUBSET Worker, S # {}
               PROVE  \E w \in S : \A v \in S \ {w} : txn[w].wants \notin txn[v].held
    BY DEF NoDeadlock
  <2>1. \A v \in Worker : None \notin txn[v].held
    BY IdsAssumption DEF Inv, TypeOK, Txn
  <2>2. PICK w \in S : TRUE
    OBVIOUS
  <2>3. CASE \A v \in S \ {w} : txn[w].wants \notin txn[v].held
    BY <2>3
  <2>4. CASE \E v \in S \ {w} : txn[w].wants \in txn[v].held
    <3>1. PICK v \in S : txn[w].wants \in txn[v].held
      BY <2>4
    <3>2. txn[w].wants \in Shift
      BY <2>1, <3>1 DEF Inv, TxnOK, Waiting
    <3>3. txn[v].wants = None
      BY <3>1, <3>2 DEF Inv, TxnOK, Waiting
    <3>. QED BY <2>1, <3>3
  <2>. QED BY <2>3, <2>4
<1>. QED BY <1>1, Invariance, PTL

(* A closed shift never changes again (close_shift, SHIFT_ALREADY_CLOSED; the  *)
(* version that _close of sync_policy.py compares).                            *)
THEOREM CloseIsFinal == Spec => ClosedForGood
<1>1. Inv /\ [Next]_vars =>
        [\A s \in Shift : shift[s].status = "closed" => shift'[s] = shift[s]]_vars
  <2> SUFFICES ASSUME Inv, Next, NEW s \in Shift, shift[s].status = "closed"
               PROVE  shift'[s] = shift[s]
    OBVIOUS
  <2>1. CASE shift' = shift
    BY <2>1
  <2>2. ASSUME NEW w \in Worker, CommitOpen(w) PROVE shift'[s] = shift[s]
    <3>1. txn[w].shift # s
      BY <2>2 DEF CommitOpen, Inv, TxnOK, Opening, NewShift
    <3>. QED BY <2>2, <3>1 DEF CommitOpen, Inv, TypeOK
  <2>3. ASSUME NEW w \in Worker, CommitClose(w) PROVE shift'[s] = shift[s]
    <3>1. txn[w].shift # s
      BY <2>3 DEF CommitClose, Inv, TxnOK, Closing, Open
    <3>. QED BY <2>3, <3>1 DEF CommitClose, Close, Inv, TypeOK
  <2>4. ASSUME NEW w \in Worker, CompareAndClose(w) PROVE shift'[s] = shift[s]
    <3>1. shift[s].version # 1
      BY DEF Inv, ShiftOK
    <3>2. txn[w].version = 1
      BY <2>4 DEF CompareAndClose, Inv, TxnOK, Closing
    <3>. QED BY <2>4, <3>1, <3>2 DEF CompareAndClose, Close, Inv, TypeOK
  <2>5. shift' = shift \/ \E w \in Worker : CommitOpen(w) \/ CommitClose(w) \/ CompareAndClose(w)
    BY ZenonT(60) DEF Next, BeginSome, Continue, Rollback, OpenShift, Post, Arrive, LockReturned,
       ArriveReturn, LockVoided, ArriveVoid, CountLocked, ReadAndCount, LockDrawerOfReturn,
       LockDrawerOfVoid, CommitInsert, CommitVoid
  <2>. QED BY <2>1, <2>2, <2>3, <2>4, <2>5
<1>. QED BY <1>1, Invariance, PTL DEF Spec, ClosedForGood
=============================================================================
