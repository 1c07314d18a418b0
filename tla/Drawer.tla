-------------------------------- MODULE Drawer --------------------------------
(***************************************************************************)
(* The money of a seller's drawer on the server: shifts, the sales, debt   *)
(* collections, payouts and returns that go into them, voids, and the      *)
(* close that fixes what the drawer should hold.                           *)
(*                                                                         *)
(*   server/dukan/infrastructure/sales_service.py, shift_cash.py  REST     *)
(*   server/dukan/application/sync_policy.py                      sync     *)
(*                                                                         *)
(* Requests run as database transactions side by side, each in a thread of *)
(* its own: what one reads before its commit another may change, unless a  *)
(* row lock (SELECT ... FOR UPDATE, UPDATE) makes it wait.  A transaction  *)
(* waits for a lock by not being able to step.  The REST API locks the     *)
(* shift money goes into; what a till synced reads it without a lock,      *)
(* keeps the money whatever it finds and flags what came too late.         *)
(*                                                                         *)
(* One seller in one branch, and money in cash only: a card payment, or a  *)
(* shift that is not the actor's, reaches no drawer's count.  An amount is *)
(* the row that carries it, so what a close expects is a set of rows.      *)
(***************************************************************************)
EXTENDS Naturals, FiniteSets

CONSTANTS
    Shift,      \* ids of shifts
    Entry,      \* ids of rows that move cash: sales, returns, ledger entries
    Worker,     \* server threads, each with one transaction at a time
    None,       \* no shift, no row
    Pieces      \* how many pieces of goods a sale sells; a return takes one back

ASSUME PiecesAssumption == Pieces \in Nat \ {0}
ASSUME IdsAssumption == None \notin Shift \cup Entry /\ Shift \cap Entry = {}

VARIABLES
    shift,      \* shift[s]: the shift's row
    entry,      \* entry[e]: the committed row that moved cash
    txn         \* txn[w]: the transaction of thread w

vars == <<shift, entry, txn>>

-----------------------------------------------------------------------------
(* Values *)

\* How a change came in: a REST request, or an op a till recorded.
Way == {"rest", "sync"}

\* A shift at version 1 is open; its close is the only write that follows.
ShiftRow == [status : {"new", "open", "closed"}, version : 0..2,
             counted : SUBSET Entry, closedBy : {"none"} \cup Way]
NewShift == [status |-> "new", version |-> 0, counted |-> {}, closedBy |-> "none"]

\* Money goes in, or a return takes a sale's money out.  A debt collection and a
\* payout are told from a sale by nothing the drawer does: they stand for a sale
\* that nobody voids or returns.  late and voidLate are the after_shift_close flags
\* of the row and of its void.
Kind == {"sale", "return"}
EntryRow == [kind : {"new"} \cup Kind, shift : Shift \cup {None}, of : Entry \cup {None},
             way : Way, late : BOOLEAN, void : {"no"} \cup Way, voidLate : BOOLEAN]
NewEntry == [kind |-> "new", shift |-> None, of |-> None, way |-> "rest", late |-> FALSE,
             void |-> "no", voidLate |-> FALSE]

\* A transaction: the write it is about to make, what it has read, the rows it
\* holds locks on until it ends and the one it has to lock next.
Step == {"idle", "open", "insert", "returnDrawer", "voidDrawer", "void", "close", "lateClose"}
Txn == [step : Step, shift : Shift \cup {None}, id : Entry \cup {None}, row : EntryRow,
        count : SUBSET Entry, version : 0..2, held : SUBSET (Shift \cup Entry),
        wants : Shift \cup Entry \cup {None}]
Idle == [step |-> "idle", shift |-> None, id |-> None, row |-> NewEntry, count |-> {},
         version |-> 0, held |-> {}, wants |-> None]

Free(w, x) == \A v \in Worker \ {w} : x \notin txn[v].held
Begin(w, t) == txn[w] = Idle /\ txn' = [txn EXCEPT ![w] = t]
GoOn(w, t) == txn' = [txn EXCEPT ![w] = t]

\* A fresh id (uuid4): no row and no transaction has it.
Unused(e) == entry[e] = NewEntry /\ \A v \in Worker : txn[v].id # e

Open(s) == shift[s].status = "open"
Known(s) == shift[s].status # "new"

\* The rows of a settled sale, a return or the ledger that count in shift s.
InDrawer(s) == {e \in Entry : entry[e].shift = s /\ entry[e].void = "no"}

Returns(o) == {e \in Entry : entry[e].kind = "return" /\ entry[e].of = o}

Voidable(o) == entry[o].kind = "sale" /\ entry[o].void = "no" /\ Returns(o) = {}
Returnable(o) ==
    entry[o].kind = "sale" /\ entry[o].void = "no" /\ Cardinality(Returns(o)) < Pieces

-----------------------------------------------------------------------------
Init ==
    /\ shift = [s \in Shift |-> NewShift]
    /\ entry = [e \in Entry |-> NewEntry]
    /\ txn = [w \in Worker |-> Idle]

-----------------------------------------------------------------------------
(* Opening a shift *)

\* Over REST a seller with an open shift is refused; a till's shift is kept
\* beside the other one, and flagged.
OpenShift(w, s, way) ==
    /\ shift[s] = NewShift /\ \A v \in Worker : txn[v].step = "open" => txn[v].shift # s
    /\ way = "rest" => \A other \in Shift : ~Open(other)
    /\ Begin(w, [Idle EXCEPT !.step = "open", !.shift = s])
    /\ UNCHANGED <<shift, entry>>

CommitOpen(w) ==
    /\ txn[w].step = "open"
    /\ shift' = [shift EXCEPT ![txn[w].shift].status = "open", ![txn[w].shift].version = 1]
    /\ GoOn(w, Idle)
    /\ UNCHANGED entry

-----------------------------------------------------------------------------
(* Money in and out of the drawer *)

Row(s, kind, of, way, late) ==
    [NewEntry EXCEPT !.kind = kind, !.shift = s, !.of = of, !.way = way, !.late = late]

Insert(s, e, row, held) ==
    [Idle EXCEPT !.step = "insert", !.shift = s, !.id = e, !.row = row, !.held = held]

\* Mutated: the shift is read without its lock.
PostUnlocked(w, s, e) ==
    /\ Free(w, s) /\ Open(s) /\ Unused(e)
    /\ Begin(w, Insert(s, e, Row(s, "sale", None, "rest", FALSE), {}))
    /\ UNCHANGED <<shift, entry>>

\* A sale, a debt collection or a payout over REST: the shift is locked first and
\* has to be open.
Post(w, s, e) ==
    /\ Free(w, s) /\ Open(s) /\ Unused(e)
    /\ Begin(w, Insert(s, e, Row(s, "sale", None, "rest", FALSE), {s}))
    /\ UNCHANGED <<shift, entry>>

\* The same from a till: the shift is read without a lock, and money of a closed
\* one is kept and flagged.
Arrive(w, s, e) ==
    /\ Known(s) /\ Unused(e)
    /\ Begin(w, Insert(s, e, Row(s, "sale", None, "sync", ~Open(s)), {}))
    /\ UNCHANGED <<shift, entry>>

CommitInsert(w) ==
    /\ txn[w].step = "insert"
    /\ entry' = [entry EXCEPT ![txn[w].id] = txn[w].row]
    /\ GoOn(w, Idle)
    /\ UNCHANGED shift

-----------------------------------------------------------------------------
(* Returns *)

\* A return over REST locks the sale, then checks what is left of it.
LockReturned(w, s, e, o) ==
    /\ Free(w, o) /\ Returnable(o) /\ Unused(e) /\ Known(s)
    /\ Begin(w, [Insert(s, e, Row(s, "return", o, "rest", FALSE), {o})
                    EXCEPT !.step = "returnDrawer", !.wants = s])
    /\ UNCHANGED <<shift, entry>>

WithDrawer(w, step) ==
    [txn[w] EXCEPT !.step = step, !.held = @ \cup {txn[w].shift}, !.wants = None]

\* Then it locks the drawer the cash comes out of, which has to be open.
LockDrawerOfReturn(w) ==
    LET s == txn[w].shift IN
    /\ txn[w].step = "returnDrawer"
    /\ Free(w, s)
    /\ GoOn(w, IF Open(s) THEN WithDrawer(w, "insert") ELSE Idle)
    /\ UNCHANGED <<shift, entry>>

\* Mutated: the sale is read without its lock.
ArriveReturnUnlocked(w, s, e, o) ==
    /\ Returnable(o) /\ Unused(e) /\ Known(s)
    /\ Begin(w, Insert(s, e, Row(s, "return", o, "sync", ~Open(s)), {}))
    /\ UNCHANGED <<shift, entry>>

\* A return from a till: the sale is locked, the drawer is not.
ArriveReturn(w, s, e, o) ==
    /\ Free(w, o) /\ Returnable(o) /\ Unused(e) /\ Known(s)
    /\ Begin(w, Insert(s, e, Row(s, "return", o, "sync", ~Open(s)), {o}))
    /\ UNCHANGED <<shift, entry>>

-----------------------------------------------------------------------------
(* Voids *)

Void(s, e, way, late, held) ==
    [Idle EXCEPT !.step = "void", !.shift = s, !.id = e, !.held = held,
                 !.row = [entry[e] EXCEPT !.void = way, !.voidLate = late]]

\* Mutated: the shift is locked first.
LockVoidedDrawerFirst(w, o) ==
    LET s == entry[o].shift IN
    /\ Voidable(o) /\ Free(w, s)
    /\ Begin(w, [Void(s, o, "rest", FALSE, {s}) EXCEPT !.step = "voidDrawer", !.wants = o])
    /\ UNCHANGED <<shift, entry>>

\* A void over REST locks the sale, then its shift.
LockVoided(w, o) ==
    LET s == entry[o].shift IN
    /\ Free(w, o) /\ Voidable(o)
    /\ Begin(w, [Void(s, o, "rest", FALSE, {o}) EXCEPT !.step = "voidDrawer", !.wants = s])
    /\ UNCHANGED <<shift, entry>>

\* The cash of a closed shift is counted: the void is refused.
LockDrawerOfVoid(w) ==
    LET s == txn[w].shift IN
    /\ txn[w].step = "voidDrawer"
    /\ Free(w, s)
    /\ GoOn(w, IF Open(s) THEN WithDrawer(w, "void") ELSE Idle)
    /\ UNCHANGED <<shift, entry>>

\* A void from a till: the sale is locked, its shift is read without a lock and
\* the void of a counted sale is kept and flagged.
ArriveVoid(w, o) ==
    /\ Free(w, o) /\ Voidable(o)
    /\ Begin(w, Void(entry[o].shift, o, "sync", ~Open(entry[o].shift), {o}))
    /\ UNCHANGED <<shift, entry>>

CommitVoid(w) ==
    /\ txn[w].step = "void"
    /\ entry' = [entry EXCEPT ![txn[w].id] = txn[w].row]
    /\ GoOn(w, Idle)
    /\ UNCHANGED shift

-----------------------------------------------------------------------------
(* Closing a shift *)

Count(s, step, held) ==
    [Idle EXCEPT !.step = step, !.shift = s, !.count = InDrawer(s),
                 !.version = shift[s].version, !.held = held]

\* Over REST the shift is locked, has to be open, and its rows are counted.
CountLocked(w, s) ==
    /\ Free(w, s) /\ Open(s)
    /\ Begin(w, Count(s, "close", {s}))
    /\ UNCHANGED <<shift, entry>>

Close(w, version) ==
    shift' = [shift EXCEPT ![txn[w].shift] =
        [status |-> "closed", version |-> version, counted |-> txn[w].count,
         closedBy |-> IF txn[w].step = "close" THEN "rest" ELSE "sync"]]

\* Mutated: the close leaves the version as it is.
CommitCloseSameVersion(w) ==
    /\ txn[w].step = "close"
    /\ Close(w, shift[txn[w].shift].version)
    /\ GoOn(w, Idle)
    /\ UNCHANGED entry

CommitClose(w) ==
    /\ txn[w].step = "close"
    /\ Close(w, shift[txn[w].shift].version + 1)
    /\ GoOn(w, Idle)
    /\ UNCHANGED entry

\* A till's close: the open shift and its rows are read without a lock.
ReadAndCount(w, s) ==
    /\ Open(s)
    /\ Begin(w, [Count(s, "lateClose", {}) EXCEPT !.wants = s])
    /\ UNCHANGED <<shift, entry>>

\* Mutated: a close whatever the version has become.
CloseAnyVersion(w) ==
    /\ txn[w].step = "lateClose"
    /\ Free(w, txn[w].shift)
    /\ Close(w, shift[txn[w].shift].version + 1)
    /\ GoOn(w, Idle)
    /\ UNCHANGED entry

\* The write waits for whoever holds the shift and goes through only at the
\* version that was read.
CompareAndClose(w) ==
    LET s == txn[w].shift IN
    /\ txn[w].step = "lateClose"
    /\ Free(w, s)
    /\ IF shift[s].version = txn[w].version
       THEN Close(w, shift[s].version + 1)
       ELSE UNCHANGED shift
    /\ GoOn(w, Idle)
    /\ UNCHANGED entry

-----------------------------------------------------------------------------
\* A transaction that fails, or whose server dies, leaves nothing.
Rollback(w) ==
    /\ txn[w] # Idle
    /\ GoOn(w, Idle)
    /\ UNCHANGED <<shift, entry>>

BeginSome(w) ==
    \/ \E s \in Shift, way \in Way : OpenShift(w, s, way)
    \/ \E s \in Shift, e \in Entry : Post(w, s, e) \/ Arrive(w, s, e)
    \/ \E s \in Shift, e, o \in Entry : LockReturned(w, s, e, o) \/ ArriveReturn(w, s, e, o)
    \/ \E o \in Entry : LockVoided(w, o) \/ ArriveVoid(w, o)
    \/ \E s \in Shift : CountLocked(w, s) \/ ReadAndCount(w, s)

Continue(w) ==
    \/ LockDrawerOfReturn(w)
    \/ LockDrawerOfVoid(w)
    \/ CommitOpen(w)
    \/ CommitInsert(w)
    \/ CommitVoid(w)
    \/ CommitClose(w)
    \/ CompareAndClose(w)

Next == \E w \in Worker : BeginSome(w) \/ Continue(w) \/ Rollback(w)

Spec == Init /\ [][Next]_vars

-----------------------------------------------------------------------------
(* Properties *)

TypeOK ==
    /\ shift \in [Shift -> ShiftRow]
    /\ entry \in [Entry -> EntryRow]
    /\ txn \in [Worker -> Txn]

Of(s) == {e \in Entry : entry[e].shift = s}

Whole(counted, s) ==
    \A e \in Of(s) :
        /\ entry[e].way = "rest" /\ entry[e].void = "no" => e \in counted
        /\ entry[e].void = "rest" => e \notin counted

\* "Locked so a close waits for the sale or collection going into it"
\* (require_open_shift): a close made under the shift's lock counts every row the
\* REST API took into the shift, and none that it voided.
RestCloseIsWhole ==
    \A s \in Shift : shift[s].closedBy = "rest" => Whole(shift[s].counted, s)

\* The money of a sale goes back once: not more pieces come back than were sold,
\* and a sale is never both voided and returned, whoever does it at the same time
\* (the row lock of void_sale, refund_sale and of the sync reader).
GoesBackOnce ==
    \A o \in Entry :
        /\ Cardinality(Returns(o)) <= Pieces
        /\ entry[o].void # "no" => Returns(o) = {}

\* A close is final: no second close, and no later change of what it counted
\* (SHIFT_ALREADY_CLOSED, the version a close moves).
ClosedForGood == [][\A s \in Shift : shift[s].status = "closed" => shift'[s] = shift[s]]_vars

\* No circle of transactions that wait for each other's rows: locks go from the
\* sale to its drawer in every transaction.
NoDeadlock ==
    \A S \in SUBSET Worker :
        S # {} => \E w \in S : \A v \in S \ {w} : txn[w].wants \notin txn[v].held
=============================================================================
