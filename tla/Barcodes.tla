-------------------------------- MODULE Barcodes --------------------------------
(***************************************************************************)
(* The codes that products are scanned by.  Tills put a code on a product  *)
(* and take it off while they are offline, and send both as ops; the REST  *)
(* API does the same at once.  A code may be on one product at a time: the *)
(* server looks for a live row that has it, and a unique index has the     *)
(* last word.                                                              *)
(*                                                                         *)
(*   server/dukan/infrastructure/catalog_service.py, sync_service.py       *)
(*   server/dukan/application/sync_policy.py   _barcodes_insert, _update   *)
(*   packages/dukan_data/lib/src/catalog_store.dart, sync_service.dart     *)
(*                                                                         *)
(* The server decides the ops of a push one by one, and a till reads the   *)
(* answers one by one: here each op is a request of its own.  Batches and  *)
(* repeated requests at work at the same time are in SyncPush, scopes and  *)
(* restarts of a pull in ChangeFeed.                                       *)
(***************************************************************************)
EXTENDS Integers, Sequences, FiniteSets

CONSTANTS
    Till, Barcode,  \* a barcode is one row, with an id of its own
    Worker,         \* server threads with a request over REST
    Code, CodeOf,   \* CodeOf[b]: the code row b carries
    MadeBy,         \* MadeBy[b]: the till that makes row b, None over REST
    KilledAt,       \* the steps of a sync at which the app may be killed
    None

ASSUME BarcodeAssumption == CodeOf \in [Barcode -> Code] /\ MadeBy \in [Barcode -> Till \cup {None}]

VARIABLES
    server,     \* server[b]: the row in the server's table
    feed,       \* the images of rows, in the order they were committed
    recorded,   \* recorded[o]: the outcome processed_ops holds for op o
    rest,       \* rest[w]: the REST request thread w serves, its check passed
    local,      \* local[t][b]: the row in till t's table
    status,     \* status[o]: op o in its till's outbox
    outbox,     \* outbox[t]: the ops of till t as it recorded them
    sync,       \* sync[t]: the sync under way on till t
    cursor      \* cursor[t]: how far till t has read the feed

books == <<server, feed>>
till == <<local, status, outbox>>
vars == <<books, recorded, rest, till, sync, cursor>>

-----------------------------------------------------------------------------
(* Values *)

\* A row is version 1 until it is taken off, and version 2 from then on.  "refused": the
\* till has deleted its copy of a row the server refused, without a new version.
RowState == {"none", "live", "removed"}
Local == RowState \cup {"refused"}
Version(s) == IF s = "removed" THEN 2 ELSE 1

Op == [till : Till, kind : {"add", "remove"}, row : Barcode]
ASSUME NoneAssumption == None \notin Till \cup Barcode \cup Op
Status == {"none", "pending", "acked", "rejected", "conflict"}
Outcome == {"none", "applied", "rejected", "conflict"}

\* What is left of the ops the push began with, the op in flight and its answer, and the
\* rows whose insert this push saw refused.
Step == {"idle", "push", "plan", "write", "answer", "drop", "pull"}
Sync == [step : Step, todo : SUBSET Op, op : Op \cup {None}, second : BOOLEAN,
         got : Outcome \cup {"later"}, refused : SUBSET Barcode]
Idle == [step |-> "idle", todo |-> {}, op |-> None, second |-> FALSE, got |-> "none",
         refused |-> {}]
Request == [kind : {"none", "add", "remove"}, row : Barcode \cup {None}]
NoRequest == [kind |-> "none", row |-> None]

GoOn(t, s) == sync' = [sync EXCEPT ![t] = s]
OpOf(t, kind, b) == [till |-> t, kind |-> kind, row |-> b]
Pending(t) == {o \in Op : o.till = t /\ status[o] = "pending"}

\* In local_seq order.
IsFirst(t, o) ==
    \E i \in DOMAIN outbox[t] :
        outbox[t][i] = o /\ \A j \in 1 .. i - 1 : outbox[t][j] \notin sync[t].todo

Taken(c) == \E b \in Barcode : server[b] = "live" /\ CodeOf[b] = c
LocallyTaken(t, c) == \E b \in Barcode : local[t][b] = "live" /\ CodeOf[b] = c

Init ==
    /\ server = [b \in Barcode |-> "none"]
    /\ feed = <<>>
    /\ recorded = [o \in Op |-> "none"]
    /\ rest = [w \in Worker |-> NoRequest]
    /\ local = [t \in Till |-> [b \in Barcode |-> "none"]]
    /\ status = [o \in Op |-> "none"]
    /\ outbox = [t \in Till |-> <<>>]
    /\ sync = [t \in Till |-> Idle]
    /\ cursor = [t \in Till |-> 0]

\* A write of row b, and its image in the feed (record_change).
Put(b, s) == server' = [server EXCEPT ![b] = s] /\ feed' = Append(feed, [row |-> b, state |-> s])

\* Mutated: the table has no unique index.
FitsAlways(b) == TRUE

\* ux_barcodes_code_live: one live row for each code.
Fits(b) == ~Taken(CodeOf[b])

-----------------------------------------------------------------------------
(* Over REST: a request looks, and then writes *)

RestAdd(w, b) ==
    /\ rest[w] = NoRequest
    /\ MadeBy[b] = None /\ server[b] = "none" /\ ~Taken(CodeOf[b])
    /\ \A v \in Worker : rest[v].row # b
    /\ rest' = [rest EXCEPT ![w] = [kind |-> "add", row |-> b]]
    /\ UNCHANGED <<books, recorded, till, sync, cursor>>

RestRemove(w, b) ==
    /\ rest[w] = NoRequest
    /\ server[b] = "live"
    /\ rest' = [rest EXCEPT ![w] = [kind |-> "remove", row |-> b]]
    /\ UNCHANGED <<books, recorded, till, sync, cursor>>

\* An insert the index refuses is the same conflict as one the look refuses.  A removal
\* is written whoever else has removed the row meanwhile.
RestWrite(w) ==
    LET q == rest[w] IN
    /\ q # NoRequest
    /\ IF q.kind = "add"
       THEN IF Fits(q.row) THEN Put(q.row, "live") ELSE UNCHANGED books
       ELSE Put(q.row, "removed")
    /\ rest' = [rest EXCEPT ![w] = NoRequest]
    /\ UNCHANGED <<recorded, till, sync, cursor>>

-----------------------------------------------------------------------------
(* On a till, at any time *)

Record(o) ==
    /\ status' = [status EXCEPT ![o] = "pending"]
    /\ outbox' = [outbox EXCEPT ![o.till] = Append(@, o)]

AddBarcode(t, b) ==
    /\ MadeBy[b] = t /\ local[t][b] = "none" /\ ~LocallyTaken(t, CodeOf[b])
    /\ local' = [local EXCEPT ![t][b] = "live"]
    /\ Record(OpOf(t, "add", b))
    /\ UNCHANGED <<books, recorded, rest, sync, cursor>>

RemoveBarcode(t, b) ==
    /\ local[t][b] = "live"
    /\ local' = [local EXCEPT ![t][b] = "removed"]
    /\ Record(OpOf(t, "remove", b))
    /\ UNCHANGED <<books, recorded, rest, sync, cursor>>

-----------------------------------------------------------------------------
(* A sync: what is pending is pushed, then the feed is read *)

StartPush(t) ==
    /\ sync[t] = Idle
    /\ GoOn(t, [Idle EXCEPT !.step = "push", !.todo = Pending(t)])
    /\ UNCHANGED <<books, recorded, rest, till, cursor>>

\* An op on a row whose insert was refused takes its verdict, any other is sent.
NextOp(t, o) ==
    LET s == sync[t] IN
    /\ s.step = "push" /\ o \in s.todo /\ IsFirst(t, o)
    /\ IF o.row \in s.refused
       THEN /\ status' = [status EXCEPT ![o] = "rejected"]
            /\ GoOn(t, [s EXCEPT !.todo = @ \ {o}])
       ELSE /\ GoOn(t, [s EXCEPT !.todo = @ \ {o}, !.op = o, !.step = "plan", !.second = FALSE])
            /\ UNCHANGED status
    /\ UNCHANGED <<books, recorded, rest, local, outbox, cursor>>

\* What plan_op finds: write, nothing to do, refused for good, not there yet.
Plan(o) ==
    IF o.kind = "add" THEN IF Taken(CodeOf[o.row]) THEN "rejected" ELSE "write"
    ELSE CASE server[o.row] = "none" -> "later"
           [] server[o.row] = "live" -> "write"
           [] server[o.row] = "removed" -> "applied"

Reply(t, answer) == GoOn(t, [sync[t] EXCEPT !.step = "answer", !.got = answer])
Decide(o, outcome) == recorded' = [recorded EXCEPT ![o] = outcome]

\* _push_one: an op that was decided before is answered as it was.
PlanOp(t) ==
    LET o == sync[t].op IN
    /\ sync[t].step = "plan"
    /\ IF recorded[o] # "none" THEN Reply(t, recorded[o]) /\ UNCHANGED recorded
       ELSE CASE Plan(o) = "write" -> GoOn(t, [sync[t] EXCEPT !.step = "write"]) /\ UNCHANGED recorded
              [] Plan(o) = "later" -> Reply(t, "later") /\ UNCHANGED recorded
              [] Plan(o) \in {"applied", "rejected"} -> Reply(t, Plan(o)) /\ Decide(o, Plan(o))
    /\ UNCHANGED <<books, rest, till, cursor>>

\* A user without the permission for now, or a branch that is closed for now.
RefuseForNow(t) ==
    /\ sync[t].step = "plan" /\ recorded[sync[t].op] = "none"
    /\ Reply(t, "later")
    /\ UNCHANGED <<books, recorded, rest, till, cursor>>

\* A code that was taken meanwhile is looked at once more; a row that was removed
\* meanwhile loses the compare-and-set.
WriteOp(t) ==
    LET s == sync[t]
        o == s.op
        ok == IF o.kind = "add" THEN Fits(o.row) ELSE server[o.row] = "live" IN
    /\ s.step = "write"
    /\ IF ok
       THEN /\ Put(o.row, IF o.kind = "add" THEN "live" ELSE "removed")
            /\ Reply(t, "applied") /\ Decide(o, "applied")
       ELSE /\ IF o.kind = "remove" THEN Reply(t, "conflict") /\ Decide(o, "conflict")
               ELSE /\ IF s.second THEN Reply(t, "later")
                       ELSE GoOn(t, [s EXCEPT !.step = "plan", !.second = TRUE])
                    /\ UNCHANGED recorded
            /\ UNCHANGED books
    /\ UNCHANGED <<rest, till, cursor>>

\* The outbox row first; the copy of a refused barcode after that, in a write of its own.
ReadAnswer(t) ==
    LET s == sync[t] IN
    /\ s.step = "answer"
    /\ status' = [status EXCEPT ![s.op] = CASE s.got = "applied" -> "acked"
                                            [] s.got = "later"   -> @
                                            [] OTHER             -> s.got]
    /\ LET dropped == s.got = "rejected" /\ s.op.kind = "add" IN
       GoOn(t, [s EXCEPT !.step = IF dropped THEN "drop" ELSE "push",
                         !.refused = IF dropped THEN @ \cup {s.op.row} ELSE @,
                         !.op = IF dropped THEN @ ELSE None, !.got = "none"])
    /\ UNCHANGED <<books, recorded, rest, local, outbox, cursor>>

\* Mutated: the refused copy stays.
DropNothing(t) ==
    /\ sync[t].step = "drop"
    /\ GoOn(t, [sync[t] EXCEPT !.step = "push", !.op = None])
    /\ UNCHANGED <<books, recorded, rest, till, cursor>>

DropRefused(t) ==
    LET b == sync[t].op.row IN
    /\ sync[t].step = "drop"
    /\ local' = [local EXCEPT ![t][b] = IF @ = "removed" THEN @ ELSE "refused"]
    /\ GoOn(t, [sync[t] EXCEPT !.step = "push", !.op = None])
    /\ UNCHANGED <<books, recorded, rest, status, outbox, cursor>>

StartPull(t) ==
    /\ sync[t].step = "push" /\ sync[t].todo = {}
    /\ GoOn(t, [Idle EXCEPT !.step = "pull"])
    /\ UNCHANGED <<books, recorded, rest, till, cursor>>

\* Mutated: any image replaces the local row.
OlderNever(image, s) == FALSE

\* An image older than the local row does not rewind it.
Older(image, s) == s # "none" /\ Version(s) > Version(image)

PullChange(t) ==
    LET next == feed[cursor[t] + 1] IN
    /\ sync[t].step = "pull" /\ cursor[t] < Len(feed)
    /\ local' = IF Older(next.state, local[t][next.row]) THEN local
                ELSE [local EXCEPT ![t][next.row] = next.state]
    /\ cursor' = [cursor EXCEPT ![t] = @ + 1]
    /\ UNCHANGED <<books, recorded, rest, status, outbox, sync>>

EndSync(t) ==
    /\ sync[t].step = "pull" /\ cursor[t] = Len(feed)
    /\ GoOn(t, Idle)
    /\ UNCHANGED <<books, recorded, rest, till, cursor>>

\* The connection is lost, before or after the server decided: the sync ends.
LoseConnection(t) ==
    /\ sync[t].step \in {"plan", "answer", "pull"}
    /\ GoOn(t, Idle)
    /\ UNCHANGED <<books, recorded, rest, till, cursor>>

KillApp(t) ==
    /\ sync[t].step \in KilledAt
    /\ GoOn(t, Idle)
    /\ UNCHANGED <<books, recorded, rest, till, cursor>>

Next ==
    \/ \E w \in Worker : RestWrite(w) \/ \E b \in Barcode : RestAdd(w, b) \/ RestRemove(w, b)
    \/ \E t \in Till :
         \/ \E b \in Barcode : AddBarcode(t, b) \/ RemoveBarcode(t, b)
         \/ \E o \in Op : NextOp(t, o)
         \/ StartPush(t) \/ PlanOp(t) \/ RefuseForNow(t) \/ WriteOp(t) \/ ReadAnswer(t)
         \/ DropRefused(t) \/ StartPull(t) \/ PullChange(t) \/ EndSync(t)
         \/ LoseConnection(t) \/ KillApp(t)

Spec == Init /\ [][Next]_vars

-----------------------------------------------------------------------------
(* Properties *)

TypeOK ==
    /\ server \in [Barcode -> RowState]
    /\ feed \in Seq([row : Barcode, state : {"live", "removed"}])
    /\ recorded \in [Op -> Outcome] /\ status \in [Op -> Status]
    /\ rest \in [Worker -> Request]
    /\ local \in [Till -> [Barcode -> Local]]
    /\ outbox \in [Till -> Seq(Op)]
    /\ sync \in [Till -> Sync]
    /\ cursor \in [Till -> Nat]

\* A scan resolves to one product: no two live rows of the server carry one code, though
\* each request looks before another one writes (_log_barcode, _barcodes_insert).
CodesUnique ==
    \A b, c \in Barcode : server[b] = "live" /\ server[c] = "live" /\ CodeOf[b] = CodeOf[c] => b = c

\* A till that has nothing pending and has read the whole feed scans what the server
\* says: a copy the server refused never wins a code (pushPending, pullSince).
CaughtUp(t) == sync[t] = Idle /\ Pending(t) = {} /\ cursor[t] = Len(feed)
ScansAgree == \A t \in Till : CaughtUp(t) => \A b \in Barcode : local[t][b] = "live" <=> server[b] = "live"

\* A code that was taken off a product never comes back by itself, on the server or on a
\* till that has seen it go: not by an older image, not by an op sent again.
StaysRemoved(b) == server[b] = "removed" => server'[b] = "removed"
StaysOff(t, b) == local[t][b] \in {"removed", "refused"} => local'[t][b] \in {"removed", "refused"}
RemovedStaysRemoved == [][\A b \in Barcode : StaysRemoved(b) /\ \A t \in Till : StaysOff(t, b)]_vars
=============================================================================
