------------------------------ MODULE SyncPush ------------------------------
(***************************************************************************)
(* Offline edits of shared ("master") rows and their way to the server:    *)
(* the outbox of a device, the push of its pending ops, the server threads *)
(* that decide them one by one, and the device's handling of the answers.  *)
(*                                                                         *)
(*   packages/dukan_data/lib/src/sync_service.dart      the device         *)
(*   server/dukan/infrastructure/sync_service.py        the server         *)
(*                                                                         *)
(* A row's content is abstracted to the write it came from.  A request may *)
(* be lost, its answer may be lost, the app may be killed between any two  *)
(* of its database writes, and a server thread whose device has given up   *)
(* goes on and meets the thread of the device's next request.  Reading the *)
(* feed page by page, by user and by scope, is the subject of ChangeFeed:  *)
(* here a device reads one change at a time with one cursor.               *)
(***************************************************************************)
EXTENDS Naturals, Sequences, FiniteSets

CONSTANTS
    Device,             \* tills
    User,               \* people who sign in on them
    Row,                \* ids of master rows (products, customers, ...)
    SeededRow,          \* the rows both sides hold at the start
    Handler,            \* server threads
    Rest,               \* the author of writes made through the REST API
    None,               \* no form, no thread
    MaxOps,             \* bound: ops a device records
    PushBatch,          \* ops per push request (pushBatch)
    MaxRest,            \* bound: writes through the REST API
    MaxLost,            \* bound: requests or answers lost
    MaxKilled,          \* bound: times the app is killed during a sync
    MaxRefused,         \* bound: refusals for now
    FinalRefusals,      \* kinds of op a rule of the server may refuse for good
    TransientRefusals,  \* kinds of op it may refuse for now
    EditDuringSync      \* whether a form may be open while the device syncs

ASSUME CountsAssumption ==
    /\ MaxOps \in Nat \ {0}
    /\ PushBatch \in Nat \ {0}
    /\ MaxRest \in Nat
    /\ MaxLost \in Nat
    /\ MaxKilled \in Nat
    /\ MaxRefused \in Nat

ASSUME SetsAssumption ==
    /\ SeededRow \subseteq Row
    /\ Rest \notin Device
    /\ None \notin Handler \cup Device
    /\ FinalRefusals \subseteq {"insert", "update"}
    /\ TransientRefusals \subseteq {"insert", "update"}
    /\ EditDuringSync \in BOOLEAN

VARIABLES
    outbox,     \* outbox[d]: the ops d recorded, in local_seq order
    local,      \* local[d][r]: d's copy of row r
    form,       \* form[d]: the edit screen open on d
    push,       \* push[d]: the sync running on d
    cursor,     \* cursor[d]: how far d has read the feed
    store,      \* store[r]: the server's row
    feed,       \* change_log, one record per committed write
    processed,  \* processed_ops: the recorded outcome of an op
    thread,     \* thread[h]: what server thread h is doing
    faults      \* how often each bounded event has happened

vars == <<outbox, local, form, push, cursor, store, feed, processed, thread, faults>>
clientVars == <<outbox, local, form, push, cursor>>
serverVars == <<store, feed, processed, thread>>

-----------------------------------------------------------------------------
(* Values *)

Kind == {"insert", "update"}
OpId == Device \X (1..MaxOps)
Writer == OpId \cup ({Rest} \X (0..MaxRest))
Origin == <<Rest, 0>>

\* One side's row: its version and the write its content comes from.
\* Version 0 is a row that is not there.
View == [version : Nat, by : Writer]
Absent == [version |-> 0, by |-> Origin]
Seeded(r) == IF r \in SeededRow THEN [version |-> 1, by |-> Origin] ELSE Absent

Status == {"pending", "acked", "conflict", "rejected", "dismissed"}
Op == [row : Row, kind : Kind, base : Nat, parent : Writer, actor : User, status : Status]

Failure == {"conflict", "rejected"}
Outcome == {"applied"} \cup Failure       \* what processed_ops can hold
Verdict == Outcome \cup {"retry"}         \* "retry": refused, not recorded
Chain == [Row -> {"none"} \cup Failure]   \* rows whose chain broke, with the verdict
Unbroken == [r \in Row |-> "none"]
Answer == [op : 1..MaxOps, verdict : Verdict, current : View]

Form == [row : Row, view : View, again : 0..MaxOps]

\* Ops are pushed, decided and answered in local_seq order, which is the order
\* of their numbers: what is left of a push is a set, and its first is next.
Idle == [phase |-> "idle", todo |-> {}, batch |-> {}, failed |-> Unbroken,
         on |-> None, answers |-> {}]
Phase == {"idle", "pushing", "waiting", "reading", "overwriting", "pulling"}
PushState == [phase : Phase, todo : SUBSET (1..MaxOps), batch : SUBSET (1..MaxOps),
              failed : Chain, on : {None} \cup Handler, answers : SUBSET Answer]

First(i, S) == i \in S /\ \A j \in S : i <= j

Free == [phase |-> "free", dev |-> None, todo |-> {}, verdict |-> "none",
         failed |-> Unbroken, answers |-> {}]
ThreadPhase == {"free", "lookup", "apply", "settle", "done"}
ThreadState == [phase : ThreadPhase, dev : {None} \cup Device, todo : SUBSET (1..MaxOps),
                verdict : {"none"} \cup Failure, failed : Chain, answers : SUBSET Answer]

Change == [row : Row, version : Nat, by : Writer]   \* one record of change_log

Faults == [rest : 0..MaxRest, lost : 0..MaxLost, killed : 0..MaxKilled,
           refused : 0..MaxRefused]

\* Mutated: a lost compare-and-set does not break the chain.
BreaksOnRefusalOnly(kind, verdict) == verdict = "rejected" /\ kind = "insert"

\* An op whose failure breaks the device's chain for its row: a later op there
\* was made on top of it (_breaks_chain; the device's own test is the same).
BreaksChain(kind, verdict) ==
    \/ verdict = "conflict" /\ kind = "update"
    \/ verdict = "rejected" /\ kind = "insert"

Broken(failed, op, verdict) ==
    IF BreaksChain(op.kind, verdict) THEN [failed EXCEPT ![op.row] = verdict] ELSE failed

Pending(d, u) ==
    {i \in DOMAIN outbox[d] : outbox[d][i].status = "pending" /\ outbox[d][i].actor = u}

SetStatus(d, i, status) == outbox' = [outbox EXCEPT ![d][i].status = status]
SetPush(d, p) == push' = [push EXCEPT ![d] = p]
SetThread(h, t) == thread' = [thread EXCEPT ![h] = t]

Syncing(d) == push[d].phase # "idle"

-----------------------------------------------------------------------------
Init ==
    /\ outbox = [d \in Device |-> <<>>]
    /\ local = [d \in Device |-> [r \in Row |-> Seeded(r)]]
    /\ form = [d \in Device |-> None]
    /\ push = [d \in Device |-> Idle]
    /\ cursor = [d \in Device |-> 0]
    /\ store = [r \in Row |-> Seeded(r)]
    /\ feed = <<>>
    /\ processed = [o \in OpId |-> "none"]
    /\ thread = [h \in Handler |-> Free]
    /\ faults = [rest |-> 0, lost |-> 0, killed |-> 0, refused |-> 0]

-----------------------------------------------------------------------------
(* The people at the tills *)

Record(d, r, kind, base, parent, u) ==
    Append(outbox[d], [row |-> r, kind |-> kind, base |-> base, parent |-> parent,
                       actor |-> u, status |-> "pending"])

NextOp(d) == Len(outbox[d]) + 1

\* A new row under a new id: the write and its op in one local transaction.
CreateRow(d, u, r) ==
    /\ EditDuringSync \/ ~Syncing(d)
    /\ NextOp(d) <= MaxOps
    /\ store[r] = Absent
    /\ \A e \in Device : \A i \in DOMAIN outbox[e] : outbox[e][i].row # r
    /\ outbox' = [outbox EXCEPT ![d] = Record(d, r, "insert", 0, Origin, u)]
    /\ local' = [local EXCEPT ![d][r] = [version |-> 1, by |-> <<d, NextOp(d)>>]]
    /\ UNCHANGED <<form, push, cursor, serverVars, faults>>

\* The edit screen keeps the row it was opened with, its version included.
OpenForm(d, r) ==
    /\ EditDuringSync \/ ~Syncing(d)
    /\ form[d] = None
    /\ local[d][r].version > 0
    /\ form' = [form EXCEPT ![d] = [row |-> r, view |-> local[d][r], again |-> 0]]
    /\ UNCHANGED <<outbox, local, push, cursor, serverVars, faults>>

\* "Apply again" on a conflicted edit: it reads the local version first and
\* writes in a transaction of its own.
RetryConflict(d, i) ==
    /\ EditDuringSync \/ ~Syncing(d)
    /\ form[d] = None
    /\ outbox[d][i].status = "conflict" /\ outbox[d][i].kind = "update"
    /\ LET r == outbox[d][i].row IN
       /\ local[d][r].version > 0
       /\ form' = [form EXCEPT ![d] = [row |-> r, view |-> local[d][r], again |-> i]]
    /\ UNCHANGED <<outbox, local, push, cursor, serverVars, faults>>

\* Saving writes the row one version past the one the form holds and records
\* the edit against that one, whatever the row has become since.
SaveForm(d, u) ==
    /\ form[d] # None
    /\ NextOp(d) <= MaxOps
    /\ form[d].again # 0 => u = outbox[d][form[d].again].actor
    /\ LET f == form[d]
           saved == Record(d, f.row, "update", f.view.version, f.view.by, u) IN
       /\ outbox' = [outbox EXCEPT ![d] =
              IF f.again = 0 THEN saved ELSE [saved EXCEPT ![f.again].status = "dismissed"]]
       /\ local' = [local EXCEPT ![d][f.row] =
              [version |-> f.view.version + 1, by |-> <<d, NextOp(d)>>]]
    /\ form' = [form EXCEPT ![d] = None]
    /\ UNCHANGED <<push, cursor, serverVars, faults>>

CancelForm(d) ==
    /\ form[d] # None
    /\ form' = [form EXCEPT ![d] = None]
    /\ UNCHANGED <<outbox, local, push, cursor, serverVars, faults>>

\* An issue set aside: off the counts, still in the outbox.
Dismiss(d, i) ==
    /\ outbox[d][i].status \in Failure
    /\ SetStatus(d, i, "dismissed")
    /\ UNCHANGED <<local, form, push, cursor, serverVars, faults>>

-----------------------------------------------------------------------------
(* The device: pushPending, then pullSince *)

\* The pending ops of the signed-in user, read once; no verdict of an earlier
\* sync is known (the map of failed rows is a local variable).
StartSync(d, u) ==
    /\ ~Syncing(d)
    /\ EditDuringSync \/ form[d] = None
    /\ SetPush(d, [Idle EXCEPT !.phase = "pushing", !.todo = Pending(d, u)])
    /\ UNCHANGED <<outbox, local, form, cursor, serverVars, faults>>

BatchReady(p) == Cardinality(p.batch) = PushBatch \/ p.todo = {}

\* The next op goes into the request, or takes the verdict its row broke with.
FillBatch(d, i) ==
    LET p == push[d]
        verdict == p.failed[outbox[d][i].row] IN
    /\ p.phase = "pushing" /\ ~BatchReady(p) /\ First(i, p.todo)
    /\ IF verdict = "none"
       THEN /\ SetPush(d, [p EXCEPT !.todo = @ \ {i}, !.batch = @ \cup {i}])
            /\ UNCHANGED outbox
       ELSE /\ SetPush(d, [p EXCEPT !.todo = @ \ {i}])
            /\ SetStatus(d, i, verdict)
    /\ UNCHANGED <<local, form, cursor, serverVars, faults>>

\* The request reaches a server thread.
SendBatch(d, h) ==
    LET p == push[d] IN
    /\ p.phase = "pushing" /\ BatchReady(p) /\ p.batch # {}
    /\ thread[h] = Free
    /\ SetThread(h, [Free EXCEPT !.phase = "lookup", !.dev = d, !.todo = p.batch])
    /\ SetPush(d, [p EXCEPT !.phase = "waiting", !.batch = {}, !.on = h])
    /\ UNCHANGED <<outbox, local, form, cursor, store, feed, processed, faults>>

\* Every batch is answered: the device goes on to the pull.
EndPush(d) ==
    LET p == push[d] IN
    /\ p.phase = "pushing" /\ p.todo = {} /\ p.batch = {}
    /\ SetPush(d, [Idle EXCEPT !.phase = "pulling"])
    /\ UNCHANGED <<outbox, local, form, cursor, serverVars, faults>>

ReceiveAnswers(d) ==
    LET p == push[d]
        h == p.on IN
    /\ p.phase = "waiting"
    /\ thread[h].phase = "done"
    /\ SetPush(d, [p EXCEPT !.phase = "reading", !.on = None, !.answers = thread[h].answers])
    /\ SetThread(h, Free)
    /\ UNCHANGED <<outbox, local, form, cursor, store, feed, processed, faults>>

FirstAnswer(a, S) == a \in S /\ \A b \in S : a.op <= b.op

\* Mutated: a conflict leaves the op in the outbox, to be sent again.
ReadAnswerLeavesConflicts(d, a) ==
    /\ push[d].phase = "reading"
    /\ FirstAnswer(a, push[d].answers)
    /\ IF a.verdict \in {"retry", "conflict"} THEN UNCHANGED outbox
       ELSE SetStatus(d, a.op, IF a.verdict = "applied" THEN "acked" ELSE a.verdict)
    /\ SetPush(d, [push[d] EXCEPT !.answers = @ \ {a}])
    /\ UNCHANGED <<local, form, cursor, serverVars, faults>>

\* One answer: the op's status, and for an op that broke its row, the row.  A
\* conflict goes on to the next write, which replaces the local copy.
ReadAnswer(d, a) ==
    /\ push[d].phase = "reading"
    /\ FirstAnswer(a, push[d].answers)
    /\ IF a.verdict = "retry" THEN UNCHANGED outbox
       ELSE SetStatus(d, a.op, IF a.verdict = "applied" THEN "acked" ELSE a.verdict)
    /\ SetPush(d, [push[d] EXCEPT
           !.failed = Broken(@, outbox[d][a.op], a.verdict),
           !.phase = IF a.verdict = "conflict" THEN "overwriting" ELSE @,
           !.answers = IF a.verdict = "conflict" THEN @ ELSE @ \ {a}])
    /\ UNCHANGED <<local, form, cursor, serverVars, faults>>

\* Mutated: the server's row is skipped like an old image of the feed.
OverwriteIfNewer(d, a) ==
    /\ push[d].phase = "overwriting"
    /\ FirstAnswer(a, push[d].answers)
    /\ local' = [local EXCEPT ![d][outbox[d][a.op].row] =
           IF @.version > a.current.version THEN @ ELSE a.current]
    /\ SetPush(d, [push[d] EXCEPT !.phase = "reading", !.answers = @ \ {a}])
    /\ UNCHANGED <<outbox, form, cursor, serverVars, faults>>

\* The server's row replaces the losing local copy (_apply with force).
Overwrite(d, a) ==
    /\ push[d].phase = "overwriting"
    /\ FirstAnswer(a, push[d].answers)
    /\ local' = [local EXCEPT ![d][outbox[d][a.op].row] = a.current]
    /\ SetPush(d, [push[d] EXCEPT !.phase = "reading", !.answers = @ \ {a}])
    /\ UNCHANGED <<outbox, form, cursor, serverVars, faults>>

\* All answers read: the next batch.
NextBatch(d) ==
    /\ push[d].phase = "reading" /\ push[d].answers = {}
    /\ SetPush(d, [push[d] EXCEPT !.phase = "pushing"])
    /\ UNCHANGED <<outbox, local, form, cursor, serverVars, faults>>

\* The next change of the feed: an image older than the local row is skipped.
PullChange(d) ==
    LET c == feed[cursor[d] + 1] IN
    /\ push[d].phase = "pulling"
    /\ cursor[d] < Len(feed)
    /\ local' = [local EXCEPT ![d][c.row] =
           IF @.version > c.version THEN @ ELSE [version |-> c.version, by |-> c.by]]
    /\ cursor' = [cursor EXCEPT ![d] = @ + 1]
    /\ UNCHANGED <<outbox, form, push, serverVars, faults>>

EndSync(d) ==
    /\ push[d].phase = "pulling"
    /\ cursor[d] = Len(feed)
    /\ SetPush(d, Idle)
    /\ UNCHANGED <<outbox, local, form, cursor, serverVars, faults>>

\* The network fails: the request never arrives, or its answer never does.  The
\* sync ends; the thread, if there is one, goes on.
LoseConnection(d) ==
    LET p == push[d] IN
    /\ \/ p.phase \in {"waiting", "pulling"}
       \/ p.phase = "pushing" /\ BatchReady(p) /\ p.batch # {}
    /\ faults.lost < MaxLost
    /\ faults' = [faults EXCEPT !.lost = @ + 1]
    /\ SetPush(d, Idle)
    /\ UNCHANGED <<outbox, local, form, cursor, serverVars>>

\* The app is killed in the middle of a sync, between two of its writes.
KillApp(d) ==
    /\ Syncing(d)
    /\ faults.killed < MaxKilled
    /\ faults' = [faults EXCEPT !.killed = @ + 1]
    /\ SetPush(d, Idle)
    /\ form' = [form EXCEPT ![d] = None]
    /\ UNCHANGED <<outbox, local, cursor, serverVars>>

-----------------------------------------------------------------------------
(* The server: push, one op after another *)

IdOf(h, i) == <<thread[h].dev, i>>
OpOf(h, i) == outbox[thread[h].dev][i]

At(h, i, phase) == thread[h].phase = phase /\ First(i, thread[h].todo)

\* Thread h answers op i and goes on to the next one.
Reply(h, i, verdict, current) ==
    LET t == thread[h]
        rest == t.todo \ {i} IN
    SetThread(h, [t EXCEPT
        !.phase = IF rest = {} THEN "done" ELSE "lookup",
        !.todo = rest,
        !.verdict = "none",
        !.failed = Broken(@, OpOf(h, i), verdict),
        !.answers = @ \cup {[op |-> i, verdict |-> verdict, current |-> current]}])

\* The recorded outcome again, a conflict with the row as it is now.
Replay(h, i) == Reply(h, i, processed[IdOf(h, i)], store[OpOf(h, i).row])

\* Whether the op was decided before, and if not, whether the chain of its row
\* is broken; two threads may both find the same op new.
LookUp(h, i) ==
    LET op == OpOf(h, i)
        earlier == thread[h].failed[op.row] IN
    /\ At(h, i, "lookup")
    /\ IF processed[IdOf(h, i)] # "none"
       THEN Replay(h, i)
       ELSE SetThread(h, [thread[h] EXCEPT
                !.phase = IF earlier = "none" THEN "apply" ELSE "settle",
                !.verdict = earlier])
    /\ UNCHANGED <<clientVars, store, feed, processed, faults>>

ToSettle(h, verdict) ==
    SetThread(h, [thread[h] EXCEPT !.phase = "settle", !.verdict = verdict])

\* A refusal that may pass later (a permission, a closed shift): answered, not
\* recorded.
RefuseForNow(h, i) ==
    LET op == OpOf(h, i) IN
    /\ At(h, i, "apply")
    /\ op.kind \in TransientRefusals
    /\ faults.refused < MaxRefused
    /\ faults' = [faults EXCEPT !.refused = @ + 1]
    /\ Reply(h, i, "retry", store[op.row])
    /\ UNCHANGED <<clientVars, store, feed, processed>>

\* Mutated: the missing row is recorded like any other refusal.
RecordNotThere(h, i) ==
    LET op == OpOf(h, i) IN
    /\ At(h, i, "apply")
    /\ op.kind = "update" /\ store[op.row].version = 0
    /\ Reply(h, i, "retry", store[op.row])
    /\ processed' = [processed EXCEPT ![IdOf(h, i)] = "retry"]
    /\ UNCHANGED <<clientVars, store, feed, faults>>

\* An edit of a row that has not arrived (*_NOT_FOUND) may also pass later.
NotThereYet(h, i) ==
    LET op == OpOf(h, i) IN
    /\ At(h, i, "apply")
    /\ op.kind = "update" /\ store[op.row].version = 0
    /\ Reply(h, i, "retry", store[op.row])
    /\ UNCHANGED <<clientVars, store, feed, processed, faults>>

\* A rule refuses the op for good.
RefuseForGood(h, i) ==
    /\ At(h, i, "apply")
    /\ OpOf(h, i).kind \in FinalRefusals
    /\ ToSettle(h, "rejected")
    /\ UNCHANGED <<clientVars, store, feed, processed, faults>>

\* What an op finds when it loses its compare-and-set: an edit of a row whose
\* version has moved, an insert of a row that is there.
Loses(op) ==
    LET at == store[op.row].version IN
    IF op.kind = "insert" THEN at # 0 ELSE at # 0 /\ at # op.base

LoseCompareAndSet(h, i) ==
    /\ At(h, i, "apply")
    /\ Loses(OpOf(h, i))
    /\ ToSettle(h, "conflict")
    /\ UNCHANGED <<clientVars, store, feed, processed, faults>>

Write(r, writer) ==
    LET next == store[r].version + 1 IN
    /\ store' = [store EXCEPT ![r] = [version |-> next, by |-> writer]]
    /\ feed' = Append(feed, [row |-> r, version |-> next, by |-> writer])

Fits(op) ==
    LET at == store[op.row].version IN
    IF op.kind = "insert" THEN at = 0 ELSE at # 0 /\ at = op.base

\* The row, its feed entry and the op's record in one database transaction.  A
\* record another thread committed first undoes it and is replayed.
ApplyOp(h, i) ==
    LET op == OpOf(h, i)
        id == IdOf(h, i) IN
    /\ At(h, i, "apply")
    /\ Fits(op)
    /\ IF processed[id] # "none"
       THEN Replay(h, i) /\ UNCHANGED <<store, feed, processed>>
       ELSE /\ Write(op.row, id)
            /\ processed' = [processed EXCEPT ![id] = "applied"]
            /\ Reply(h, i, "applied", store'[op.row])
    /\ UNCHANGED <<clientVars, faults>>

\* Mutated: the failure is recorded over whatever another thread recorded.
SettleOver(h, i) ==
    LET verdict == thread[h].verdict IN
    /\ At(h, i, "settle")
    /\ processed' = [processed EXCEPT ![IdOf(h, i)] = verdict]
    /\ Reply(h, i, verdict, store[OpOf(h, i).row])
    /\ UNCHANGED <<clientVars, store, feed, faults>>

\* Mutated: a record another thread committed first is kept but not answered.
SettleUnread(h, i) ==
    LET id == IdOf(h, i)
        verdict == thread[h].verdict IN
    /\ At(h, i, "settle")
    /\ processed' = [processed EXCEPT ![id] = IF @ = "none" THEN verdict ELSE @]
    /\ Reply(h, i, verdict, store[OpOf(h, i).row])
    /\ UNCHANGED <<clientVars, store, feed, faults>>

\* A failure is recorded against the op, unless another thread recorded an
\* outcome first: then that one is the answer.
Settle(h, i) ==
    LET id == IdOf(h, i)
        verdict == thread[h].verdict IN
    /\ At(h, i, "settle")
    /\ IF processed[id] # "none"
       THEN Replay(h, i) /\ UNCHANGED processed
       ELSE /\ processed' = [processed EXCEPT ![id] = verdict]
            /\ Reply(h, i, verdict, store[OpOf(h, i).row])
    /\ UNCHANGED <<clientVars, store, feed, faults>>

\* A thread whose device stopped waiting ends unheard.
EndUnheard(h) ==
    /\ thread[h].phase = "done"
    /\ \A d \in Device : push[d].on # h
    /\ SetThread(h, Free)
    /\ UNCHANGED <<clientVars, store, feed, processed, faults>>

\* A write through the REST API (PATCH /products/{id}).
RestEdit(r) ==
    /\ store[r].version > 0
    /\ faults.rest < MaxRest
    /\ faults' = [faults EXCEPT !.rest = @ + 1]
    /\ Write(r, <<Rest, faults.rest + 1>>)
    /\ UNCHANGED <<clientVars, processed, thread>>

-----------------------------------------------------------------------------
UserStep(d) ==
    \/ \E u \in User, r \in Row : CreateRow(d, u, r)
    \/ \E r \in Row : OpenForm(d, r)
    \/ \E u \in User : SaveForm(d, u)
    \/ CancelForm(d)
    \/ \E i \in DOMAIN outbox[d] : RetryConflict(d, i) \/ Dismiss(d, i)

SyncStep(d) ==
    \/ \E i \in push[d].todo : FillBatch(d, i)
    \/ \E h \in Handler : SendBatch(d, h)
    \/ EndPush(d)
    \/ ReceiveAnswers(d)
    \/ \E a \in push[d].answers : ReadAnswer(d, a) \/ Overwrite(d, a)
    \/ NextBatch(d)
    \/ PullChange(d)
    \/ EndSync(d)

ServerStep(h) ==
    \/ \E i \in thread[h].todo :
          \/ LookUp(h, i)
          \/ RefuseForNow(h, i)
          \/ NotThereYet(h, i)
          \/ RefuseForGood(h, i)
          \/ LoseCompareAndSet(h, i)
          \/ ApplyOp(h, i)
          \/ Settle(h, i)
    \/ EndUnheard(h)

Next ==
    \/ \E d \in Device : UserStep(d) \/ SyncStep(d) \/ LoseConnection(d) \/ KillApp(d)
    \/ \E d \in Device, u \in User : StartSync(d, u)
    \/ \E h \in Handler : ServerStep(h)
    \/ \E r \in Row : RestEdit(r)

Spec == Init /\ [][Next]_vars

\* The app syncs on its own every two minutes and a sync under way goes on; the
\* server answers what it took.  Ops go out under the sign-in of their author, so
\* every user has to come back to the till again and again.  Nothing makes a
\* person act, or a fault stop.
FairSpec ==
    /\ Spec
    /\ \A d \in Device :
          /\ WF_vars(SyncStep(d))
          /\ \A u \in User : SF_vars(StartSync(d, u))
    /\ \A h \in Handler : WF_vars(ServerStep(h))

-----------------------------------------------------------------------------
(* Properties *)

TypeOK ==
    /\ outbox \in [Device -> Seq(Op)]
    /\ \A d \in Device : Len(outbox[d]) <= MaxOps
    /\ local \in [Device -> [Row -> View]]
    /\ form \in [Device -> {None} \cup Form]
    /\ push \in [Device -> PushState]
    /\ cursor \in [Device -> Nat]
    /\ store \in [Row -> View]
    /\ feed \in Seq(Change)
    /\ processed \in [OpId -> {"none"} \cup Outcome]
    /\ thread \in [Handler -> ThreadState]
    /\ faults \in Faults

WrittenBy(id) == {n \in DOMAIN feed : feed[n].by = id}

\* Exactly once: however often an op is sent again, and by however many
\* threads at a time, the feed holds at most one write of it, and what the
\* server recorded as applied, and only that, is there (processed_ops,
\* _push_one, _settle).
AppliedOnce ==
    \A id \in OpId :
        /\ \A m, n \in WrittenBy(id) : m = n
        /\ processed[id] = "applied" <=> WrittenBy(id) # {}

\* An op shown as synced is on the server (pushPending, markAcked).
SyncedIsWritten ==
    \A d \in Device : \A i \in DOMAIN outbox[d] :
        outbox[d][i].status = "acked" => WrittenBy(<<d, i>>) # {}

\* What the device tells its user is what happened: an op shown as synced is on
\* the server, and one in the review list, or set aside there, never took
\* effect (pushPending against processed_ops).
StatusIsTrue ==
    /\ SyncedIsWritten
    /\ \A d \in Device : \A i \in DOMAIN outbox[d] :
          outbox[d][i].status \in Failure \cup {"dismissed"} => WrittenBy(<<d, i>>) = {}

\* The write that the n-th change of the feed replaced.
Replaced(n) ==
    LET earlier == {m \in 1..(n - 1) : feed[m].row = feed[n].row} IN
    IF earlier = {} THEN Origin
    ELSE feed[CHOOSE m \in earlier : \A k \in earlier : k <= m].by

\* No edit overwrites, without review, a write its author had not seen: an edit
\* the server takes was made on the very content it replaces.  Versions alone
\* do not say so (a device's own versions count edits the server refused); the
\* chain rule of push and pushPending is there for it.
NoUnseenOverwrite ==
    \A n \in DOMAIN feed :
        LET id == feed[n].by IN
        id \in OpId => outbox[id[1]][id[2]].parent = Replaced(n)

\* With nothing left to push and the feed read to its end, a device holds the
\* server's rows: no losing edit, and no image older than the server's,
\* survives (Overwrite, PullChange).  Left out: a row whose insert was refused,
\* which only the device has.
Settled(d, r) ==
    \A i \in DOMAIN outbox[d] : outbox[d][i].row = r => outbox[d][i].status # "pending"

RowRefused(d, r) ==
    \E i \in DOMAIN outbox[d] : outbox[d][i].row = r /\ outbox[d][i].kind = "insert"
                              /\ store[r].version = 0

DeviceAgrees ==
    \A d \in Device :
        ~Syncing(d) /\ cursor[d] = Len(feed) =>
            \A r \in Row : Settled(d, r) /\ ~RowRefused(d, r) => local[d][r] = store[r]

\* Once the people stop, every op gets its verdict, whatever was lost on the way.
EveryOpSettles == <>[](\A d \in Device : \A r \in Row : Settled(d, r))
=============================================================================
