----------------------------- MODULE ChangeFeed -----------------------------
(***************************************************************************)
(* The change feed and how a device reads it: transactions append to       *)
(* change_log under one advisory lock, every user of a device has a cursor *)
(* of their own, a pull reads page by page, and the device starts again    *)
(* when the server was restored from a backup or the user's scope changed. *)
(*                                                                         *)
(*   server/dukan/infrastructure/change_feed.py     record_change          *)
(*   server/dukan/infrastructure/sync_service.py    pull                   *)
(*   packages/dukan_data/lib/src/sync_service.dart  pullSince, _apply      *)
(*                                                                         *)
(* A row is a master row, whose images carry its version, or a fact: a     *)
(* sale, written once and perhaps voided, whose images carry none.  The    *)
(* push of an edit is one step here; SyncPush takes it apart.              *)
(***************************************************************************)
EXTENDS Naturals, FiniteSets

CONSTANTS
    Row,                \* rows of the synced tables
    Master,             \* those with a version; the others are facts
    Editable,           \* rows people edit, or void, on the device
    User,               \* people who sign in on the device
    Writer,             \* transactions of the server
    None,               \* no row, no user, no page, no edit
    FirstScope,         \* FirstScope[u]: the rows u may read at the start
    PageSize,           \* changes a pull returns (limit)
    MaxPages,           \* pages a pull reads (maxPullPages)
    MaxWrites,          \* bound: writes, the rolled back and the local ones too
    MaxRescopes,        \* bound: changes of a user's roles
    MaxRestores,        \* bound: restores from a backup
    MaxStops,           \* bound: pulls that stop half way
    ChangesDuringPull   \* whether roles change and backups return under a pull

ASSUME RowsAssumption ==
    /\ Master \subseteq Row
    /\ Editable \subseteq Row
    /\ None \notin Row \cup User
    /\ FirstScope \in [User -> (SUBSET Row) \ {{}}]

ASSUME BoundsAssumption ==
    /\ PageSize \in Nat \ {0}
    /\ MaxPages \in Nat \ {0}
    /\ MaxWrites \in Nat
    /\ MaxRescopes \in Nat
    /\ MaxRestores \in Nat
    /\ MaxStops \in Nat
    /\ ChangesDuringPull \in BOOLEAN

VARIABLES
    store,      \* store[r]: the server's row
    feed,       \* the committed rows of change_log
    nextSeq,    \* its sequence, which no rollback takes back
    txn,        \* txn[w]: what a writing transaction has done so far
    roles,      \* roles[u]: the rows u may read
    local,      \* local[r]: the device's copy
    edit,       \* edit[r]: the edit of r waiting on the device
    cursor,     \* cursor[u]: how far u has read the feed on the device
    pull,       \* the pull under way
    count       \* how often each bounded event has happened

vars == <<store, feed, nextSeq, txn, roles, local, edit, cursor, pull, count>>
serverVars == <<store, feed, nextSeq, txn, roles>>
deviceVars == <<local, edit, cursor, pull>>

-----------------------------------------------------------------------------
(* Values *)

WriteId == 0..MaxWrites
View == [version : Nat, by : WriteId]       \* version 0: not there
Absent == [version |-> 0, by |-> 0]

\* The token of a change hashes its seq, row and time: here the write it is of.
Change == [seq : Nat \ {0}, row : Row, version : Nat, by : WriteId]
Scope == SUBSET Row                         \* the fingerprint tells scopes apart

Idle == [phase |-> "idle", row |-> None, seq |-> 0, by |-> 0]
Txn == [phase : {"idle", "rowLocked", "appended"}, row : {None} \cup Row,
        seq : Nat, by : WriteId]

Cursor == [seq : Nat, token : WriteId, scope : Scope]
Unread == [seq |-> 0, token |-> 0, scope |-> {}]

Page == [changes : SUBSET Change, watermark : Nat, token : WriteId, scope : Scope,
         reset : BOOLEAN]
Pull == [user : User, seq : Nat, token : WriteId, scope : Scope, saved : Scope,
         restarted : BOOLEAN, pages : 0..MaxPages, page : {None} \cup Page]

Edit == [base : Nat, by : WriteId]

ASSUME NoneAssumption == None \notin Edit

Fact == Row \ Master
Settled == 1    \* the versions of a fact: a sale as it was rung up,
Voided == 2     \* and voided

RowFree(r) == \A w \in Writer : txn[w].row # r
FeedLockFree == \A w \in Writer : txn[w].phase # "appended"
MayChange == ChangesDuringPull \/ pull = None

NewWrite == count.writes + 1
CountWrite == /\ count.writes < MaxWrites
              /\ count' = [count EXCEPT !.writes = @ + 1]

Last(changes) == CHOOSE c \in changes : \A b \in changes : b.seq <= c.seq

-----------------------------------------------------------------------------
Init ==
    /\ store = [r \in Row |-> Absent]
    /\ feed = {}
    /\ nextSeq = 1
    /\ txn = [w \in Writer |-> Idle]
    /\ roles = FirstScope
    /\ local = [r \in Row |-> Absent]
    /\ edit = [r \in Row |-> None]
    /\ cursor = [u \in User |-> Unread]
    /\ pull = None
    /\ count = [writes |-> 0, rescopes |-> 0, restores |-> 0, stops |-> 0]

-----------------------------------------------------------------------------
(* The server's writing transactions *)

\* A transaction takes its row's lock first.
LockRow(w, r) ==
    /\ txn[w] = Idle
    /\ RowFree(r)
    /\ r \in Fact => store[r].version < Voided
    /\ CountWrite
    /\ txn' = [txn EXCEPT ![w] = [Idle EXCEPT !.phase = "rowLocked", !.row = r, !.by = NewWrite]]
    /\ UNCHANGED <<store, feed, nextSeq, roles, deviceVars>>

\* Mutated: the change is appended without the advisory lock.
AppendUnlocked(w) ==
    /\ txn[w].phase = "rowLocked"
    /\ txn' = [txn EXCEPT ![w].phase = "appended", ![w].seq = nextSeq]
    /\ nextSeq' = nextSeq + 1
    /\ UNCHANGED <<store, feed, roles, deviceVars, count>>

\* record_change: the advisory lock, held until the transaction ends, then the
\* next seq.
AppendChange(w) ==
    /\ txn[w].phase = "rowLocked"
    /\ FeedLockFree
    /\ txn' = [txn EXCEPT ![w].phase = "appended", ![w].seq = nextSeq]
    /\ nextSeq' = nextSeq + 1
    /\ UNCHANGED <<store, feed, roles, deviceVars, count>>

\* The write and its change become visible together.
Commit(w) ==
    LET t == txn[w]
        next == store[t.row].version + 1 IN
    /\ t.phase = "appended"
    /\ store' = [store EXCEPT ![t.row] = [version |-> next, by |-> t.by]]
    /\ feed' = feed \cup {[seq |-> t.seq, row |-> t.row, version |-> next, by |-> t.by]}
    /\ txn' = [txn EXCEPT ![w] = Idle]
    /\ UNCHANGED <<nextSeq, roles, deviceVars, count>>

\* Its seq, if it had one, is a gap.
Rollback(w) ==
    /\ txn[w] # Idle
    /\ txn' = [txn EXCEPT ![w] = Idle]
    /\ UNCHANGED <<store, feed, nextSeq, roles, deviceVars, count>>

\* A role or a branch granted or taken away.
ChangeRoles(u, scope) ==
    /\ scope \in Scope \ {{}, roles[u]}
    /\ MayChange
    /\ count.rescopes < MaxRescopes
    /\ count' = [count EXCEPT !.rescopes = @ + 1]
    /\ roles' = [roles EXCEPT ![u] = scope]
    /\ UNCHANGED <<store, feed, nextSeq, txn, deviceVars>>

\* The database comes back as it was after change n: what followed is gone and
\* its seqs are given out again.
Restore(n) ==
    LET kept == {c \in feed : c.seq <= n}
        of(r) == {c \in kept : c.row = r} IN
    /\ MayChange
    /\ count.restores < MaxRestores
    /\ count' = [count EXCEPT !.restores = @ + 1]
    /\ feed' = kept
    /\ nextSeq' = n + 1
    /\ store' = [r \in Row |-> IF of(r) = {} THEN Absent
                               ELSE [version |-> Last(of(r)).version, by |-> Last(of(r)).by]]
    /\ txn' = [w \in Writer |-> Idle]
    /\ UNCHANGED <<roles, deviceVars>>

-----------------------------------------------------------------------------
(* The device: edits, and their push *)

\* A master row edited, or a sale voided, on the till.
EditLocally(r) ==
    /\ r \in Editable
    /\ local[r].version > 0
    /\ edit[r] = None
    /\ r \in Fact => local[r].version = Settled
    /\ CountWrite
    /\ local' = [local EXCEPT ![r] = [version |-> @.version + 1, by |-> NewWrite]]
    /\ edit' = [edit EXCEPT ![r] = [base |-> local[r].version, by |-> NewWrite]]
    /\ UNCHANGED <<serverVars, cursor, pull>>

\* The edit reaches the server, whose row has not moved (a void: is not voided).
PushEdit(r) ==
    LET base == edit[r].base IN
    /\ edit[r] # None /\ pull = None
    /\ RowFree(r) /\ FeedLockFree
    /\ store[r].version = base
    /\ store' = [store EXCEPT ![r] = [version |-> base + 1, by |-> edit[r].by]]
    /\ feed' = feed \cup
           {[seq |-> nextSeq, row |-> r, version |-> base + 1, by |-> edit[r].by]}
    /\ nextSeq' = nextSeq + 1
    /\ edit' = [edit EXCEPT ![r] = None]
    /\ UNCHANGED <<txn, roles, local, cursor, pull, count>>

\* The row has moved: the server's row replaces the edited one.  A sale voided
\* already is voided; the void is done and nothing is written.
PushLosingEdit(r) ==
    /\ edit[r] # None /\ pull = None
    /\ RowFree(r)
    /\ store[r].version \notin {0, edit[r].base}
    /\ edit' = [edit EXCEPT ![r] = None]
    /\ local' = IF r \in Master THEN [local EXCEPT ![r] = store[r]] ELSE local
    /\ UNCHANGED <<serverVars, cursor, pull, count>>

-----------------------------------------------------------------------------
(* The device: pullSince *)

StartPull(u) ==
    /\ pull = None
    /\ pull' = [user |-> u, seq |-> cursor[u].seq, token |-> cursor[u].token,
                scope |-> cursor[u].scope, saved |-> cursor[u].scope,
                restarted |-> FALSE, pages |-> 0, page |-> None]
    /\ UNCHANGED <<serverVars, local, edit, cursor, count>>

\* The n changes of lowest seq.
Lowest(n, changes) == {c \in changes : Cardinality({b \in changes : b.seq < c.seq}) < n}

\* Mutated: any change at the seq will do.
HoldsSeq(seq, token) == \E c \in feed : c.seq = seq

Holds(seq, token) == \E c \in feed : c.seq = seq /\ c.by = token

\* The server's answer: the changes after a seq that the user may read, and the
\* last one scanned, readable or not; or that the seq is not the one it was.
PageAfter(seq, token, scope) ==
    LET scanned == Lowest(PageSize, {c \in feed : c.seq > seq}) IN
    IF seq > 0 /\ ~Holds(seq, token)
    THEN [changes |-> {}, watermark |-> 0, token |-> 0, scope |-> scope, reset |-> TRUE]
    ELSE [changes |-> {c \in scanned : c.row \in scope},
          watermark |-> IF scanned = {} THEN seq ELSE Last(scanned).seq,
          token |-> IF scanned = {} THEN token ELSE Last(scanned).by,
          scope |-> scope, reset |-> FALSE]

\* Mutated: the scope of the answer is kept without reading again.
MustRestartOnReset(page) == pull.seq > 0 /\ ~pull.restarted /\ page.reset

\* The page says to read again from the start, once in a pull.
MustRestart(page) ==
    pull.seq > 0 /\ ~pull.restarted /\ (page.reset \/ page.scope # pull.scope)

\* Mutated: the cursor moves on with the request, before its page is written.
RequestPageAndMoveOn ==
    /\ pull # None /\ pull.page = None
    /\ pull.pages < MaxPages
    /\ LET page == PageAfter(pull.seq, pull.token, roles[pull.user]) IN
       /\ pull' = [pull EXCEPT !.page = page, !.pages = @ + 1]
       /\ cursor' = IF page.watermark > pull.seq /\ ~MustRestart(page)
                    THEN [cursor EXCEPT ![pull.user] =
                        [seq |-> page.watermark, token |-> page.token, scope |-> page.scope]]
                    ELSE cursor
    /\ UNCHANGED <<serverVars, local, edit, count>>

\* Mutated: one page more than a pull may read.
RequestPageTooMany ==
    /\ pull # None /\ pull.page = None
    /\ pull.pages <= MaxPages
    /\ pull' = [pull EXCEPT !.page = PageAfter(pull.seq, pull.token, roles[pull.user]),
                            !.pages = @ + 1]
    /\ UNCHANGED <<serverVars, local, edit, cursor, count>>

RequestPage ==
    /\ pull # None /\ pull.page = None
    /\ pull.pages < MaxPages
    /\ pull' = [pull EXCEPT !.page = PageAfter(pull.seq, pull.token, roles[pull.user]),
                            !.pages = @ + 1]
    /\ UNCHANGED <<serverVars, local, edit, cursor, count>>

Restart ==
    LET u == pull.user IN
    /\ pull # None /\ pull.page # None
    /\ MustRestart(pull.page)
    /\ pull' = [pull EXCEPT !.seq = 0, !.token = 0, !.scope = pull.page.scope,
                            !.restarted = TRUE, !.page = None]
    /\ cursor' = [cursor EXCEPT ![u] = [seq |-> 0, token |-> 0, scope |-> pull.page.scope]]
    /\ UNCHANGED <<serverVars, local, edit, count>>

\* Mutated: no image is skipped.
ApplyAny(row, changes) ==
    LET images == {c \in changes : c.row = row} IN
    IF images = {} THEN local[row]
    ELSE [version |-> Last(images).version, by |-> Last(images).by]

\* What a page makes of the device's row: the images are written in order, and
\* one of a master row older than the local row is skipped.
Apply(row, changes) ==
    LET images == {c \in changes : c.row = row} IN
    IF images = {} \/ (row \in Master /\ Last(images).version < local[row].version)
    THEN local[row]
    ELSE [version |-> Last(images).version, by |-> Last(images).by]

\* Mutated: the scope is saved only with a new watermark.
ApplyPageKeepScope ==
    LET page == pull.page
        moved == page.watermark > pull.seq IN
    /\ pull # None /\ page # None
    /\ ~MustRestart(page)
    /\ local' = [r \in Row |-> Apply(r, page.changes)]
    /\ cursor' = [cursor EXCEPT ![pull.user] =
           IF moved THEN [seq |-> page.watermark, token |-> page.token, scope |-> pull.saved]
           ELSE @]
    /\ pull' = IF moved
               THEN [pull EXCEPT !.seq = page.watermark, !.token = page.token,
                                 !.scope = page.scope, !.page = None]
               ELSE None
    /\ UNCHANGED <<serverVars, edit, count>>

\* The page and the cursor in one local transaction; a page that is not past
\* the one before is the last.
ApplyPage ==
    LET page == pull.page
        moved == page.watermark > pull.seq IN
    /\ pull # None /\ page # None
    /\ ~MustRestart(page)
    /\ local' = [r \in Row |-> Apply(r, page.changes)]
    /\ cursor' = [cursor EXCEPT ![pull.user] =
           IF moved THEN [seq |-> page.watermark, token |-> page.token, scope |-> page.scope]
           ELSE IF page.scope # pull.saved
           THEN [seq |-> pull.seq, token |-> pull.token, scope |-> page.scope]
           ELSE @]
    /\ pull' = IF moved
               THEN [pull EXCEPT !.seq = page.watermark, !.token = page.token,
                                 !.scope = page.scope, !.page = None]
               ELSE None
    /\ UNCHANGED <<serverVars, edit, count>>

\* All the pages a pull may read.
LeaveRest ==
    /\ pull # None /\ pull.page = None
    /\ pull.pages = MaxPages
    /\ pull' = None
    /\ UNCHANGED <<serverVars, local, edit, cursor, count>>

\* The network fails, or the app is killed.
StopPull ==
    /\ pull # None
    /\ count.stops < MaxStops
    /\ count' = [count EXCEPT !.stops = @ + 1]
    /\ pull' = None
    /\ UNCHANGED <<serverVars, local, edit, cursor>>

-----------------------------------------------------------------------------
TxnStep(w) == AppendChange(w) \/ Commit(w) \/ Rollback(w)
PullStep == RequestPage \/ Restart \/ ApplyPage \/ LeaveRest
PushStep(r) == PushEdit(r) \/ PushLosingEdit(r)

Next ==
    \/ \E w \in Writer : TxnStep(w) \/ \E r \in Row : LockRow(w, r)
    \/ \E u \in User : StartPull(u) \/ \E scope \in Scope : ChangeRoles(u, scope)
    \/ \E n \in 0..nextSeq : n < nextSeq /\ Restore(n)
    \/ \E r \in Row : EditLocally(r) \/ PushStep(r)
    \/ PullStep
    \/ StopPull

Spec == Init /\ [][Next]_vars

\* Transactions end, the app syncs every two minutes and a pull goes on.
FairSpec ==
    /\ Spec
    /\ \A w \in Writer : WF_vars(TxnStep(w))
    /\ WF_vars(PullStep)
    /\ \A u \in User : WF_vars(StartPull(u))

-----------------------------------------------------------------------------
(* Properties *)

TypeOK ==
    /\ store \in [Row -> View]
    /\ feed \subseteq Change
    /\ nextSeq \in Nat \ {0}
    /\ txn \in [Writer -> Txn]
    /\ roles \in [User -> Scope \ {{}}]
    /\ local \in [Row -> View]
    /\ edit \in [Row -> {None} \cup Edit]
    /\ cursor \in [User -> Cursor]
    /\ pull \in {None} \cup Pull
    /\ count \in [writes : WriteId, rescopes : 0..MaxRescopes, restores : 0..MaxRestores,
                  stops : 0..MaxStops]

\* No change appears below one that a pull may have read: what a commit adds to
\* the feed comes after everything in it (the advisory lock of record_change).
CommitsInOrder == [][\A c \in feed' \ feed : \A b \in feed : b.seq < c.seq]_vars

\* The cursor stands on a change the server holds, and was read in the scope the
\* user has: the next pull goes on from it.
Current(u) ==
    /\ cursor[u].seq > 0 =>
          \E c \in feed : c.seq = cursor[u].seq /\ c.by = cursor[u].token
    /\ cursor[u].scope = roles[u]

\* Whatever stops, restores, role changes and rollbacks there were, a cursor a
\* pull goes on from has nothing behind it that the user may read and the device
\* has not got (pullSince, the watermark and token of pull).
NothingMissed ==
    \A u \in User : Current(u) =>
        \A c \in feed : c.seq <= cursor[u].seq /\ c.row \in roles[u] =>
            local[c.row].version >= c.version

\* After a pull that read to the end of the feed, the device shows the server's
\* rows, but for edits it has not sent (pullSince, _apply).
AgreesWithServer ==
    \A u \in User :
        pull = None /\ Current(u) /\ (\A c \in feed : c.seq <= cursor[u].seq) =>
            \A r \in roles[u] :
                store[r].version > 0 /\ edit[r] = None => local[r] = store[r]

\* An edit waiting on the device is not undone by a pull, this user's or
\* another's, unless it has lost to a newer version already (_apply).
PendingEditKept ==
    \A r \in Master : edit[r] # None =>
        local[r].by = edit[r].by \/ store[r].version > edit[r].base

\* Once the writes and the faults stop, the feed is read to its end in the scope
\* the user has, however few pages a pull reads.
FeedIsRead ==
    \A u \in User : <>[](Current(u) /\ \A c \in feed : c.seq <= cursor[u].seq)
=============================================================================
