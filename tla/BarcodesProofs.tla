----------------------------- MODULE BarcodesProofs -----------------------------
(***************************************************************************)
(* Proofs about Barcodes, for any number of tills, rows, codes and server  *)
(* threads, wherever the app may be killed but between the verdict on a    *)
(* barcode and the removal of its refused copy.                            *)
(*                                                                         *)
(* A till may agree with the server although neither has heard of the      *)
(* other's last step, so the invariant says of each op what the server     *)
(* decided and what the row is since (Recorded, Shown), of each row what   *)
(* its images say (InFeed), and of each local row which of its images the  *)
(* till has read and which of its ops are not answered (LocalKept).        *)
(***************************************************************************)
EXTENDS Barcodes, SequenceTheorems, TLAPS

AddOf(t, b) == OpOf(t, "add", b)
RemovalOf(t, b) == OpOf(t, "remove", b)
Image(b, s) == [row |-> b, state |-> s]

\* The images of a row that are in the feed, and those till t has read.
InFeed(b, s) == \E i \in 1 .. Len(feed) : feed[i] = Image(b, s)
Read(t, b, s) == \E i \in 1 .. cursor[t] : feed[i] = Image(b, s)

FeedKept ==
    /\ \A t \in Till : cursor[t] <= Len(feed)
    /\ \A b \in Barcode :
         /\ InFeed(b, "live") <=> server[b] # "none"
         /\ InFeed(b, "removed") <=> server[b] = "removed"

\* What the server has decided of an op is what became of the row.
Recorded(o) ==
    /\ recorded[o] # "none" => status[o] # "none"
    /\ o.kind = "add" => recorded[o] # "conflict"
    /\ o.kind = "add" /\ MadeBy[o.row] = o.till => (recorded[o] = "applied" <=> server[o.row] # "none")
    /\ o.kind = "remove" /\ recorded[o] # "none" => recorded[o] # "rejected" /\ server[o.row] = "removed"

\* What a till shows of an op was decided, and its row is as the op left it.
Refusal(t, b) == MadeBy[b] = t /\ recorded[AddOf(t, b)] = "rejected"
Shown(o) ==
    /\ o.kind = "add" /\ status[o] # "none" => MadeBy[o.row] = o.till
    /\ o.kind = "add" /\ MadeBy[o.row] = o.till =>
         (status[o] = "none" <=> local[o.till][o.row] = "none")
    /\ o.kind = "remove" /\ status[o] # "none" => local[o.till][o.row] = "removed"
    /\ status[o] = "acked" => recorded[o] = "applied"
    /\ status[o] = "conflict" => recorded[o] = "conflict"
    /\ status[o] = "rejected" => Refusal(o.till, o.row)

Dropping(t, b) == sync[t].step = "drop" /\ sync[t].op = AddOf(t, b)
LocalKept(t, b) ==
    /\ local[t][b] = "none" => ~Read(t, b, "live") /\ ~Read(t, b, "removed")
    /\ Read(t, b, "live") => local[t][b] \in {"live", "removed"}
    /\ Read(t, b, "removed") => local[t][b] = "removed"
    /\ local[t][b] = "live" =>
         IF MadeBy[b] = t
         THEN "drop" \notin KilledAt /\ status[AddOf(t, b)] = "rejected" => Dropping(t, b)
         ELSE server[b] # "none"
    /\ local[t][b] = "removed" => Read(t, b, "removed") \/ status[RemovalOf(t, b)] # "none"
    /\ local[t][b] = "refused" => Refusal(t, b)

\* A request over REST that has looked.
Looked(w) ==
    LET q == rest[w] IN
    /\ q.kind = "none" <=> q.row = None
    /\ q.kind = "add" => /\ MadeBy[q.row] = None /\ server[q.row] = "none"
                         /\ \A v \in Worker \ {w} : rest[v].row # q.row
    /\ q.kind = "remove" => server[q.row] # "none"

\* A sync holds ops of its till that wait, and what it was told was decided.
Fine(t, s) ==
    /\ \A o \in s.todo : o.till = t /\ status[o] = "pending" /\ o # s.op
    /\ \A b \in s.refused : Refusal(t, b) /\ status[AddOf(t, b)] = "rejected"
    /\ s.step \in {"plan", "write", "answer", "drop"} <=> s.op # None
    /\ s.step \in {"plan", "write", "answer"} => s.op.till = t /\ status[s.op] = "pending"
    /\ s.step = "write" => /\ recorded[s.op] = "none"
                           /\ s.op.kind = "remove" => server[s.op.row] # "none"
    /\ s.step = "answer" => s.got = "later" \/ (s.got = recorded[s.op] /\ s.got # "none")
    /\ s.step = "drop" => s.op = AddOf(t, s.op.row) /\ status[s.op] = "rejected"

Inv ==
    /\ TypeOK
    /\ FeedKept
    /\ \A o \in Op : Recorded(o) /\ Shown(o)
    /\ \A t \in Till, b \in Barcode : LocalKept(t, b)
    /\ \A w \in Worker : Looked(w)
    /\ \A t \in Till : Fine(t, sync[t])
    /\ CodesUnique

-----------------------------------------------------------------------------
(* What the operators say *)

LEMMA OpFacts ==
    ASSUME NEW t \in Till, NEW b \in Barcode
    PROVE  /\ AddOf(t, b) \in Op /\ RemovalOf(t, b) \in Op
           /\ AddOf(t, b).till = t /\ AddOf(t, b).row = b /\ AddOf(t, b).kind = "add"
           /\ RemovalOf(t, b).till = t /\ RemovalOf(t, b).row = b
           /\ RemovalOf(t, b).kind = "remove"
           /\ t # None /\ b # None
  BY NoneAssumption DEF AddOf, RemovalOf, OpOf, Op

LEMMA OpIs ==
    ASSUME NEW o \in Op
    PROVE  /\ o.till \in Till /\ o.row \in Barcode /\ o.kind \in {"add", "remove"}
           /\ o.kind = "add" => o = AddOf(o.till, o.row)
           /\ o.kind = "remove" => o = RemovalOf(o.till, o.row)
           /\ o # None
  BY NoneAssumption DEF AddOf, RemovalOf, OpOf, Op

LEMMA IdleFine ==
    ASSUME NEW t \in Till
    PROVE  Idle \in Sync /\ Fine(t, Idle)
  BY DEF Idle, Sync, Step, Outcome, Fine

(* What the feed says after a write of row b, and what each till has read of it. *)
LEMMA PutKeeps ==
    ASSUME TypeOK, FeedKept, NEW b \in Barcode, NEW s \in {"live", "removed"}, Put(b, s),
           server[b] = "none" <=> s = "live", UNCHANGED cursor
    PROVE  /\ server' \in [Barcode -> RowState]
           /\ feed' \in Seq([row : Barcode, state : {"live", "removed"}])
           /\ FeedKept'
           /\ \A t \in Till, c \in Barcode, r \in RowState : Read(t, c, r)' <=> Read(t, c, r)
<1> DEFINE F == [row : Barcode, state : {"live", "removed"}]
<1>1. feed \in Seq(F) /\ server \in [Barcode -> RowState] /\ cursor \in [Till -> Nat]
  BY DEF TypeOK
<1>2. Image(b, s) \in F /\ feed' = Append(feed, Image(b, s)) /\ server' = [server EXCEPT ![b] = s]
  BY DEF Image, Put
<1>3. /\ feed' \in Seq(F) /\ Len(feed) \in Nat /\ Len(feed') = Len(feed) + 1
      /\ \A i \in 1 .. Len(feed) : feed'[i] = feed[i]
      /\ feed'[Len(feed) + 1] = Image(b, s)
  BY <1>1, <1>2, AppendProperties
<1>4. server' \in [Barcode -> RowState]
  BY <1>1, <1>2 DEF RowState
<1>5. \A c \in Barcode, r \in RowState : InFeed(c, r)' <=> InFeed(c, r) \/ (c = b /\ r = s)
  <2> TAKE c \in Barcode, r \in RowState
  <2>1. Image(b, s) = Image(c, r) <=> c = b /\ r = s
    BY DEF Image
  <2> QED BY <1>3, <2>1 DEF InFeed
<1>6. FeedKept'
  <2>1. \A t \in Till : cursor'[t] <= Len(feed')
    BY <1>1, <1>3 DEF FeedKept
  <2>2. \A c \in Barcode : server'[c] = IF c = b THEN s ELSE server[c]
    BY <1>1, <1>2
  <2>3. ASSUME NEW c \in Barcode
        PROVE  /\ InFeed(c, "live")' <=> server'[c] # "none"
               /\ InFeed(c, "removed")' <=> server'[c] = "removed"
    <3>1. /\ InFeed(c, "live")' <=> InFeed(c, "live") \/ (c = b /\ s = "live")
          /\ InFeed(c, "removed")' <=> InFeed(c, "removed") \/ (c = b /\ s = "removed")
      BY <1>5 DEF RowState
    <3>2. /\ InFeed(c, "live") <=> server[c] # "none"
          /\ InFeed(c, "removed") <=> server[c] = "removed"
      BY DEF FeedKept
    <3> QED BY <2>2, <3>1, <3>2
  <2> QED BY <2>1, <2>3 DEF FeedKept
<1>7. ASSUME NEW t \in Till, NEW c \in Barcode, NEW r \in RowState
      PROVE  Read(t, c, r)' <=> Read(t, c, r)
  <2>1. \A i \in 1 .. cursor[t] : i \in 1 .. Len(feed) /\ feed'[i] = feed[i]
    BY <1>1, <1>3 DEF FeedKept
  <2>2. cursor' = cursor
    OBVIOUS
  <2> QED BY <2>1, <2>2 DEF Read
<1> QED BY <1>3, <1>4, <1>6, <1>7
-----------------------------------------------------------------------------
(* Steps that write nothing but the sync *)

LEMMA OwnStep ==
    ASSUME Inv, NEW t \in Till, NEW s \in Sync, Fine(t, s), GoOn(t, s),
           UNCHANGED <<books, recorded, rest, till, cursor>>,
           sync[t].step = "drop" => "drop" \in KilledAt
    PROVE  Inv'
<1> USE DEF Inv, books, till
<1>1. TypeOK' /\ sync' = [sync EXCEPT ![t] = s] /\ sync \in [Till -> Sync]
  BY DEF TypeOK, GoOn
<1>2. FeedKept' /\ CodesUnique'
  BY DEF FeedKept, InFeed, CodesUnique
<1>3. ASSUME NEW o \in Op PROVE Recorded(o)' /\ Shown(o)'
  BY DEF Recorded, Shown, Refusal
<1>4. ASSUME NEW u \in Till, NEW b \in Barcode PROVE LocalKept(u, b)'
  <2>1. Dropping(u, b) => Dropping(u, b)' \/ "drop" \in KilledAt
    BY <1>1 DEF Dropping
  <2>2. LocalKept(u, b)
    OBVIOUS
  <2>3. /\ \A r \in {"live", "removed"} : Read(u, b, r)' <=> Read(u, b, r)
        /\ Refusal(u, b)' <=> Refusal(u, b)
    BY DEF Read, Refusal
  <2> QED BY <2>1, <2>2, <2>3 DEF LocalKept
<1>5. \A w \in Worker : Looked(w)'
  BY DEF Looked
<1>6. ASSUME NEW u \in Till PROVE Fine(u, sync[u])'
  <2>1. Fine(u, sync'[u])
    BY <1>1
  <2> QED BY <2>1 DEF Fine, Refusal
<1> QED BY <1>1, <1>2, <1>3, <1>4, <1>5, <1>6

LEMMA SyncType ==
    ASSUME TypeOK, NEW t \in Till
    PROVE  /\ sync[t] \in Sync /\ sync[t].todo \subseteq Op /\ sync[t].refused \subseteq Barcode
           /\ sync[t].op \in Op \cup {None} /\ sync[t].step \in Step
  BY DEF TypeOK, Sync

LEMMA StartPushKeeps == ASSUME Inv, NEW t \in Till, StartPush(t) PROVE Inv'
<1> DEFINE s == [Idle EXCEPT !.step = "push", !.todo = Pending(t)]
<1>1. s \in Sync
  BY DEF Idle, Sync, Step, Outcome, Pending
<1>2. Fine(t, s)
  <2>1. \A o \in Pending(t) : o # None /\ o.till = t /\ status[o] = "pending"
    BY OpIs DEF Pending
  <2> QED BY <2>1 DEF Fine, Idle
<1>3. sync[t].step # "drop"
  BY DEF StartPush, Idle
<1> HIDE DEF s
<1> QED BY <1>1, <1>2, <1>3, OwnStep DEF StartPush, s

LEMMA StartPullKeeps == ASSUME Inv, NEW t \in Till, StartPull(t) PROVE Inv'
<1> DEFINE s == [Idle EXCEPT !.step = "pull"]
<1>1. s \in Sync /\ Fine(t, s)
  BY DEF Idle, Sync, Step, Outcome, Fine
<1>2. sync[t].step # "drop"
  BY DEF StartPull
<1> HIDE DEF s
<1> QED BY <1>1, <1>2, OwnStep DEF StartPull, s

LEMMA IdleKeeps == ASSUME Inv, NEW t \in Till, EndSync(t) \/ LoseConnection(t) \/ KillApp(t) PROVE Inv'
<1>1. CASE EndSync(t)
  BY <1>1, IdleFine, OwnStep DEF EndSync
<1>2. CASE LoseConnection(t)
  BY <1>2, IdleFine, OwnStep DEF LoseConnection
<1>3. CASE KillApp(t)
  BY <1>3, IdleFine, OwnStep DEF KillApp
<1> QED BY <1>1, <1>2, <1>3

(* An answer that decides nothing new. *)
LEMMA ReplyKeeps ==
    ASSUME Inv, NEW t \in Till, NEW answer, sync[t].step \in {"plan", "write"},
           answer = "later" \/ (answer = recorded[sync[t].op] /\ answer # "none"),
           Reply(t, answer), UNCHANGED <<books, recorded, rest, till, cursor>>
    PROVE  Inv'
<1> DEFINE s == [sync[t] EXCEPT !.step = "answer", !.got = answer]
<1>1. sync[t] \in Sync /\ Fine(t, sync[t]) /\ sync[t].op \in Op
  BY SyncType DEF Inv, Fine
<1>2. recorded[sync[t].op] \in Outcome
  BY <1>1 DEF Inv, TypeOK
<1>3. s \in Sync
  BY <1>1, <1>2 DEF Sync, Step
<1>4. Fine(t, s)
  BY <1>1 DEF Fine, Sync
<1> HIDE DEF s
<1> QED BY <1>3, <1>4, OwnStep DEF Reply, s

LEMMA RefuseForNowKeeps == ASSUME Inv, NEW t \in Till, RefuseForNow(t) PROVE Inv'
  BY ReplyKeeps DEF RefuseForNow

(* What the server records of an op that writes nothing. *)
LEMMA DecideKeeps ==
    ASSUME Inv, NEW t \in Till, NEW outcome \in Outcome \ {"none"},
           sync[t].step \in {"plan", "write"}, recorded[sync[t].op] = "none",
           sync[t].op.kind = "add" => outcome = "rejected",
           sync[t].op.kind = "remove" => /\ outcome \in {"applied", "conflict"}
                                         /\ server[sync[t].op.row] = "removed",
           Reply(t, outcome), Decide(sync[t].op, outcome), UNCHANGED <<books, rest, till, cursor>>
    PROVE  Inv'
<1> DEFINE s == [sync[t] EXCEPT !.step = "answer", !.got = outcome]
           op == sync[t].op
<1>1. sync[t] \in Sync /\ Fine(t, sync[t]) /\ op \in Op
  BY SyncType DEF Inv, Fine
<1>2. op.till = t /\ status[op] = "pending" /\ recorded[op] = "none" /\ op # None
  BY <1>1, OpIs DEF Fine
<1>3. /\ recorded' = [recorded EXCEPT ![op] = outcome] /\ recorded \in [Op -> Outcome]
      /\ sync' = [sync EXCEPT ![t] = s] /\ sync \in [Till -> Sync] /\ s \in Sync
  BY <1>1 DEF Inv, TypeOK, Decide, Reply, GoOn, Sync, Step
<1>4. TypeOK'
  BY <1>3 DEF Inv, TypeOK, books, till
<1>5. FeedKept' /\ CodesUnique'
  BY DEF Inv, FeedKept, InFeed, CodesUnique, books
<1>6. \A o \in Op : recorded'[o] = IF o = op THEN outcome ELSE recorded[o]
  BY <1>1, <1>3
<1>7. ASSUME NEW u \in Till, NEW b \in Barcode, Refusal(u, b) PROVE Refusal(u, b)'
  BY <1>2, <1>6, <1>7, OpFacts DEF Refusal
<1>8. ASSUME NEW o \in Op PROVE Recorded(o)'
  <2>1. Recorded(o) /\ Shown(o)
    BY DEF Inv
  <2>2. UNCHANGED <<server, status>>
    BY DEF books, till
  <2>3. CASE o = op
    BY <1>2, <1>6, <2>1, <2>2, <2>3, OpIs DEF Recorded, Shown
  <2>4. CASE o # op
    BY <1>6, <2>1, <2>2, <2>4 DEF Recorded
  <2> QED BY <2>3, <2>4
<1>9. ASSUME NEW o \in Op PROVE Shown(o)'
  <2>1. Shown(o) /\ o.till \in Till /\ o.row \in Barcode
    BY OpIs DEF Inv
  <2>2. Refusal(o.till, o.row) => Refusal(o.till, o.row)'
    BY <1>7, <2>1
  <2>3. UNCHANGED <<local, status>>
    BY DEF till
  <2> QED BY <1>2, <1>6, <2>1, <2>2, <2>3 DEF Shown
<1>10. ASSUME NEW u \in Till, NEW b \in Barcode PROVE LocalKept(u, b)'
  <2>1. Dropping(u, b) => Dropping(u, b)'
    BY <1>3 DEF Dropping
  <2>2. LocalKept(u, b)
    BY DEF Inv
  <2>3. \A r \in {"live", "removed"} : Read(u, b, r)' <=> Read(u, b, r)
    BY DEF Read, books
  <2>4. UNCHANGED <<local, status, server>>
    BY DEF till, books
  <2> QED BY <1>7, <2>1, <2>2, <2>3, <2>4 DEF LocalKept
<1>11. \A w \in Worker : Looked(w)'
  BY DEF Inv, Looked, books
<1>12. ASSUME NEW u \in Till PROVE Fine(u, sync[u])'
  <2>1. /\ UNCHANGED <<server, status>>
        /\ Fine(u, sync[u]) /\ sync[u] \in Sync
    BY SyncType DEF Inv, books, till
  <2>2. CASE u = t
    <3>1. sync'[u] = s
      BY <1>3, <2>2
    <3>2. s.todo = sync[t].todo /\ s.refused = sync[t].refused /\ s.step = "answer" /\ s.op = op /\ s.got = outcome
      BY <1>1 DEF Sync
    <3>3. \A b \in s.refused : b \in Barcode
      BY <3>2, SyncType DEF Inv
    <3> QED BY <1>1, <1>2, <1>6, <1>7, <2>1, <2>2, <3>1, <3>2, <3>3 DEF Fine
  <2>3. CASE u # t
    <3>1. sync'[u] = sync[u] /\ \A b \in sync[u].refused : b \in Barcode
      BY <1>3, <2>3, SyncType DEF Inv
    <3>2. sync[u].step \in {"plan", "write", "answer"} => sync[u].op \in Op /\ sync[u].op # op
      BY <1>2, <2>1, <2>3, SyncType DEF Inv, Fine
    <3> QED BY <1>6, <1>7, <2>1, <3>1, <3>2 DEF Fine
  <2> QED BY <2>2, <2>3
<1> QED BY <1>4, <1>5, <1>8, <1>9, <1>10, <1>11, <1>12 DEF Inv
(* What the server does with an op a till sends. *)
LEMMA InFlight ==
    ASSUME Inv, NEW t \in Till, sync[t].step \in {"plan", "write", "answer"}
    PROVE  LET o == sync[t].op IN
           /\ o \in Op /\ o # None /\ o.till = t /\ o.row \in Barcode /\ o.kind \in {"add", "remove"}
           /\ status[o] = "pending" /\ Recorded(o) /\ Shown(o)
           /\ o.kind = "add" => MadeBy[o.row] = t
           /\ o.kind = "add" /\ recorded[o] = "none" => server[o.row] = "none"
           /\ recorded[o] \in Outcome /\ server[o.row] \in RowState
<1> DEFINE o == sync[t].op
<1>1. o \in Op /\ o # None /\ o.till = t /\ status[o] = "pending"
  BY SyncType DEF Inv, Fine
<1>2. o.row \in Barcode /\ o.kind \in {"add", "remove"} /\ Recorded(o) /\ Shown(o)
  BY <1>1, OpIs DEF Inv
<1>3. o.kind = "add" => MadeBy[o.row] = t
  BY <1>1, <1>2 DEF Shown
<1>4. o.kind = "add" /\ recorded[o] = "none" => server[o.row] = "none"
  BY <1>1, <1>2, <1>3 DEF Recorded
<1>5. recorded[o] \in Outcome /\ server[o.row] \in RowState
  BY <1>1, <1>2 DEF Inv, TypeOK
<1> QED BY <1>1, <1>2, <1>3, <1>4, <1>5

LEMMA PlanOpKeeps == ASSUME Inv, NEW t \in Till, PlanOp(t) PROVE Inv'
<1> DEFINE o == sync[t].op
<1>1. sync[t].step = "plan" /\ UNCHANGED <<books, rest, till, cursor>>
  BY DEF PlanOp
<1>2. /\ o \in Op /\ o.till = t /\ o.kind \in {"add", "remove"} /\ server[o.row] \in RowState
      /\ recorded[o] \in Outcome
  BY <1>1, InFlight
<1>3. CASE recorded[o] # "none"
  BY <1>1, <1>3, ReplyKeeps DEF PlanOp
<1>4. CASE recorded[o] = "none" /\ Plan(o) = "write"
  <2> DEFINE s == [sync[t] EXCEPT !.step = "write"]
  <2>1. sync[t] \in Sync /\ Fine(t, sync[t])
    BY SyncType DEF Inv
  <2>2. s \in Sync
    BY <2>1 DEF Sync, Step
  <2>3. o.kind = "remove" => server[o.row] # "none"
    BY <1>2, <1>4 DEF Plan, RowState
  <2>4. Fine(t, s)
    BY <1>1, <1>4, <2>1, <2>3 DEF Fine, Sync
  <2>5. GoOn(t, s) /\ UNCHANGED recorded
    BY <1>4 DEF PlanOp
  <2> HIDE DEF s
  <2> QED BY <1>1, <2>2, <2>4, <2>5, OwnStep
<1>5. CASE recorded[o] = "none" /\ Plan(o) = "later"
  <2>1. Reply(t, "later") /\ UNCHANGED recorded
    BY <1>5 DEF PlanOp
  <2> QED BY <1>1, <2>1, ReplyKeeps
<1>6. CASE recorded[o] = "none" /\ Plan(o) \in {"applied", "rejected"}
  <2>1. Reply(t, Plan(o)) /\ Decide(o, Plan(o))
    BY <1>6 DEF PlanOp
  <2>2. /\ o.kind = "add" => Plan(o) = "rejected"
        /\ o.kind = "remove" => Plan(o) = "applied" /\ server[o.row] = "removed"
    BY <1>2, <1>6 DEF Plan, RowState
  <2>3. Plan(o) \in Outcome \ {"none"}
    BY <1>6 DEF Outcome
  <2> QED BY <1>1, <1>6, <2>1, <2>2, <2>3, DecideKeeps
<1>7. Plan(o) \in {"write", "later", "applied", "rejected"}
  BY <1>2 DEF Plan, RowState
<1> QED BY <1>3, <1>4, <1>5, <1>6, <1>7

LEMMA AppliedKeeps ==
    ASSUME Inv, NEW t \in Till, sync[t].step = "write",
           sync[t].op.kind = "add" => Fits(sync[t].op.row),
           sync[t].op.kind = "remove" => server[sync[t].op.row] = "live",
           Put(sync[t].op.row, IF sync[t].op.kind = "add" THEN "live" ELSE "removed"),
           Reply(t, "applied"), Decide(sync[t].op, "applied"), UNCHANGED <<rest, till, cursor>>
    PROVE  Inv'
<1> DEFINE op == sync[t].op
           b == op.row
           r == IF op.kind = "add" THEN "live" ELSE "removed"
           s == [sync[t] EXCEPT !.step = "answer", !.got = "applied"]
<1>1. sync[t] \in Sync /\ Fine(t, sync[t]) /\ recorded[op] = "none"
  BY SyncType DEF Inv, Fine
<1>2. /\ op \in Op /\ op # None /\ op.till = t /\ b \in Barcode /\ op.kind \in {"add", "remove"}
      /\ status[op] = "pending" /\ (op.kind = "add" => MadeBy[b] = t /\ server[b] = "none")
  BY <1>1, InFlight
<1>3. r \in {"live", "removed"} /\ (server[b] = "none" <=> r = "live") /\ Put(b, r)
  BY <1>2
<1>4. /\ server' \in [Barcode -> RowState]
      /\ feed' \in Seq([row : Barcode, state : {"live", "removed"}])
      /\ FeedKept'
      /\ \A u \in Till, c \in Barcode, q \in RowState : Read(u, c, q)' <=> Read(u, c, q)
  BY <1>2, <1>3, PutKeeps DEF Inv
<1>5. /\ recorded' = [recorded EXCEPT ![op] = "applied"] /\ recorded \in [Op -> Outcome]
      /\ sync' = [sync EXCEPT ![t] = s] /\ sync \in [Till -> Sync] /\ s \in Sync
      /\ server' = [server EXCEPT ![b] = r] /\ server \in [Barcode -> RowState]
  BY <1>1, <1>3 DEF Inv, TypeOK, Decide, Reply, GoOn, Sync, Step, Put, Outcome
<1>6. TypeOK'
  BY <1>4, <1>5 DEF Inv, TypeOK, till, Outcome
<1>7. /\ \A o \in Op : recorded'[o] = IF o = op THEN "applied" ELSE recorded[o]
      /\ \A c \in Barcode : server'[c] = IF c = b THEN r ELSE server[c]
      /\ UNCHANGED <<local, status>>
  BY <1>2, <1>5 DEF till
<1>8. CodesUnique'
  <2>1. op.kind = "add" => \A c \in Barcode : server[c] = "live" => CodeOf[c] # CodeOf[b]
    BY DEF Fits, Taken
  <2> QED BY <1>2, <1>7, <2>1 DEF Inv, CodesUnique
<1>9. ASSUME NEW u \in Till, NEW c \in Barcode, Refusal(u, c) PROVE Refusal(u, c)'
  BY <1>1, <1>7, <1>9, OpFacts DEF Refusal
<1>10. ASSUME NEW o \in Op PROVE Recorded(o)'
  <2>1. Recorded(o) /\ o.row \in Barcode /\ o.till \in Till
    BY OpIs DEF Inv
  <2>2. CASE o = op
    BY <1>2, <1>7, <2>2 DEF Recorded
  <2>3. CASE o # op
    <3>1. o.kind = "add" /\ MadeBy[o.row] = o.till /\ o.row = b => op.kind = "remove"
      BY <1>2, <2>3, OpIs
    <3> QED BY <1>2, <1>3, <1>7, <2>1, <2>3, <3>1 DEF Recorded
  <2> QED BY <2>2, <2>3
<1>11. ASSUME NEW o \in Op PROVE Shown(o)'
  <2>1. Shown(o) /\ o.till \in Till /\ o.row \in Barcode
    BY OpIs DEF Inv
  <2>2. Refusal(o.till, o.row) => Refusal(o.till, o.row)'
    BY <1>9, <2>1
  <2> QED BY <1>2, <1>7, <2>1, <2>2 DEF Shown
<1>12. ASSUME NEW u \in Till, NEW c \in Barcode PROVE LocalKept(u, c)'
  <2>1. Dropping(u, c) => Dropping(u, c)'
    BY <1>5 DEF Dropping
  <2>2. LocalKept(u, c)
    BY DEF Inv
  <2>3. \A q \in {"live", "removed"} : Read(u, c, q)' <=> Read(u, c, q)
    BY <1>4 DEF RowState
  <2>4. server[c] # "none" => server'[c] # "none"
    BY <1>7
  <2> QED BY <1>7, <1>9, <2>1, <2>2, <2>3, <2>4 DEF LocalKept
<1>13. ASSUME NEW w \in Worker PROVE Looked(w)'
  <2>1. Looked(w) /\ rest[w] \in Request /\ UNCHANGED rest
    BY DEF Inv, TypeOK
  <2>2. rest[w].kind # "none" => rest[w].row \in Barcode
    BY <2>1 DEF Looked, Request
  <2>3. rest[w].kind = "add" => rest[w].row # b
    BY <1>2, <2>1, NoneAssumption DEF Looked
  <2> QED BY <1>7, <2>1, <2>2, <2>3 DEF Looked
<1>14. ASSUME NEW u \in Till PROVE Fine(u, sync[u])'
  <2>1. Fine(u, sync[u]) /\ sync[u] \in Sync /\ \A c \in sync[u].refused : c \in Barcode
    BY SyncType DEF Inv
  <2>2. CASE u = t
    <3>1. sync'[u] = s
      BY <1>5, <2>2
    <3>2. s.todo = sync[t].todo /\ s.refused = sync[t].refused /\ s.step = "answer" /\ s.op = op /\ s.got = "applied"
      BY <1>1 DEF Sync
    <3> QED BY <1>1, <1>2, <1>7, <1>9, <2>1, <2>2, <3>1, <3>2 DEF Fine
  <2>3. CASE u # t
    <3>1. sync'[u] = sync[u]
      BY <1>5, <2>3
    <3>2. sync[u].step \in {"plan", "write", "answer"} =>
            sync[u].op \in Op /\ sync[u].op # op /\ sync[u].op.row \in Barcode
      BY <1>2, <2>1, <2>3, InFlight
    <3> QED BY <1>7, <1>9, <2>1, <3>1, <3>2 DEF Fine
  <2> QED BY <2>2, <2>3
<1> QED BY <1>4, <1>6, <1>8, <1>10, <1>11, <1>12, <1>13, <1>14 DEF Inv

LEMMA WriteOpKeeps == ASSUME Inv, NEW t \in Till, WriteOp(t) PROVE Inv'
<1> DEFINE o == sync[t].op
           ok == IF o.kind = "add" THEN Fits(o.row) ELSE server[o.row] = "live"
<1>1. sync[t].step = "write" /\ UNCHANGED <<rest, till, cursor>>
  BY DEF WriteOp
<1>2. sync[t] \in Sync /\ Fine(t, sync[t]) /\ recorded[o] = "none"
  BY <1>1, SyncType DEF Inv, Fine
<1>3. o.kind \in {"add", "remove"} /\ server[o.row] \in RowState
  BY <1>1, InFlight
<1>4. CASE ok
  BY <1>1, <1>3, <1>4, AppliedKeeps DEF WriteOp
<1>5. CASE ~ok /\ o.kind = "remove"
  <2>1. server[o.row] = "removed"
    BY <1>1, <1>2, <1>3, <1>5 DEF Fine, RowState
  <2>2. Reply(t, "conflict") /\ Decide(o, "conflict") /\ UNCHANGED books
    BY <1>5 DEF WriteOp
  <2> QED BY <1>1, <1>2, <1>5, <2>1, <2>2, DecideKeeps DEF Outcome
<1>6. CASE ~ok /\ o.kind = "add" /\ sync[t].second
  BY <1>1, <1>6, ReplyKeeps DEF WriteOp
<1>7. CASE ~ok /\ o.kind = "add" /\ ~sync[t].second
  <2> DEFINE s == [sync[t] EXCEPT !.step = "plan", !.second = TRUE]
  <2>1. s \in Sync
    BY <1>2 DEF Sync, Step
  <2>2. Fine(t, s)
    BY <1>1, <1>2 DEF Fine, Sync
  <2>3. GoOn(t, s) /\ UNCHANGED <<books, recorded>>
    BY <1>7 DEF WriteOp
  <2> HIDE DEF s
  <2> QED BY <1>1, <2>1, <2>2, <2>3, OwnStep
<1> QED BY <1>3, <1>4, <1>5, <1>6, <1>7

-----------------------------------------------------------------------------
(* Steps that settle or record an op, and the local rows *)

(* The outbox row of an op takes a verdict the server gave. *)
LEMMA SettleKeeps ==
    ASSUME Inv, NEW t \in Till, NEW op \in Op, NEW verdict \in {"pending", "acked", "rejected", "conflict"},
           op.till = t, status[op] = "pending", status' = [status EXCEPT ![op] = verdict],
           verdict = "acked" => recorded[op] = "applied",
           verdict = "conflict" => recorded[op] = "conflict",
           verdict = "rejected" => Refusal(t, op.row),
           sync[t].step # "drop", NEW s \in Sync, GoOn(t, s), Fine(t, s)',
           verdict = "rejected" /\ op.kind = "add" => s.step = "drop" /\ s.op = op,
           UNCHANGED <<books, recorded, rest, local, outbox, cursor>>
    PROVE  Inv'
<1>1. /\ status \in [Op -> Status] /\ sync \in [Till -> Sync]
      /\ sync' = [sync EXCEPT ![t] = s] /\ UNCHANGED <<server, feed>>
  BY DEF Inv, TypeOK, GoOn, books
<1>2. \A o \in Op : status'[o] = IF o = op THEN verdict ELSE status[o]
  BY <1>1
<1>3. TypeOK'
  BY <1>1 DEF Inv, TypeOK, Status
<1>4. FeedKept' /\ CodesUnique'
  BY <1>1 DEF Inv, FeedKept, InFeed, CodesUnique
<1>5. ASSUME NEW o \in Op PROVE Recorded(o)' /\ Shown(o)'
  <2>1. Recorded(o) /\ Shown(o) /\ o.till \in Till /\ o.row \in Barcode
    BY OpIs DEF Inv
  <2>2. Refusal(o.till, o.row)' <=> Refusal(o.till, o.row)
    BY DEF Refusal
  <2> QED BY <1>1, <1>2, <2>1, <2>2 DEF Recorded, Shown
<1>6. ASSUME NEW u \in Till, NEW b \in Barcode PROVE LocalKept(u, b)'
  <2>1. LocalKept(u, b) /\ AddOf(u, b) \in Op /\ RemovalOf(u, b) \in Op
    BY OpFacts DEF Inv
  <2>2. /\ \A r \in {"live", "removed"} : Read(u, b, r)' <=> Read(u, b, r)
        /\ Refusal(u, b)' <=> Refusal(u, b)
    BY <1>1 DEF Read, Refusal
  <2>3. Dropping(u, b) => Dropping(u, b)'
    BY <1>1 DEF Dropping
  <2>4. status'[AddOf(u, b)] = "rejected" => status[AddOf(u, b)] = "rejected" \/ Dropping(u, b)'
    <3>1. CASE AddOf(u, b) = op
      <4>1. u = t /\ op.kind = "add"
        BY <3>1, OpFacts
      <4> QED BY <1>1, <1>2, <3>1, <4>1 DEF Dropping
    <3>2. CASE AddOf(u, b) # op
      BY <1>2, <2>1, <3>2
    <3> QED BY <3>1, <3>2
  <2>5. status[RemovalOf(u, b)] # "none" => status'[RemovalOf(u, b)] # "none"
    BY <1>2, <2>1
  <2> QED BY <1>1, <2>1, <2>2, <2>3, <2>4, <2>5 DEF LocalKept
<1>7. \A w \in Worker : Looked(w)'
  BY <1>1 DEF Inv, Looked
<1>8. ASSUME NEW u \in Till PROVE Fine(u, sync[u])'
  <2>1. CASE u = t
    <3>1. sync'[u] = s
      BY <1>1, <2>1
    <3> QED BY <2>1, <3>1 DEF Fine, Refusal
  <2>2. CASE u # t
    <3>1. sync'[u] = sync[u] /\ Fine(u, sync[u]) /\ sync[u].todo \subseteq Op /\ sync[u].refused \subseteq Barcode
      BY <1>1, <2>2, SyncType DEF Inv
    <3>2. \A o \in Op : o.till = u => status'[o] = status[o]
      BY <1>2, <2>2
    <3>3. \A b \in Barcode : Refusal(u, b)' <=> Refusal(u, b)
      BY DEF Refusal
    <3>4. \A b \in Barcode : status'[AddOf(u, b)] = status[AddOf(u, b)]
      BY <3>2, OpFacts
    <3>5. \A o \in sync[u].todo : o.till = u /\ status'[o] = "pending" /\ o # sync[u].op
      BY <3>1, <3>2 DEF Fine
    <3>6. sync[u].op # None => sync[u].op \in Op /\ sync[u].op.till = u
      BY <3>1, SyncType, OpFacts, OpIs DEF Inv, Fine
    <3>7. sync[u].op # None => status'[sync[u].op] = status[sync[u].op]
      BY <3>2, <3>6
    <3> QED BY <1>1, <3>1, <3>3, <3>4, <3>5, <3>6, <3>7 DEF Fine
  <2> QED BY <2>1, <2>2
<1> QED BY <1>3, <1>4, <1>5, <1>6, <1>7, <1>8 DEF Inv

LEMMA NextOpKeeps == ASSUME Inv, NEW t \in Till, NEW o \in Op, NextOp(t, o) PROVE Inv'
<1>1. /\ sync[t] \in Sync /\ Fine(t, sync[t]) /\ sync[t].todo \subseteq Op
      /\ sync[t].refused \subseteq Barcode
      /\ sync[t].step = "push" /\ o \in sync[t].todo /\ sync[t].op = None
  BY SyncType DEF Inv, Fine, NextOp
<1>2. o.till = t /\ status[o] = "pending" /\ o # None
  BY <1>1, OpIs DEF Fine
<1>3. CASE o.row \in sync[t].refused
  <2>1. PICK s : s = [sync[t] EXCEPT !.todo = @ \ {o}]
    OBVIOUS
  <2>2. /\ GoOn(t, s) /\ status' = [status EXCEPT ![o] = "rejected"]
        /\ UNCHANGED <<books, recorded, rest, local, outbox, cursor>>
    BY <1>3, <2>1 DEF NextOp
  <2>3. /\ s \in Sync /\ s.todo = sync[t].todo \ {o} /\ s.refused = sync[t].refused
        /\ s.step = "push" /\ s.op = None
    BY <1>1, <2>1 DEF Sync
  <2>4. Refusal(t, o.row) /\ status[AddOf(t, o.row)] = "rejected"
    BY <1>1, <1>3 DEF Fine
  <2>5. o.kind # "add"
    BY <1>2, <2>4, OpIs
  <2>6. status \in [Op -> Status]
    BY DEF Inv, TypeOK
  <2>7. Fine(t, s)'
    <3>1. \A p \in s.todo : p.till = t /\ status'[p] = "pending" /\ p # s.op
      BY <1>1, <2>2, <2>3, <2>6 DEF Fine
    <3>2. \A b \in s.refused : Refusal(t, b)' /\ status'[AddOf(t, b)] = "rejected"
      <4> TAKE b \in s.refused
      <4>1. Refusal(t, b) /\ status[AddOf(t, b)] = "rejected" /\ AddOf(t, b) \in Op
        BY <1>1, <2>3, OpFacts DEF Fine
      <4> QED BY <1>2, <2>2, <2>6, <4>1 DEF Refusal
    <3> QED BY <2>3, <3>1, <3>2 DEF Fine
  <2> QED BY <1>1, <1>2, <2>2, <2>3, <2>4, <2>5, <2>7, SettleKeeps
<1>4. CASE o.row \notin sync[t].refused
  <2> DEFINE s == [sync[t] EXCEPT !.todo = @ \ {o}, !.op = o, !.step = "plan", !.second = FALSE]
  <2>1. /\ s \in Sync /\ s.todo = sync[t].todo \ {o} /\ s.refused = sync[t].refused
        /\ s.step = "plan" /\ s.op = o
    BY <1>1 DEF Sync, Step
  <2>2. GoOn(t, s) /\ UNCHANGED <<books, recorded, rest, till, cursor>>
    BY <1>4 DEF NextOp, till
  <2> HIDE DEF s
  <2>3. Fine(t, s)
    BY <1>1, <1>2, <2>1 DEF Fine
  <2> QED BY <1>1, <2>1, <2>2, <2>3, OwnStep
<1> QED BY <1>3, <1>4

LEMMA ReadAnswerKeeps == ASSUME Inv, NEW t \in Till, ReadAnswer(t) PROVE Inv'
<1> DEFINE op == sync[t].op
           got == sync[t].got
           dropped == got = "rejected" /\ op.kind = "add"
           verdict == CASE got = "applied" -> "acked" [] got = "later" -> status[op] [] OTHER -> got
<1>1. /\ sync[t] \in Sync /\ Fine(t, sync[t]) /\ sync[t].todo \subseteq Op
      /\ sync[t].refused \subseteq Barcode /\ sync[t].step = "answer"
  BY SyncType DEF Inv, ReadAnswer
<1>2. /\ op \in Op /\ op # None /\ op.till = t /\ op.row \in Barcode /\ op.kind \in {"add", "remove"}
      /\ status[op] = "pending" /\ Recorded(op) /\ Shown(op) /\ recorded[op] \in Outcome
  BY <1>1, InFlight
<1>3. got = "later" \/ (got = recorded[op] /\ got \in {"applied", "rejected", "conflict"})
  BY <1>1, <1>2 DEF Fine, Outcome
<1>4. PICK s : s = [sync[t] EXCEPT !.step = IF dropped THEN "drop" ELSE "push",
                                   !.refused = IF dropped THEN @ \cup {op.row} ELSE @,
                                   !.op = IF dropped THEN @ ELSE None, !.got = "none"]
  OBVIOUS
<1>5. PICK v : v = verdict
  OBVIOUS
<1>6. /\ GoOn(t, s) /\ status' = [status EXCEPT ![op] = v]
      /\ UNCHANGED <<books, recorded, rest, local, outbox, cursor>>
  BY <1>4, <1>5 DEF ReadAnswer
<1>7. /\ v \in {"pending", "acked", "rejected", "conflict"}
      /\ v = "acked" => recorded[op] = "applied"
      /\ v = "conflict" => recorded[op] = "conflict"
      /\ v = "rejected" => recorded[op] = "rejected"
      /\ v = "rejected" <=> got = "rejected"
  BY <1>2, <1>3, <1>5
<1>8. v = "rejected" => op.kind = "add" /\ Refusal(t, op.row)
  BY <1>2, <1>7, OpIs DEF Recorded, Shown, Refusal
<1>9. /\ s \in Sync /\ s.todo = sync[t].todo
      /\ s.refused = (IF dropped THEN sync[t].refused \cup {op.row} ELSE sync[t].refused)
      /\ s.step = (IF dropped THEN "drop" ELSE "push")
      /\ s.op = (IF dropped THEN op ELSE None)
  BY <1>1, <1>2, <1>4 DEF Sync, Step, Outcome
<1>10. status \in [Op -> Status] /\ \A o \in Op : status'[o] = IF o = op THEN v ELSE status[o]
  BY <1>6 DEF Inv, TypeOK
<1>11. Fine(t, s)'
  <2>1. \A p \in s.todo : p.till = t /\ status'[p] = "pending" /\ p # s.op
    BY <1>1, <1>9, <1>10, OpIs DEF Fine
  <2>2. \A b \in s.refused : Refusal(t, b)' /\ status'[AddOf(t, b)] = "rejected"
    <3> TAKE b \in s.refused
    <3>1. CASE b \in sync[t].refused
      <4>1. Refusal(t, b) /\ status[AddOf(t, b)] = "rejected" /\ AddOf(t, b) \in Op
        BY <1>1, <3>1, OpFacts DEF Fine
      <4> QED BY <1>2, <1>6, <1>10, <4>1 DEF Refusal
    <3>2. CASE b \notin sync[t].refused
      <4>1. dropped /\ b = op.row
        BY <1>9, <3>2
      <4>2. op = AddOf(t, b)
        BY <1>2, <4>1, OpIs
      <4>3. v = "rejected" /\ Refusal(t, b)
        BY <1>7, <1>8, <4>1
      <4> QED BY <1>2, <1>6, <1>10, <4>2, <4>3 DEF Refusal
    <3> QED BY <3>1, <3>2
  <2>3. s.step = "drop" => s.op = AddOf(t, s.op.row) /\ status'[s.op] = "rejected"
    BY <1>2, <1>7, <1>9, <1>10, OpIs
  <2>4. s.step \in {"plan", "write", "answer", "drop"} <=> s.op # None
    BY <1>2, <1>9
  <2>5. s.step \notin {"plan", "write", "answer"}
    BY <1>9
  <2> QED BY <2>1, <2>2, <2>3, <2>4, <2>5 DEF Fine
<1>12. v = "rejected" /\ op.kind = "add" => s.step = "drop" /\ s.op = op
  BY <1>7, <1>9
<1> HIDE DEF dropped, verdict
<1> QED BY <1>1, <1>2, <1>6, <1>7, <1>8, <1>9, <1>11, <1>12, SettleKeeps

(* A row the server refused is in no feed. *)
LEMMA RefusedIsNowhere ==
    ASSUME Inv, NEW t \in Till, NEW b \in Barcode, Refusal(t, b)
    PROVE  /\ server[b] = "none" /\ \A u \in Till : ~Read(u, b, "live") /\ ~Read(u, b, "removed")
           /\ status[AddOf(t, b)] # "none"
<1>1. /\ MadeBy[b] = t /\ recorded[AddOf(t, b)] = "rejected" /\ Recorded(AddOf(t, b))
      /\ AddOf(t, b).kind = "add" /\ AddOf(t, b).row = b /\ AddOf(t, b).till = t
  BY OpFacts DEF Inv, Refusal
<1>2. server[b] = "none" /\ status[AddOf(t, b)] # "none"
  BY <1>1 DEF Recorded
<1>3. ~InFeed(b, "live") /\ ~InFeed(b, "removed") /\ \A u \in Till : cursor[u] <= Len(feed)
  BY <1>2 DEF Inv, FeedKept
<1>4. \A u \in Till : cursor[u] \in Nat /\ Len(feed) \in Nat
  BY DEF Inv, TypeOK
<1> QED BY <1>2, <1>3, <1>4 DEF Read, InFeed

LEMMA ReadIsInFeed ==
    ASSUME TypeOK, FeedKept, NEW t \in Till, NEW b \in Barcode
    PROVE  /\ Read(t, b, "live") => server[b] # "none"
           /\ Read(t, b, "removed") => server[b] = "removed"
<1>1. cursor[t] <= Len(feed) /\ cursor[t] \in Nat /\ Len(feed) \in Nat
  BY DEF TypeOK, FeedKept
<1>2. /\ Read(t, b, "live") => InFeed(b, "live")
      /\ Read(t, b, "removed") => InFeed(b, "removed")
  BY <1>1 DEF Read, InFeed
<1> QED BY <1>2 DEF FeedKept

(* A till's own row is on the server only after the till has made it. *)
LEMMA OwnRow ==
    ASSUME Inv, NEW t \in Till, NEW b \in Barcode, local[t][b] = "none", MadeBy[b] = t
    PROVE  status[AddOf(t, b)] = "none" /\ recorded[AddOf(t, b)] = "none" /\ server[b] = "none"
<1>1. /\ AddOf(t, b).kind = "add" /\ AddOf(t, b).row = b /\ AddOf(t, b).till = t
      /\ Recorded(AddOf(t, b)) /\ Shown(AddOf(t, b))
  BY OpFacts DEF Inv
<1> QED BY <1>1 DEF Recorded, Shown

LEMMA DropRefusedKeeps == ASSUME Inv, NEW t \in Till, DropRefused(t) PROVE Inv'
<1> DEFINE b == sync[t].op.row
           op == AddOf(t, b)
           s == [sync[t] EXCEPT !.step = "push", !.op = None]
<1>1. /\ sync[t] \in Sync /\ Fine(t, sync[t]) /\ sync[t].todo \subseteq Op
      /\ sync[t].refused \subseteq Barcode /\ sync[t].step = "drop"
      /\ sync[t].op = op /\ status[op] = "rejected" /\ sync[t].op \in Op
  BY SyncType, OpIs DEF Inv, DropRefused, Fine
<1>2. b \in Barcode /\ op \in Op /\ op.till = t /\ op.row = b /\ op.kind = "add" /\ op # None
  BY <1>1, OpIs, OpFacts
<1>3. Refusal(t, b)
  BY <1>1, <1>2 DEF Inv, Shown
<1>4. /\ server[b] = "none" /\ MadeBy[b] = t
      /\ \A u \in Till : ~Read(u, b, "live") /\ ~Read(u, b, "removed")
  BY <1>2, <1>3, RefusedIsNowhere DEF Refusal
<1>5. /\ local' = [local EXCEPT ![t][b] = IF @ = "removed" THEN @ ELSE "refused"]
      /\ sync' = [sync EXCEPT ![t] = s] /\ UNCHANGED <<server, feed, recorded, rest, status, outbox, cursor>>
  BY DEF DropRefused, GoOn, books
<1>6. /\ s \in Sync /\ s.todo = sync[t].todo /\ s.refused = sync[t].refused
      /\ s.step = "push" /\ s.op = None
  BY <1>1 DEF Sync, Step
<1>7. local \in [Till -> [Barcode -> Local]] /\ sync \in [Till -> Sync]
  BY DEF Inv, TypeOK
<1>8. \A u \in Till, c \in Barcode :
        local'[u][c] = IF u = t /\ c = b
                       THEN IF local[t][b] = "removed" THEN "removed" ELSE "refused"
                       ELSE local[u][c]
  BY <1>2, <1>5, <1>7
<1>9. TypeOK'
  <2>1. local' \in [Till -> [Barcode -> Local]]
    BY <1>2, <1>5, <1>7 DEF Local
  <2>2. sync' \in [Till -> Sync]
    BY <1>5, <1>6, <1>7
  <2> QED BY <1>5, <2>1, <2>2 DEF Inv, TypeOK
<1>10. FeedKept' /\ CodesUnique'
  BY <1>5 DEF Inv, FeedKept, InFeed, CodesUnique
<1>11. \A u \in Till, c \in Barcode :
         /\ Refusal(u, c)' <=> Refusal(u, c)
         /\ \A r \in {"live", "removed"} : Read(u, c, r)' <=> Read(u, c, r)
  BY <1>5 DEF Refusal, Read
<1>12. ASSUME NEW o \in Op PROVE Recorded(o)' /\ Shown(o)'
  <2>1. Recorded(o) /\ Shown(o) /\ o.till \in Till /\ o.row \in Barcode
    BY OpIs DEF Inv
  <2>2. /\ local[o.till][o.row] = "removed" => local'[o.till][o.row] = "removed"
        /\ ~(o.till = t /\ o.row = b) => local'[o.till][o.row] = local[o.till][o.row]
        /\ o.till = t /\ o.row = b => local'[o.till][o.row] # "none"
    BY <1>8, <2>1
  <2>3. o.kind = "add" /\ o.till = t /\ o.row = b => status[o] # "none"
    BY <1>1, OpIs
  <2> QED BY <1>5, <1>11, <2>1, <2>2, <2>3 DEF Recorded, Shown
<1>13. ASSUME NEW u \in Till, NEW c \in Barcode PROVE LocalKept(u, c)'
  <2>1. LocalKept(u, c)
    BY DEF Inv
  <2>2. CASE u = t /\ c = b
    BY <1>3, <1>4, <1>5, <1>8, <1>11, <2>1, <2>2 DEF LocalKept
  <2>3. CASE ~(u = t /\ c = b)
    <3>1. Dropping(u, c) => Dropping(u, c)'
      <4>1. u = t => AddOf(u, c) # op
        BY <1>2, <2>3, OpFacts
      <4> QED BY <1>1, <1>5, <4>1 DEF Dropping
    <3> QED BY <1>5, <1>8, <1>11, <2>1, <2>3, <3>1 DEF LocalKept
  <2> QED BY <2>2, <2>3
<1>14. \A w \in Worker : Looked(w)'
  BY <1>5 DEF Inv, Looked
<1>15. ASSUME NEW u \in Till PROVE Fine(u, sync[u])'
  <2>1. Fine(u, sync[u]) /\ sync[u].refused \subseteq Barcode
    BY SyncType DEF Inv
  <2>2. CASE u = t
    <3>1. sync'[u] = s /\ \A o \in Op : o # None
      BY <1>5, <1>7, <2>2, OpIs
    <3> HIDE DEF s
    <3> QED BY <1>1, <1>5, <1>6, <1>11, <2>2, <3>1 DEF Fine
  <2>3. CASE u # t
    <3>1. sync'[u] = sync[u]
      BY <1>5, <1>7, <2>3
    <3> QED BY <1>5, <1>11, <2>1, <3>1 DEF Fine
  <2> QED BY <2>2, <2>3
<1> QED BY <1>9, <1>10, <1>12, <1>13, <1>14, <1>15 DEF Inv

(* A change on a till: its row and its op in one transaction. *)
LEMMA RecordKeeps ==
    ASSUME Inv, NEW t \in Till, NEW b \in Barcode, NEW op \in {AddOf(t, b), RemovalOf(t, b)},
           op.kind = "add" => MadeBy[b] = t /\ local[t][b] = "none",
           op.kind = "remove" => local[t][b] = "live",
           local' = [local EXCEPT ![t][b] = IF op.kind = "add" THEN "live" ELSE "removed"],
           Record(op), UNCHANGED <<books, recorded, rest, sync, cursor>>
    PROVE  Inv'
<1>1. op \in Op /\ op.till = t /\ op.row = b /\ op.kind \in {"add", "remove"}
  BY OpFacts
<1>2. Recorded(op) /\ Shown(op) /\ status[op] = "none" /\ recorded[op] = "none"
  BY <1>1 DEF Inv, Shown, Recorded
<1>3. op.kind = "add" => server[b] = "none"
  BY <1>1, <1>2 DEF Recorded
<1>4. /\ status' = [status EXCEPT ![op] = "pending"] /\ outbox' = [outbox EXCEPT ![t] = Append(@, op)]
      /\ UNCHANGED <<server, feed, recorded, rest, sync, cursor>>
  BY <1>1 DEF Record, books
<1>5. /\ local \in [Till -> [Barcode -> Local]] /\ status \in [Op -> Status]
      /\ outbox \in [Till -> Seq(Op)]
  BY DEF Inv, TypeOK
<1>6. /\ \A o \in Op : status'[o] = IF o = op THEN "pending" ELSE status[o]
      /\ \A u \in Till, c \in Barcode :
           local'[u][c] = IF u = t /\ c = b THEN IF op.kind = "add" THEN "live" ELSE "removed"
                          ELSE local[u][c]
  BY <1>1, <1>4, <1>5
<1>7. TypeOK'
  <2>1. local' \in [Till -> [Barcode -> Local]]
    BY <1>5 DEF Local, RowState
  <2>2. status' \in [Op -> Status]
    BY <1>4, <1>5 DEF Status
  <2>3. outbox' \in [Till -> Seq(Op)]
    BY <1>1, <1>4, <1>5, AppendProperties
  <2> QED BY <1>4, <2>1, <2>2, <2>3 DEF Inv, TypeOK
<1>8. FeedKept' /\ CodesUnique'
  BY <1>4 DEF Inv, FeedKept, InFeed, CodesUnique
<1>9. \A u \in Till, c \in Barcode :
         /\ Refusal(u, c)' <=> Refusal(u, c)
         /\ \A r \in {"live", "removed"} : Read(u, c, r)' <=> Read(u, c, r)
  BY <1>4 DEF Refusal, Read
<1>10. ASSUME NEW o \in Op PROVE Recorded(o)' /\ Shown(o)'
  <2>1. Recorded(o) /\ Shown(o) /\ o.till \in Till /\ o.row \in Barcode
    BY OpIs DEF Inv
  <2>2. CASE o = op
    BY <1>1, <1>2, <1>4, <1>6, <2>1, <2>2 DEF Recorded, Shown
  <2>3. CASE o # op
    <3>1. status'[o] = status[o]
      BY <1>6, <2>3
    <3>2. Recorded(o)'
      BY <1>4, <2>1, <3>1 DEF Recorded
    <3>3. local[o.till][o.row] = "removed" => local'[o.till][o.row] = "removed"
      BY <1>1, <1>6, <2>1
    <3>4. o.kind = "add" => (local'[o.till][o.row] = "none" <=> local[o.till][o.row] = "none")
      <4>1. CASE o.till = t /\ o.row = b /\ o.kind = "add"
        BY <1>1, <1>6, <2>3, <4>1, OpIs, OpFacts
      <4>2. CASE ~(o.till = t /\ o.row = b)
        BY <1>6, <2>1, <4>2
      <4> QED BY <4>1, <4>2
    <3>5. Refusal(o.till, o.row)' <=> Refusal(o.till, o.row)
      BY <1>9, <2>1
    <3> QED BY <1>4, <2>1, <3>1, <3>2, <3>3, <3>4, <3>5 DEF Shown
  <2> QED BY <2>2, <2>3
<1>11. ASSUME NEW u \in Till, NEW c \in Barcode PROVE LocalKept(u, c)'
  <2>1. LocalKept(u, c) /\ AddOf(u, c) \in Op /\ RemovalOf(u, c) \in Op
    BY OpFacts DEF Inv
  <2>2. status'[AddOf(u, c)] = "rejected" => status[AddOf(u, c)] = "rejected"
    BY <1>6, <2>1
  <2>3. status[RemovalOf(u, c)] # "none" => status'[RemovalOf(u, c)] # "none"
    BY <1>6, <2>1
  <2>4. Dropping(u, c)' <=> Dropping(u, c)
    BY <1>4 DEF Dropping
  <2>5. CASE u = t /\ c = b
    <3>1. CASE op.kind = "add"
      <4>1. op = AddOf(t, b) /\ status'[AddOf(t, b)] = "pending"
        BY <1>1, <1>6, <3>1, OpFacts
      <4> QED BY <1>1, <1>4, <1>6, <1>9, <2>1, <2>5, <3>1, <4>1 DEF LocalKept
    <3>2. CASE op.kind = "remove"
      <4>1. op = RemovalOf(t, b) /\ status'[RemovalOf(t, b)] = "pending"
        BY <1>1, <1>6, <3>2, OpFacts
      <4> QED BY <1>1, <1>4, <1>6, <1>9, <2>1, <2>5, <3>2, <4>1 DEF LocalKept
    <3> QED BY <1>1, <3>1, <3>2
  <2>6. CASE ~(u = t /\ c = b)
    <3>1. local'[u][c] = local[u][c]
      BY <1>6, <2>6
    <3> QED BY <1>4, <1>9, <2>1, <2>2, <2>3, <2>4, <3>1 DEF LocalKept
  <2> QED BY <2>5, <2>6
<1>12. \A w \in Worker : Looked(w)'
  BY <1>4 DEF Inv, Looked
<1>13. ASSUME NEW u \in Till PROVE Fine(u, sync[u])'
  <2>1. /\ Fine(u, sync[u]) /\ sync[u] \in Sync /\ sync[u].todo \subseteq Op
        /\ sync[u].refused \subseteq Barcode /\ sync[u].op \in Op \cup {None}
    BY SyncType DEF Inv
  <2>2. \A o \in Op : status[o] # "none" => status'[o] = status[o]
    BY <1>2, <1>6
  <2>3. \A c \in Barcode : AddOf(u, c) \in Op
    BY OpFacts
  <2>4. sync[u].step \in {"plan", "write", "answer", "drop"} => sync[u].op \in Op
    BY <2>1 DEF Fine
  <2> QED BY <1>4, <1>9, <2>1, <2>2, <2>3, <2>4 DEF Fine
<1> QED BY <1>7, <1>8, <1>10, <1>11, <1>12, <1>13 DEF Inv

LEMMA AddBarcodeKeeps ==
    ASSUME Inv, NEW t \in Till, NEW b \in Barcode, AddBarcode(t, b) PROVE Inv'
<1>1. AddOf(t, b).kind = "add" /\ AddOf(t, b) \in {AddOf(t, b), RemovalOf(t, b)}
  BY OpFacts
<1>2. /\ MadeBy[b] = t /\ local[t][b] = "none" /\ Record(AddOf(t, b))
      /\ local' = [local EXCEPT ![t][b] = "live"]
      /\ UNCHANGED <<books, recorded, rest, sync, cursor>>
  BY DEF AddBarcode, AddOf
<1>3. local' = [local EXCEPT ![t][b] = IF AddOf(t, b).kind = "add" THEN "live" ELSE "removed"]
  BY <1>1, <1>2
<1> QED BY <1>1, <1>2, <1>3, RecordKeeps

LEMMA RemoveBarcodeKeeps ==
    ASSUME Inv, NEW t \in Till, NEW b \in Barcode, RemoveBarcode(t, b) PROVE Inv'
<1>1. RemovalOf(t, b).kind = "remove" /\ RemovalOf(t, b) \in {AddOf(t, b), RemovalOf(t, b)}
  BY OpFacts
<1>2. /\ local[t][b] = "live" /\ Record(RemovalOf(t, b))
      /\ local' = [local EXCEPT ![t][b] = "removed"]
      /\ UNCHANGED <<books, recorded, rest, sync, cursor>>
  BY DEF RemoveBarcode, RemovalOf
<1>3. local' = [local EXCEPT ![t][b] = IF RemovalOf(t, b).kind = "add" THEN "live" ELSE "removed"]
  BY <1>1, <1>2
<1> QED BY <1>1, <1>2, <1>3, RecordKeeps

LEMMA PullChangeKeeps == ASSUME Inv, NEW t \in Till, PullChange(t) PROVE Inv'
<1> DEFINE next == feed[cursor[t] + 1]
           c == next.row
           r == next.state
<1>1. /\ cursor[t] \in Nat /\ Len(feed) \in Nat /\ cursor[t] < Len(feed)
      /\ cursor[t] + 1 \in 1 .. Len(feed) /\ cursor \in [Till -> Nat]
  BY DEF Inv, TypeOK, PullChange
<1>2. next \in [row : Barcode, state : {"live", "removed"}]
  BY <1>1, ElementOfSeq DEF Inv, TypeOK
<1>3. c \in Barcode /\ r \in {"live", "removed"} /\ next = Image(c, r)
  BY <1>2 DEF Image
<1>4. /\ local' = IF Older(r, local[t][c]) THEN local ELSE [local EXCEPT ![t][c] = r]
      /\ cursor' = [cursor EXCEPT ![t] = @ + 1]
      /\ UNCHANGED <<server, feed, recorded, rest, status, outbox, sync>>
  BY DEF PullChange, books
<1>5. server[c] # "none" /\ (r = "removed" => server[c] = "removed")
  <2>1. InFeed(c, r)
    BY <1>1, <1>3 DEF InFeed
  <2> QED BY <1>3, <2>1 DEF Inv, FeedKept
<1>6. /\ local \in [Till -> [Barcode -> Local]] /\ local[t][c] \in Local
      /\ LocalKept(t, c)
  BY <1>3 DEF Inv, TypeOK
<1>7. local[t][c] # "refused" /\ (local[t][c] = "none" => MadeBy[c] # t)
  <2>1. ~Refusal(t, c)
    BY <1>3, <1>5, RefusedIsNowhere
  <2> QED BY <1>3, <1>5, <1>6, <2>1, OwnRow DEF LocalKept
<1>8. \A u \in Till, b \in Barcode :
        local'[u][b] = IF u = t /\ b = c THEN IF local[t][c] = "removed" THEN "removed" ELSE r
                       ELSE local[u][b]
  <2>1. Older(r, local[t][c]) <=> local[t][c] = "removed" /\ r = "live"
    BY <1>3 DEF Older, Version
  <2>2. CASE Older(r, local[t][c])
    BY <1>4, <2>1, <2>2
  <2>3. CASE ~Older(r, local[t][c])
    <3>1. local' = [local EXCEPT ![t][c] = r]
      BY <1>4, <2>3
    <3> QED BY <1>3, <1>6, <2>1, <2>3, <3>1
  <2> QED BY <2>2, <2>3
<1>9. \A u \in Till, b \in Barcode, q \in RowState :
        Read(u, b, q)' <=> Read(u, b, q) \/ (u = t /\ b = c /\ q = r)
  <2> TAKE u \in Till, b \in Barcode, q \in RowState
  <2>1. Image(b, q) = Image(c, r) <=> b = c /\ q = r
    BY DEF Image
  <2>2. cursor'[u] = IF u = t THEN cursor[t] + 1 ELSE cursor[u]
    BY <1>1, <1>4
  <2>3. \A i : i \in 1 .. cursor[t] + 1 <=> i \in 1 .. cursor[t] \/ i = cursor[t] + 1
    BY <1>1
  <2>4. feed[cursor[t] + 1] = Image(c, r)
    BY <1>3
  <2> HIDE DEF next, c, r
  <2>5. CASE u = t
    <3>1. Read(u, b, q)' <=> \E i \in 1 .. cursor[t] + 1 : feed[i] = Image(b, q)
      BY <1>4, <2>2, <2>5 DEF Read
    <3>2. Read(u, b, q)' <=> Read(u, b, q) \/ feed[cursor[t] + 1] = Image(b, q)
      BY <2>3, <2>5, <3>1 DEF Read
    <3> QED BY <2>1, <2>4, <2>5, <3>2
  <2>6. CASE u # t
    BY <1>4, <2>2, <2>6 DEF Read
  <2> QED BY <2>5, <2>6
<1>10. TypeOK'
  <2>1. local' \in [Till -> [Barcode -> Local]]
    BY <1>3, <1>4, <1>6 DEF Local, RowState
  <2>2. cursor' \in [Till -> Nat]
    BY <1>1, <1>4
  <2> QED BY <1>4, <2>1, <2>2 DEF Inv, TypeOK
<1>11. FeedKept' /\ CodesUnique'
  <2>1. \A u \in Till : cursor'[u] <= Len(feed)
    BY <1>1, <1>4 DEF Inv, FeedKept
  <2> QED BY <1>4, <2>1 DEF Inv, FeedKept, InFeed, CodesUnique
<1>12. \A u \in Till, b \in Barcode : Refusal(u, b)' <=> Refusal(u, b)
  BY <1>4 DEF Refusal
<1> HIDE DEF next, c, r
<1>13. ASSUME NEW o \in Op PROVE Recorded(o)' /\ Shown(o)'
  <2>1. Recorded(o) /\ Shown(o) /\ o.till \in Till /\ o.row \in Barcode
    BY OpIs DEF Inv
  <2>2. /\ local[o.till][o.row] = "removed" => local'[o.till][o.row] = "removed"
        /\ ~(o.till = t /\ o.row = c) => local'[o.till][o.row] = local[o.till][o.row]
        /\ o.till = t /\ o.row = c => local'[o.till][o.row] # "none"
    BY <1>3, <1>8, <2>1
  <2>3. MadeBy[o.row] = o.till /\ o.till = t /\ o.row = c => local[o.till][o.row] # "none"
    BY <1>7
  <2> QED BY <1>4, <1>12, <2>1, <2>2, <2>3 DEF Recorded, Shown
<1>14. ASSUME NEW u \in Till, NEW b \in Barcode PROVE LocalKept(u, b)'
  <2>1. LocalKept(u, b) /\ (Dropping(u, b)' <=> Dropping(u, b))
    BY <1>4 DEF Inv, Dropping
  <2>2. /\ Read(u, b, "live")' <=> Read(u, b, "live") \/ (u = t /\ b = c /\ r = "live")
        /\ Read(u, b, "removed")' <=> Read(u, b, "removed") \/ (u = t /\ b = c /\ r = "removed")
    BY <1>9 DEF RowState
  <2>3. CASE u = t /\ b = c
    <3>1. local'[t][c] = IF local[t][c] = "removed" THEN "removed" ELSE r
      BY <1>3, <1>8
    <3>2. CASE local[t][c] = "removed"
      BY <1>4, <2>1, <2>2, <2>3, <3>1, <3>2 DEF LocalKept
    <3>3. CASE local[t][c] # "removed" /\ r = "removed"
      BY <1>4, <2>1, <2>2, <2>3, <3>1, <3>3 DEF LocalKept
    <3>4. CASE local[t][c] # "removed" /\ r = "live"
      BY <1>4, <1>5, <1>6, <1>7, <2>1, <2>2, <2>3, <3>1, <3>4 DEF LocalKept, Local, RowState
    <3> QED BY <1>3, <3>2, <3>3, <3>4
  <2>4. CASE ~(u = t /\ b = c)
    <3>1. local'[u][b] = local[u][b]
      BY <1>8, <2>4
    <3>2. Read(u, b, "live")' <=> Read(u, b, "live")
      BY <2>2, <2>4
    <3>3. Read(u, b, "removed")' <=> Read(u, b, "removed")
      BY <2>2, <2>4
    <3> QED BY <1>4, <1>12, <2>1, <3>1, <3>2, <3>3 DEF LocalKept
  <2> QED BY <2>3, <2>4
<1>15. \A w \in Worker : Looked(w)'
  BY <1>4 DEF Inv, Looked
<1>16. ASSUME NEW u \in Till PROVE Fine(u, sync[u])'
  <2>1. Fine(u, sync[u]) /\ sync[u].refused \subseteq Barcode
    BY SyncType DEF Inv
  <2> QED BY <1>4, <1>12, <2>1 DEF Fine
<1> QED BY <1>10, <1>11, <1>13, <1>14, <1>15, <1>16 DEF Inv

-----------------------------------------------------------------------------
(* Requests over REST *)

(* A request begins or ends and writes nothing. *)
LEMMA RestStep ==
    ASSUME Inv, NEW w \in Worker, NEW q \in Request, rest' = [rest EXCEPT ![w] = q],
           UNCHANGED <<books, recorded, till, sync, cursor>>, \A v \in Worker : Looked(v)'
    PROVE  Inv'
<1>1. UNCHANGED <<server, feed, recorded, local, status, outbox, sync, cursor>>
  BY DEF books, till
<1>2. TypeOK'
  BY <1>1 DEF Inv, TypeOK
<1>3. FeedKept' /\ CodesUnique' /\ \A o \in Op : Recorded(o)' /\ Shown(o)'
  BY <1>1 DEF Inv, FeedKept, InFeed, CodesUnique, Recorded, Shown, Refusal
<1>4. \A t \in Till, b \in Barcode : LocalKept(t, b)'
  BY <1>1 DEF Inv, LocalKept, Read, Refusal, Dropping
<1>5. \A t \in Till : Fine(t, sync[t])'
  BY <1>1 DEF Inv, Fine, Refusal
<1> QED BY <1>2, <1>3, <1>4, <1>5 DEF Inv

LEMMA RestAddKeeps == ASSUME Inv, NEW w \in Worker, NEW b \in Barcode, RestAdd(w, b) PROVE Inv'
<1> DEFINE q == [kind |-> "add", row |-> b]
<1>1. q \in Request /\ b # None /\ rest \in [Worker -> Request]
  BY NoneAssumption DEF Request, Inv, TypeOK
<1>2. /\ rest' = [rest EXCEPT ![w] = q] /\ UNCHANGED <<books, recorded, till, sync, cursor>>
      /\ MadeBy[b] = None /\ server[b] = "none" /\ server' = server
      /\ \A v \in Worker : rest[v].row # b
  BY DEF RestAdd, books
<1>3. \A v \in Worker : rest'[v] = IF v = w THEN q ELSE rest[v]
  BY <1>1, <1>2
<1>4. ASSUME NEW v \in Worker PROVE Looked(v)'
  BY <1>1, <1>2, <1>3 DEF Inv, Looked
<1> HIDE DEF q
<1> QED BY <1>1, <1>2, <1>4, RestStep

LEMMA RestRemoveKeeps == ASSUME Inv, NEW w \in Worker, NEW b \in Barcode, RestRemove(w, b) PROVE Inv'
<1> DEFINE q == [kind |-> "remove", row |-> b]
<1>1. q \in Request /\ b # None /\ rest \in [Worker -> Request]
  BY NoneAssumption DEF Request, Inv, TypeOK
<1>2. /\ rest' = [rest EXCEPT ![w] = q] /\ UNCHANGED <<books, recorded, till, sync, cursor>>
      /\ server[b] = "live" /\ server' = server
  BY DEF RestRemove, books
<1>3. \A v \in Worker : rest'[v] = IF v = w THEN q ELSE rest[v]
  BY <1>1, <1>2
<1>4. ASSUME NEW v \in Worker PROVE Looked(v)'
  BY <1>1, <1>2, <1>3 DEF Inv, Looked
<1> HIDE DEF q
<1> QED BY <1>1, <1>2, <1>4, RestStep

(* A write over REST: the row was not there, or was. *)
LEMMA RestPut ==
    ASSUME Inv, NEW w \in Worker, NEW b \in Barcode, NEW s \in {"live", "removed"},
           rest[w].row = b, s = "live" => rest[w].kind = "add" /\ Fits(b),
           s = "removed" => rest[w].kind = "remove",
           Put(b, s), rest' = [rest EXCEPT ![w] = NoRequest],
           UNCHANGED <<recorded, till, sync, cursor>>
    PROVE  Inv'
<1>1. /\ s = "live" => /\ MadeBy[b] = None /\ server[b] = "none"
                       /\ \A v \in Worker \ {w} : rest[v].row # b
      /\ s = "removed" => server[b] # "none"
  BY DEF Inv, Looked
<1>2. /\ server' \in [Barcode -> RowState]
      /\ feed' \in Seq([row : Barcode, state : {"live", "removed"}])
      /\ FeedKept'
      /\ \A t \in Till, c \in Barcode, r \in RowState : Read(t, c, r)' <=> Read(t, c, r)
  BY <1>1, PutKeeps DEF Inv
<1>3. /\ rest \in [Worker -> Request] /\ NoRequest \in Request /\ server \in [Barcode -> RowState]
      /\ server' = [server EXCEPT ![b] = s] /\ UNCHANGED <<recorded, local, status, outbox, sync, cursor>>
  BY DEF Inv, TypeOK, NoRequest, Request, Put, till
<1>4. /\ \A c \in Barcode : server'[c] = IF c = b THEN s ELSE server[c]
      /\ \A v \in Worker : rest'[v] = IF v = w THEN NoRequest ELSE rest[v]
  BY <1>3
<1>5. TypeOK'
  BY <1>2, <1>3 DEF Inv, TypeOK
<1>6. CodesUnique'
  <2>1. s = "live" => \A c \in Barcode : server[c] = "live" => CodeOf[c] # CodeOf[b]
    BY DEF Fits, Taken
  <2> QED BY <1>4, <2>1 DEF Inv, CodesUnique
<1>7. ASSUME NEW o \in Op PROVE Recorded(o)' /\ Shown(o)'
  <2>1. Recorded(o) /\ Shown(o) /\ o.till \in Till /\ o.row \in Barcode /\ o.till # None
    BY OpIs, OpFacts DEF Inv
  <2>2. Recorded(o)'
    BY <1>1, <1>3, <1>4, <2>1 DEF Recorded
  <2> QED BY <1>3, <2>1, <2>2 DEF Shown, Refusal
<1>8. ASSUME NEW t \in Till, NEW c \in Barcode PROVE LocalKept(t, c)'
  <2>1. LocalKept(t, c) /\ (Dropping(t, c)' <=> Dropping(t, c)) /\ (Refusal(t, c)' <=> Refusal(t, c))
    BY <1>3 DEF Inv, Dropping, Refusal
  <2>2. \A r \in {"live", "removed"} : Read(t, c, r)' <=> Read(t, c, r)
    BY <1>2 DEF RowState
  <2>3. server[c] # "none" => server'[c] # "none"
    BY <1>4
  <2> QED BY <1>3, <2>1, <2>2, <2>3 DEF LocalKept
<1>9. ASSUME NEW v \in Worker PROVE Looked(v)'
  <2>1. CASE v = w
    BY <1>4, <2>1 DEF Looked, NoRequest
  <2>2. CASE v # w
    <3>1. Looked(v) /\ rest[v] \in Request /\ rest'[v] = rest[v]
      BY <1>3, <1>4, <2>2 DEF Inv
    <3>2. rest[v].kind # "none" => rest[v].row \in Barcode
      BY <3>1 DEF Looked, Request
    <3>3. rest[v].kind = "add" => rest[v].row # b
      BY <1>1, <2>2, <3>1 DEF Looked
    <3>4. \A x \in Worker \ {v} : rest[v].kind = "add" => rest'[x].row # rest[v].row
      BY <1>4, <3>1, <3>2, NoneAssumption DEF Looked, NoRequest
    <3> QED BY <1>4, <3>1, <3>2, <3>3, <3>4 DEF Looked
  <2> QED BY <2>1, <2>2
<1>10. ASSUME NEW t \in Till PROVE Fine(t, sync[t])'
  <2>1. /\ Fine(t, sync[t]) /\ sync[t].refused \subseteq Barcode
        /\ sync[t].step = "write" => sync[t].op.row \in Barcode
    BY SyncType, InFlight DEF Inv
  <2>2. \A c \in Barcode : server[c] # "none" => server'[c] # "none"
    BY <1>4
  <2> QED BY <1>3, <2>1, <2>2 DEF Fine, Refusal
<1> QED BY <1>2, <1>5, <1>6, <1>7, <1>8, <1>9, <1>10 DEF Inv

LEMMA RestWriteKeeps == ASSUME Inv, NEW w \in Worker, RestWrite(w) PROVE Inv'
<1> DEFINE q == rest[w]
<1>1. /\ q # NoRequest /\ q \in Request /\ Looked(w) /\ NoRequest \in Request
      /\ rest' = [rest EXCEPT ![w] = NoRequest] /\ UNCHANGED <<recorded, till, sync, cursor>>
      /\ rest \in [Worker -> Request]
  BY DEF Inv, TypeOK, RestWrite, NoRequest, Request
<1>2. q.kind \in {"add", "remove"} /\ q.row \in Barcode
  BY <1>1 DEF Looked, Request, NoRequest
<1>3. CASE q.kind = "add" /\ Fits(q.row)
  BY <1>1, <1>2, <1>3, RestPut DEF RestWrite
<1>4. CASE q.kind = "remove"
  BY <1>1, <1>2, <1>4, RestPut DEF RestWrite
<1>5. CASE q.kind = "add" /\ ~Fits(q.row)
  <2>1. UNCHANGED books /\ server' = server
    BY <1>5 DEF RestWrite, books
  <2>2. \A v \in Worker : rest'[v] = IF v = w THEN NoRequest ELSE rest[v]
    BY <1>1
  <2>3. ASSUME NEW v \in Worker PROVE Looked(v)'
    <3>1. Looked(v) /\ rest[v] \in Request
      BY <1>1 DEF Inv
    <3>2. rest[v].kind # "none" => rest[v].row # None
      BY <3>1 DEF Looked, Request
    <3> QED BY <2>1, <2>2, <3>1, <3>2 DEF Looked, NoRequest
  <2> QED BY <1>1, <2>1, <2>3, RestStep
<1> QED BY <1>2, <1>3, <1>4, <1>5

-----------------------------------------------------------------------------
(* The theorems *)

LEMMA InvInit == Init => Inv
<1> SUFFICES ASSUME Init PROVE Inv
  OBVIOUS
<1>1. TypeOK
  <2>1. Idle \in Sync /\ NoRequest \in Request /\ <<>> \in Seq(Op)
    BY DEF Idle, Sync, Step, Outcome, NoRequest, Request
  <2>2. <<>> \in Seq([row : Barcode, state : {"live", "removed"}])
    OBVIOUS
  <2> QED BY <2>1, <2>2 DEF Init, TypeOK, RowState, Local, Outcome, Status
<1>2. FeedKept
  BY DEF Init, FeedKept, InFeed
<1>3. ASSUME NEW o \in Op PROVE Recorded(o) /\ Shown(o)
  BY OpIs DEF Init, Recorded, Shown
<1>4. ASSUME NEW t \in Till, NEW b \in Barcode PROVE LocalKept(t, b)
  BY DEF Init, LocalKept, Read
<1>5. \A w \in Worker : Looked(w)
  BY DEF Init, Looked, NoRequest
<1>6. \A t \in Till : Fine(t, sync[t])
  BY IdleFine DEF Init
<1>7. CodesUnique
  BY DEF Init, CodesUnique
<1> QED BY <1>1, <1>2, <1>3, <1>4, <1>5, <1>6, <1>7 DEF Inv

LEMMA InvNext == Inv /\ [Next]_vars => Inv'
<1> SUFFICES ASSUME Inv, [Next]_vars PROVE Inv'
  OBVIOUS
<1>1. CASE UNCHANGED vars
  BY <1>1 DEF vars, books, till, Inv, TypeOK, FeedKept, InFeed, Recorded, Shown, Refusal, LocalKept,
              Read, Dropping, Looked, Fine, CodesUnique
<1>2. ASSUME NEW w \in Worker,
             RestWrite(w) \/ \E b \in Barcode : RestAdd(w, b) \/ RestRemove(w, b)
      PROVE  Inv'
  BY <1>2, RestWriteKeeps, RestAddKeeps, RestRemoveKeeps
<1>3. ASSUME NEW t \in Till, NEW b \in Barcode, AddBarcode(t, b) \/ RemoveBarcode(t, b) PROVE Inv'
  BY <1>3, AddBarcodeKeeps, RemoveBarcodeKeeps
<1>4. ASSUME NEW t \in Till, NEW o \in Op, NextOp(t, o) PROVE Inv'
  BY <1>4, NextOpKeeps
<1>5. ASSUME NEW t \in Till,
             \/ StartPush(t) \/ PlanOp(t) \/ RefuseForNow(t) \/ WriteOp(t) \/ ReadAnswer(t)
             \/ DropRefused(t) \/ StartPull(t) \/ PullChange(t) \/ EndSync(t)
             \/ LoseConnection(t) \/ KillApp(t)
      PROVE  Inv'
  BY <1>5, StartPushKeeps, PlanOpKeeps, RefuseForNowKeeps, WriteOpKeeps, ReadAnswerKeeps,
     DropRefusedKeeps, StartPullKeeps, PullChangeKeeps, IdleKeeps
<1> QED BY <1>1, <1>2, <1>3, <1>4, <1>5 DEF Next

(* The type invariant, for all tills, rows and threads. *)
THEOREM BarcodesTypeOK == Spec => []TypeOK
<1>1. Inv => TypeOK
  BY DEF Inv
<1> QED BY <1>1, InvInit, InvNext, PTL DEF Spec

(* CodesUnique: a scan resolves to one product, whoever asks for a code at the same    *)
(* time over REST and over a push: the index has the last word on each write.          *)
THEOREM CodesAlwaysUnique == Spec => []CodesUnique
<1>1. Inv => CodesUnique
  BY DEF Inv
<1> QED BY <1>1, InvInit, InvNext, PTL DEF Spec

LEMMA CaughtUpAgrees ==
    ASSUME Inv, "drop" \notin KilledAt, NEW t \in Till, CaughtUp(t), NEW b \in Barcode
    PROVE  local[t][b] = "live" <=> server[b] = "live"
<1> DEFINE add == AddOf(t, b)
           removal == RemovalOf(t, b)
<1>1. /\ add \in Op /\ removal \in Op /\ Recorded(add) /\ Shown(add) /\ Recorded(removal)
      /\ Shown(removal) /\ add.till = t /\ add.row = b /\ add.kind = "add"
      /\ removal.till = t /\ removal.row = b /\ removal.kind = "remove"
  BY OpFacts DEF Inv
<1>2. /\ server[b] \in RowState /\ local[t][b] \in Local
      /\ status[add] \in Status \ {"pending"} /\ status[removal] \in Status \ {"pending"}
  BY <1>1 DEF Inv, TypeOK, CaughtUp, Pending
<1>3. /\ Read(t, b, "live") <=> server[b] # "none"
      /\ Read(t, b, "removed") <=> server[b] = "removed"
  BY DEF Inv, FeedKept, CaughtUp, Read, InFeed
<1>4. LocalKept(t, b) /\ ~Dropping(t, b)
  BY DEF Inv, Dropping, CaughtUp, Idle
<1>5. ASSUME local[t][b] = "live" PROVE server[b] = "live"
  <2>1. server[b] # "removed"
    BY <1>3, <1>4, <1>5 DEF LocalKept
  <2>2. server[b] # "none"
    <3>1. CASE MadeBy[b] = t
      <4>1. status[add] \in {"acked", "conflict"}
        BY <1>1, <1>2, <1>4, <1>5, <3>1 DEF LocalKept, Shown, Status
      <4> QED BY <1>1, <3>1, <4>1 DEF Shown, Recorded
    <3>2. CASE MadeBy[b] # t
      BY <1>4, <1>5, <3>2 DEF LocalKept
    <3> QED BY <3>1, <3>2
  <2> QED BY <1>2, <2>1, <2>2 DEF RowState
<1>6. ASSUME server[b] = "live" PROVE local[t][b] = "live"
  <2>1. local[t][b] \in {"live", "removed"} /\ ~Read(t, b, "removed")
    BY <1>3, <1>4, <1>6 DEF LocalKept
  <2>2. CASE local[t][b] = "removed"
    <3>1. status[removal] \in {"acked", "rejected", "conflict"}
      BY <1>2, <1>4, <2>1, <2>2 DEF LocalKept, Status
    <3>2. status[removal] # "rejected"
      BY <1>1, <1>6, RefusedIsNowhere DEF Shown
    <3>3. recorded[removal] # "none"
      BY <1>1, <3>1, <3>2 DEF Shown
    <3> QED BY <1>1, <1>6, <3>3 DEF Recorded
  <2> QED BY <2>1, <2>2
<1> QED BY <1>5, <1>6

(* ScansAgree: a till with nothing pending that has read the whole feed scans what the *)
(* server says, if the app is never killed between reading that its barcode was        *)
(* refused and deleting its copy: the two are writes of their own (pushPending).       *)
THEOREM ScansAlwaysAgree ==
    ASSUME "drop" \notin KilledAt
    PROVE  Spec => []ScansAgree
<1>1. Inv => ScansAgree
  BY CaughtUpAgrees DEF ScansAgree
<1> QED BY <1>1, InvInit, InvNext, PTL DEF Spec

LEMMA FeedGrows ==
    ASSUME Inv, [Next]_vars
    PROVE  UNCHANGED feed \/ \E c \in Barcode, r \in {"live", "removed"} : feed' = Append(feed, Image(c, r))
<1>1. ASSUME NEW w \in Worker, RestWrite(w) PROVE UNCHANGED feed \/ \E c \in Barcode, r \in {"live", "removed"} : Put(c, r)
  <2>1. rest[w] \in Request /\ Looked(w)
    BY DEF Inv, TypeOK
  <2>2. rest[w].row \in Barcode
    BY <1>1, <2>1 DEF RestWrite, Looked, Request, NoRequest
  <2> QED BY <1>1, <2>2 DEF RestWrite, books
<1>2. ASSUME NEW t \in Till, WriteOp(t) PROVE UNCHANGED feed \/ \E c \in Barcode, r \in {"live", "removed"} : Put(c, r)
  <2>1. sync[t].op.row \in Barcode
    BY <1>2, InFlight DEF WriteOp
  <2> QED BY <1>2, <2>1 DEF WriteOp, books
<1>3. \A c, r : Put(c, r) => feed' = Append(feed, Image(c, r))
  BY DEF Put, Image
<1>4. CASE UNCHANGED vars
  BY <1>4 DEF vars, books
<1>5. CASE \E w \in Worker : \E b \in Barcode : RestAdd(w, b) \/ RestRemove(w, b)
  BY <1>5 DEF RestAdd, RestRemove, books
<1>6. CASE \E t \in Till : \/ \E b \in Barcode : AddBarcode(t, b) \/ RemoveBarcode(t, b)
                           \/ \E o \in Op : NextOp(t, o)
                           \/ StartPush(t) \/ PlanOp(t) \/ RefuseForNow(t) \/ ReadAnswer(t)
                           \/ DropRefused(t) \/ StartPull(t) \/ PullChange(t) \/ EndSync(t)
                           \/ LoseConnection(t) \/ KillApp(t)
  BY <1>6 DEF AddBarcode, RemoveBarcode, NextOp, StartPush, PlanOp, RefuseForNow, ReadAnswer,
              DropRefused, StartPull, PullChange, EndSync, LoseConnection, KillApp, books
<1> QED BY <1>1, <1>2, <1>3, <1>4, <1>5, <1>6 DEF Next

LEMMA RemovedOnServer == ASSUME Inv, [Next]_vars, NEW b \in Barcode PROVE StaysRemoved(b)
<1>1. Inv' /\ feed \in Seq([row : Barcode, state : {"live", "removed"}])
  BY InvNext DEF Inv, TypeOK
<1>2. ASSUME InFeed(b, "removed") PROVE InFeed(b, "removed")'
  <2>1. CASE UNCHANGED feed
    BY <1>2, <2>1 DEF InFeed
  <2>2. CASE \E c \in Barcode, r \in {"live", "removed"} : feed' = Append(feed, Image(c, r))
    <3>1. PICK c \in Barcode, r \in {"live", "removed"} : feed' = Append(feed, Image(c, r))
      BY <2>2
    <3>2. Image(c, r) \in [row : Barcode, state : {"live", "removed"}]
      BY DEF Image
    <3>3. Len(feed') = Len(feed) + 1 /\ Len(feed) \in Nat /\ \A i \in 1 .. Len(feed) : feed'[i] = feed[i]
      BY <1>1, <3>1, <3>2, AppendProperties
    <3> QED BY <1>2, <3>3 DEF InFeed
  <2> QED BY <2>1, <2>2, FeedGrows
<1> QED BY <1>1, <1>2 DEF Inv, FeedKept, StaysRemoved

LEMMA OffOnTill ==
    ASSUME Inv, [Next]_vars, NEW t \in Till, NEW b \in Barcode PROVE StaysOff(t, b)
<1>1. local \in [Till -> [Barcode -> Local]]
  BY DEF Inv, TypeOK
<1>2. ASSUME NEW u \in Till, NEW c \in Barcode, AddBarcode(u, c) \/ RemoveBarcode(u, c)
      PROVE  StaysOff(t, b)
  BY <1>1, <1>2 DEF AddBarcode, RemoveBarcode, StaysOff
<1>3. ASSUME NEW u \in Till, DropRefused(u) PROVE StaysOff(t, b)
  BY <1>1, <1>3 DEF DropRefused, StaysOff
<1>4. ASSUME NEW u \in Till, PullChange(u) PROVE StaysOff(t, b)
  <2> DEFINE image == feed[cursor[u] + 1]
  <2>0. cursor[u] \in Nat /\ Len(feed) \in Nat /\ cursor[u] + 1 \in 1 .. Len(feed)
    BY <1>4 DEF Inv, TypeOK, PullChange
  <2>1. image \in [row : Barcode, state : {"live", "removed"}]
    BY <2>0, ElementOfSeq DEF Inv, TypeOK
  <2>2. image.row \in Barcode /\ image.state \in {"live", "removed"} /\ image = Image(image.row, image.state)
    BY <2>1 DEF Image
  <2>3. server[image.row] # "none"
    <3>1. InFeed(image.row, image.state)
      BY <2>0, <2>2 DEF InFeed
    <3> QED BY <2>2, <3>1 DEF Inv, FeedKept
  <2>4. local[u][image.row] # "refused"
    BY <2>2, <2>3, RefusedIsNowhere DEF Inv, LocalKept
  <2>5. local' = IF Older(image.state, local[u][image.row]) THEN local
                 ELSE [local EXCEPT ![u][image.row] = image.state]
    BY <1>4 DEF PullChange
  <2> HIDE DEF image
  <2>6. local[u][image.row] = "removed" /\ image.state = "live" => Older(image.state, local[u][image.row])
    BY DEF Older, Version
  <2> QED BY <1>1, <2>2, <2>4, <2>5, <2>6 DEF StaysOff
<1>5. CASE UNCHANGED local
  BY <1>5 DEF StaysOff
<1>6. ASSUME NEW u \in Till, NEW o \in Op,
             \/ NextOp(u, o) \/ StartPush(u) \/ PlanOp(u) \/ RefuseForNow(u) \/ WriteOp(u)
             \/ ReadAnswer(u) \/ StartPull(u) \/ EndSync(u) \/ LoseConnection(u) \/ KillApp(u)
      PROVE  UNCHANGED local
  BY <1>6 DEF NextOp, StartPush, PlanOp, RefuseForNow, WriteOp, ReadAnswer, StartPull, EndSync,
              LoseConnection, KillApp, till
<1>7. ASSUME NEW w \in Worker,
             RestWrite(w) \/ \E c \in Barcode : RestAdd(w, c) \/ RestRemove(w, c)
      PROVE  UNCHANGED local
  BY <1>7 DEF RestWrite, RestAdd, RestRemove, till
<1>8. AddOf(t, b) \in Op
  BY OpFacts
<1> QED BY <1>2, <1>3, <1>4, <1>5, <1>6, <1>7, <1>8 DEF Next, vars, till

(* RemovedStaysRemoved: what was taken off never comes back, on the server or on a     *)
(* till: an image that was committed earlier is older, an op sent again was decided.   *)
THEOREM RemovedAlwaysStaysRemoved == Spec => RemovedStaysRemoved
<1>1. Inv /\ [Next]_vars => [\A b \in Barcode : StaysRemoved(b) /\ \A t \in Till : StaysOff(t, b)]_vars
  BY RemovedOnServer, OffOnTill
<1> QED BY <1>1, InvInit, InvNext, PTL DEF Spec, RemovedStaysRemoved
=============================================================================
