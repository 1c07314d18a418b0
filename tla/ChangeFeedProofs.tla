-------------------------- MODULE ChangeFeedProofs --------------------------
(***************************************************************************)
(* Theorems about ChangeFeed, for any number of rows, users, transactions, *)
(* pages, stops, restores and changes of roles.                            *)
(*                                                                         *)
(*   FeedInOrder          Spec => CommitsInOrder                           *)
(*   ChangeFeedTypeOK     Spec => []TypeOK                                 *)
(*   NothingIsMissed      NothingMissed, while no user's roles change in a *)
(*                        pull that has started again already              *)
(*   QuietPullsMissNothing  NothingMissed, when no role changes in a pull  *)
(*   PendingEditIsKept    PendingEditKept, without restores                *)
(*   CaughtUpAgrees       AgreesWithServer, without restores               *)
(*   RestoredSalesAgree   AgreesWithServer of sales, after restores too    *)
(***************************************************************************)
EXTENDS ChangeFeed, FiniteSetTheorems, WellFoundedInduction, TLAPS

(***************************************************************************)
(* The order of the feed.  The advisory lock has one holder at a time,     *)
(* and the seq it was given is between the committed ones and the next.    *)
(***************************************************************************)
Counts == [writes : WriteId, rescopes : 0..MaxRescopes, restores : 0..MaxRestores,
           stops : 0..MaxStops]

SeqsTyped ==
    /\ nextSeq \in Nat
    /\ txn \in [Writer -> Txn]
    /\ count \in Counts

OneLockHolder ==
    \A v, w \in Writer : txn[v].phase = "appended" /\ txn[w].phase = "appended" => v = w

FeedBelowNext == \A c \in feed : c.seq \in Nat /\ c.seq < nextSeq

HolderBetween ==
    \A w \in Writer : txn[w].phase = "appended" =>
        /\ txn[w].seq < nextSeq
        /\ \A c \in feed : c.seq < txn[w].seq

OrderInv == SeqsTyped /\ OneLockHolder /\ FeedBelowNext /\ HolderBetween

(* A transaction that has not begun. *)
LEMMA IdleTxn == Idle \in Txn /\ Idle.phase = "idle"
  BY BoundsAssumption DEF Idle, Txn, WriteId

(* The invariant holds at the start. *)
LEMMA OrderInit == Init => OrderInv
<1> SUFFICES ASSUME Init PROVE OrderInv
  OBVIOUS
<1>1. txn \in [Writer -> Txn]
  BY IdleTxn DEF Init
<1>2. count \in Counts
  BY BoundsAssumption DEF Init, Counts, WriteId
<1>3. SeqsTyped
  BY <1>1, <1>2 DEF Init, SeqsTyped
<1>4. OneLockHolder /\ FeedBelowNext /\ HolderBetween
  BY IdleTxn DEF Init, OneLockHolder, FeedBelowNext, HolderBetween
<1>. QED BY <1>3, <1>4 DEF OrderInv

(* One more of a bounded event. *)
LEMMA Counted ==
    ASSUME count \in Counts
    PROVE  /\ count.writes < MaxWrites =>
                 NewWrite \in WriteId /\ [count EXCEPT !.writes = @ + 1] \in Counts
           /\ count.rescopes < MaxRescopes => [count EXCEPT !.rescopes = @ + 1] \in Counts
           /\ count.restores < MaxRestores => [count EXCEPT !.restores = @ + 1] \in Counts
           /\ count.stops < MaxStops => [count EXCEPT !.stops = @ + 1] \in Counts
<1>1. /\ count.writes < MaxWrites => count.writes + 1 \in WriteId
      /\ count.rescopes < MaxRescopes => count.rescopes + 1 \in 0..MaxRescopes
      /\ count.restores < MaxRestores => count.restores + 1 \in 0..MaxRestores
      /\ count.stops < MaxStops => count.stops + 1 \in 0..MaxStops
  BY BoundsAssumption DEF Counts, WriteId
<1>. QED BY <1>1 DEF Counts, NewWrite

(* A step that leaves the feed and its sequence alone and makes no lock holder. *)
LEMMA NoAppend ==
    ASSUME OrderInv, UNCHANGED <<feed, nextSeq>>, count' \in Counts, txn' \in [Writer -> Txn],
           \A w \in Writer : txn'[w].phase = "appended" => txn'[w] = txn[w]
    PROVE  OrderInv'
<1>1. SeqsTyped'
  BY DEF OrderInv, SeqsTyped, Counts
<1>. QED BY <1>1 DEF OrderInv, OneLockHolder, FeedBelowNext, HolderBetween

(* Every step preserves the invariant. *)
LEMMA OrderNext == ASSUME OrderInv, [Next]_vars PROVE OrderInv'
<1>1. txn \in [Writer -> Txn] /\ nextSeq \in Nat /\ count \in Counts
  BY DEF OrderInv, SeqsTyped, Counts
<1>2. ASSUME UNCHANGED <<feed, nextSeq, txn>>, count' \in Counts
      PROVE  OrderInv'
  BY <1>1, <1>2, NoAppend
<1>3. ASSUME NEW w \in Writer, NEW r \in Row, LockRow(w, r)
      PROVE  OrderInv'
  <2> DEFINE t == [Idle EXCEPT !.phase = "rowLocked", !.row = r, !.by = NewWrite]
  <2>1. /\ count' \in Counts /\ NewWrite \in WriteId
        /\ txn' = [txn EXCEPT ![w] = t]
        /\ UNCHANGED <<feed, nextSeq>>
    BY <1>1, <1>3, Counted DEF LockRow, CountWrite
  <2>2. t \in Txn /\ t.phase = "rowLocked"
    BY <2>1, IdleTxn DEF Txn
  <2> HIDE DEF t
  <2>. QED BY <1>1, <2>1, <2>2, NoAppend
<1>4. ASSUME NEW w \in Writer, AppendChange(w)
      PROVE  OrderInv'
  <2> DEFINE t == [txn[w] EXCEPT !.phase = "appended", !.seq = nextSeq]
  <2>1. /\ FeedLockFree
        /\ txn' = [txn EXCEPT ![w] = t]
        /\ nextSeq' = nextSeq + 1
        /\ UNCHANGED <<feed, count>>
    BY <1>4 DEF AppendChange
  <2>2. t \in Txn /\ t.phase = "appended" /\ t.seq = nextSeq
    BY <1>1 DEF Txn
  <2> HIDE DEF t
  <2>3. /\ txn' \in [Writer -> Txn]
        /\ \A v \in Writer : txn'[v] = IF v = w THEN t ELSE txn[v]
        /\ \A v \in Writer : txn[v].phase # "appended"
    BY <1>1, <2>1, <2>2 DEF FeedLockFree
  <2>4. SeqsTyped'
    BY <1>1, <2>1, <2>3 DEF SeqsTyped, Counts
  <2>5. FeedBelowNext'
    BY <1>1, <2>1 DEF OrderInv, FeedBelowNext
  <2>6. OneLockHolder' /\ HolderBetween'
    BY <1>1, <2>1, <2>2, <2>3 DEF OrderInv, OneLockHolder, HolderBetween, FeedBelowNext
  <2>. QED BY <2>4, <2>5, <2>6 DEF OrderInv
<1>5. ASSUME NEW w \in Writer, Commit(w)
      PROVE  OrderInv'
  <2>1. /\ txn[w].phase = "appended" /\ txn[w].seq \in Nat
        /\ txn' = [txn EXCEPT ![w] = Idle]
        /\ UNCHANGED <<nextSeq, count>>
    BY <1>1, <1>5 DEF Commit, Txn
  <2>2. \A c \in feed' : c \in feed \/ c.seq = txn[w].seq
    BY <1>5 DEF Commit
  <2>3. /\ txn' \in [Writer -> Txn]
        /\ \A v \in Writer : txn'[v].phase # "appended"
    BY <1>1, <2>1, IdleTxn DEF OrderInv, OneLockHolder
  <2>4. SeqsTyped'
    BY <1>1, <2>1, <2>3 DEF SeqsTyped, Counts
  <2>5. FeedBelowNext'
    BY <2>1, <2>2 DEF OrderInv, FeedBelowNext, HolderBetween
  <2>. QED BY <2>3, <2>4, <2>5 DEF OrderInv, OneLockHolder, HolderBetween
<1>6. ASSUME NEW w \in Writer, Rollback(w)
      PROVE  OrderInv'
  <2>1. /\ txn' = [txn EXCEPT ![w] = Idle]
        /\ UNCHANGED <<feed, nextSeq, count>>
    BY <1>6 DEF Rollback
  <2>. QED BY <1>1, <2>1, IdleTxn, NoAppend
<1>7. ASSUME NEW u \in User, NEW scope \in Scope, ChangeRoles(u, scope)
      PROVE  OrderInv'
  BY <1>1, <1>2, <1>7, Counted DEF ChangeRoles
<1>8. ASSUME NEW n \in 0..nextSeq, Restore(n)
      PROVE  OrderInv'
  <2>1. /\ count' \in Counts
        /\ feed' = {c \in feed : c.seq <= n}
        /\ nextSeq' = n + 1
        /\ txn' = [w \in Writer |-> Idle]
    BY <1>1, <1>8, Counted DEF Restore
  <2>2. n \in Nat
    BY <1>1
  <2>3. SeqsTyped'
    BY <2>1, <2>2, IdleTxn DEF SeqsTyped, Counts
  <2>4. FeedBelowNext'
    BY <2>1, <2>2 DEF OrderInv, FeedBelowNext
  <2>5. OneLockHolder' /\ HolderBetween'
    BY <2>1, IdleTxn DEF OneLockHolder, HolderBetween
  <2>. QED BY <2>3, <2>4, <2>5 DEF OrderInv
<1>9. ASSUME NEW r \in Row, EditLocally(r)
      PROVE  OrderInv'
  BY <1>1, <1>2, <1>9, Counted DEF EditLocally, CountWrite, serverVars
<1>10. ASSUME NEW r \in Row, PushEdit(r)
       PROVE  OrderInv'
  <2>1. /\ \A w \in Writer : txn[w].phase # "appended"
        /\ \A c \in feed' : c \in feed \/ c.seq = nextSeq
        /\ nextSeq' = nextSeq + 1
        /\ UNCHANGED <<txn, count>>
    BY <1>10 DEF PushEdit, FeedLockFree
  <2>2. SeqsTyped'
    BY <1>1, <2>1 DEF SeqsTyped, Counts
  <2>3. FeedBelowNext'
    BY <1>1, <2>1 DEF OrderInv, FeedBelowNext
  <2>4. OneLockHolder' /\ HolderBetween'
    BY <2>1 DEF OneLockHolder, HolderBetween
  <2>. QED BY <2>2, <2>3, <2>4 DEF OrderInv
<1>11. ASSUME \/ \E r \in Row : PushLosingEdit(r)
              \/ \E u \in User : StartPull(u)
              \/ PullStep
       PROVE  OrderInv'
  BY <1>1, <1>2, <1>11
     DEF PushLosingEdit, StartPull, PullStep, RequestPage, Restart, ApplyPage, LeaveRest, serverVars
<1>12. ASSUME StopPull
       PROVE  OrderInv'
  BY <1>1, <1>2, <1>12, Counted DEF StopPull, serverVars
<1>13. ASSUME UNCHANGED vars
       PROVE  OrderInv'
  BY <1>1, <1>2, <1>13 DEF vars
<1>. QED BY <1>3, <1>4, <1>5, <1>6, <1>7, <1>8, <1>9, <1>10, <1>11, <1>12, <1>13
            DEF Next, TxnStep, PushStep

-----------------------------------------------------------------------------
(* Only a commit and a push add to the feed, and above everything in it. *)
LEMMA AddedAbove ==
    ASSUME OrderInv, [Next]_vars, NEW c \in feed' \ feed, NEW b \in feed
    PROVE  b.seq < c.seq
<1>1. ASSUME NEW w \in Writer, Commit(w)
      PROVE  b.seq < c.seq
  BY <1>1 DEF Commit, OrderInv, HolderBetween
<1>2. ASSUME NEW r \in Row, PushEdit(r)
      PROVE  b.seq < c.seq
  BY <1>2 DEF PushEdit, OrderInv, FeedBelowNext
<1>3. ASSUME \/ \E w \in Writer : AppendChange(w) \/ Rollback(w) \/ \E r \in Row : LockRow(w, r)
             \/ \E u \in User : StartPull(u) \/ \E scope \in Scope : ChangeRoles(u, scope)
             \/ \E r \in Row : EditLocally(r) \/ PushLosingEdit(r)
             \/ PullStep \/ StopPull \/ UNCHANGED vars
      PROVE  FALSE
  <2>1. feed' = feed
    BY <1>3 DEF AppendChange, Rollback, LockRow, StartPull, ChangeRoles, EditLocally,
                PushLosingEdit, PullStep, RequestPage, Restart, ApplyPage, LeaveRest, StopPull,
                serverVars, vars
  <2>. QED BY <2>1
<1>4. ASSUME NEW n \in 0..nextSeq, Restore(n)
      PROVE  FALSE
  BY <1>4 DEF Restore
<1>. QED BY <1>1, <1>2, <1>3, <1>4 DEF Next, TxnStep, PushStep

(* For any number of transactions, rows and readers, no change is committed to *)
(* the feed below one a pull may have read (the advisory lock of               *)
(* record_change, rollbacks that leave gaps and restores included).            *)
THEOREM FeedInOrder == Spec => CommitsInOrder
<1>1. Init => OrderInv
  BY OrderInit
<1>2. OrderInv /\ [Next]_vars => OrderInv'
  BY OrderNext
<1>3. OrderInv /\ [Next]_vars => [\A c \in feed' \ feed : \A b \in feed : b.seq < c.seq]_vars
  BY AddedAbove
<1>. QED BY <1>1, <1>2, <1>3, PTL DEF Spec, CommitsInOrder
-----------------------------------------------------------------------------
(* The operators a page is made with. *)

(* A set of naturals that is not empty and does not go on for ever has a greatest *)
(* member: here the change of the highest seq. *)
LEMMA LastIs ==
    ASSUME NEW S, S \subseteq Change, S # {}, NEW n \in Nat, \A c \in S : c.seq <= n
    PROVE  Last(S) \in S /\ \A c \in S : c.seq <= Last(S).seq
<1> DEFINE Gaps == {n - c.seq : c \in S}
<1>1. \A c \in S : c.seq \in Nat
  BY DEF Change
<1>2. Gaps \subseteq Nat /\ Gaps # {}
  BY <1>1
<1> HIDE DEF Gaps
<1>3. PICK x \in Gaps : \A y \in Gaps : ~(<<y, x>> \in OpToRel(<, Nat))
  BY <1>2, NatLessThanWellFounded, WFMin
<1>4. \A y \in Gaps : ~(y < x)
  BY <1>2, <1>3 DEF OpToRel
<1>5. PICK last \in S : x = n - last.seq
  BY <1>3 DEF Gaps
<1>6. \A c \in S : c.seq <= last.seq
  <2> SUFFICES ASSUME NEW c \in S
               PROVE  c.seq <= last.seq
    OBVIOUS
  <2>1. n - c.seq \in Gaps
    BY DEF Gaps
  <2>2. ~(n - c.seq < n - last.seq)
    BY <1>4, <1>5, <2>1
  <2>. QED BY <1>1, <2>2
<1>7. \E c \in S : \A b \in S : b.seq <= c.seq
  BY <1>6
<1>. QED BY <1>7 DEF Last

(* Lowest takes a beginning of what it is given, and some of it if there is any. *)
LEMMA LowestIs ==
    ASSUME NEW S, S \subseteq Change, IsFiniteSet(S), NEW n \in Nat \ {0}
    PROVE  /\ Lowest(n, S) \subseteq S
           /\ S # {} => Lowest(n, S) # {}
           /\ \A c \in Lowest(n, S), b \in S : b.seq <= c.seq => b \in Lowest(n, S)
<1> DEFINE Under(c) == {b \in S : b.seq < c.seq}
<1>1. \A c \in S : c.seq \in Nat
  BY DEF Change
<1>2. \A c \in S : IsFiniteSet(Under(c)) /\ Cardinality(Under(c)) \in Nat
  <2> SUFFICES ASSUME NEW c \in S
               PROVE  IsFiniteSet(Under(c)) /\ Cardinality(Under(c)) \in Nat
    OBVIOUS
  <2>1. Under(c) \in SUBSET S
    OBVIOUS
  <2> HIDE DEF Under
  <2>2. IsFiniteSet(Under(c))
    BY <2>1, FS_Subset
  <2>. QED BY <2>2, FS_CardinalityType
<1>3. Lowest(n, S) = {c \in S : Cardinality(Under(c)) < n}
  BY DEF Lowest
<1>4. ASSUME S # {}
      PROVE  Lowest(n, S) # {}
  <2> DEFINE Seqs == {c.seq : c \in S}
  <2>1. Seqs \subseteq Nat /\ Seqs # {}
    BY <1>1, <1>4
  <2> HIDE DEF Seqs
  <2>2. PICK x \in Seqs : \A y \in Seqs : ~(<<y, x>> \in OpToRel(<, Nat))
    BY <2>1, NatLessThanWellFounded, WFMin
  <2>3. PICK c \in S : c.seq = x
    BY <2>2 DEF Seqs
  <2>4. \A b \in S : ~(b.seq < c.seq)
    <3> SUFFICES ASSUME NEW b \in S
                 PROVE  ~(b.seq < c.seq)
      OBVIOUS
    <3>1. b.seq \in Seqs
      BY DEF Seqs
    <3>. QED BY <2>1, <2>2, <2>3, <3>1 DEF OpToRel
  <2>5. Under(c) = {}
    BY <2>4
  <2>6. Cardinality(Under(c)) = 0
    BY <2>5, FS_EmptySet
  <2>. QED BY <1>3, <2>6
<1>5. ASSUME NEW c \in Lowest(n, S), NEW b \in S, b.seq <= c.seq
      PROVE  b \in Lowest(n, S)
  <2>1. c \in S /\ Cardinality(Under(c)) < n
    BY <1>3, <1>5
  <2>2. Under(b) \in SUBSET Under(c)
    BY <1>1, <1>5, <2>1
  <2>3. Cardinality(Under(b)) <= Cardinality(Under(c))
    <3> HIDE DEF Under
    <3>. QED BY <1>2, <2>1, <2>2, FS_Subset
  <2>4. Cardinality(Under(b)) \in Nat /\ Cardinality(Under(c)) \in Nat
    BY <1>2, <2>1
  <2>5. Cardinality(Under(b)) < n
    <3> HIDE DEF Under
    <3>. QED BY <2>1, <2>3, <2>4
  <2>. QED BY <1>3, <2>5
<1>6. Lowest(n, S) \subseteq S
  BY <1>3
<1>. QED BY <1>4, <1>5, <1>6

-----------------------------------------------------------------------------
(***************************************************************************)
(* Types.  The feed is finite, a transaction that has begun has a row, and *)
(* a page has nothing past its watermark.                                  *)
(***************************************************************************)
Writing(w) == txn[w].phase # "idle"

TxnsOK ==
    \A w \in Writer : Writing(w) =>
        /\ txn[w].row \in Row
        /\ txn[w].phase = "appended" => txn[w].seq > 0

PageBounded ==
    pull # None /\ pull.page # None => \A c \in pull.page.changes : c.seq <= pull.page.watermark

TypeInv == TypeOK /\ IsFiniteSet(feed) /\ TxnsOK /\ PageBounded

LEMMA TypeInit == Init => TypeInv
<1> SUFFICES ASSUME Init PROVE TypeInv
  OBVIOUS
<1>1. 0 \in WriteId /\ 0 \in 0..MaxRescopes /\ 0 \in 0..MaxRestores /\ 0 \in 0..MaxStops
  BY BoundsAssumption DEF WriteId
<1>2. Absent \in View /\ Unread \in Cursor
  BY <1>1 DEF Absent, View, Unread, Cursor, Scope
<1>3. txn \in [Writer -> Txn] /\ TxnsOK
  BY IdleTxn DEF Init, TxnsOK, Writing
<1>4. roles \in [User -> Scope \ {{}}]
  BY RowsAssumption DEF Init, Scope
<1>5. IsFiniteSet(feed)
  BY FS_EmptySet DEF Init
<1>. QED BY <1>1, <1>2, <1>3, <1>4, <1>5 DEF Init, TypeInv, TypeOK, PageBounded

(* What the server answers to a pull. *)
LEMMA PageIs ==
    ASSUME TypeInv, FeedBelowNext, NEW seq \in Nat, NEW token \in WriteId, NEW scope \in Scope
    PROVE  LET p == PageAfter(seq, token, scope) IN
           /\ p \in Page
           /\ p.scope = scope
           /\ p.changes \subseteq feed
           /\ p.reset => p.watermark = 0
           /\ p.watermark <= seq => p.changes = {}
           /\ \A c \in p.changes : seq < c.seq /\ c.seq <= p.watermark
           /\ p.watermark > seq =>
                 /\ seq > 0 => Holds(seq, token)
                 /\ \E c \in feed : c.seq = p.watermark /\ c.by = p.token
                 /\ \A c \in feed : seq < c.seq /\ c.seq <= p.watermark /\ c.row \in scope =>
                        c \in p.changes
           /\ p.watermark > 0 /\ p.watermark <= seq => seq > 0 /\ p.token = token
<1> DEFINE p == PageAfter(seq, token, scope)
           after == {c \in feed : c.seq > seq}
           scanned == Lowest(PageSize, after)
<1>1. feed \subseteq Change /\ nextSeq \in Nat /\ IsFiniteSet(feed) /\ \A c \in feed : c.seq < nextSeq
  BY DEF TypeInv, TypeOK, FeedBelowNext
<1>2. after \subseteq Change /\ IsFiniteSet(after)
  BY <1>1, FS_Subset
<1>3. PageSize \in Nat \ {0}
  BY BoundsAssumption
<1>4. /\ scanned \subseteq after
      /\ after # {} => scanned # {}
      /\ \A c \in scanned, b \in after : b.seq <= c.seq => b \in scanned
  <2> HIDE DEF after
  <2>. QED BY <1>2, <1>3, LowestIs
<1>5. scanned \subseteq feed /\ \A c \in scanned : c.seq \in Nat /\ c.seq > seq /\ c.by \in WriteId
  BY <1>1, <1>4 DEF Change
<1>6. ASSUME scanned # {}
      PROVE  Last(scanned) \in scanned /\ \A c \in scanned : c.seq <= Last(scanned).seq
  <2> HIDE DEF scanned
  <2>1. scanned \subseteq Change /\ \A c \in scanned : c.seq <= nextSeq
    BY <1>1, <1>5 DEF Change
  <2>. QED BY <1>1, <1>6, <2>1, LastIs
<1>7. CASE seq > 0 /\ ~Holds(seq, token)
  <2>1. p = [changes |-> {}, watermark |-> 0, token |-> 0, scope |-> scope, reset |-> TRUE]
    BY <1>7 DEF PageAfter
  <2>2. 0 \in WriteId
    BY BoundsAssumption DEF WriteId
  <2> HIDE DEF p
  <2>3. p \in Page
    BY <2>1, <2>2 DEF Page
  <2>4. QED BY <2>1, <2>3 DEF p
<1>8. CASE ~(seq > 0 /\ ~Holds(seq, token)) /\ scanned = {}
  <2>1. p = [changes |-> {}, watermark |-> seq, token |-> token, scope |-> scope, reset |-> FALSE]
    BY <1>8 DEF PageAfter
  <2> HIDE DEF p
  <2>2. p \in Page
    BY <2>1 DEF Page
  <2>3. QED BY <2>1, <2>2 DEF p
<1>9. CASE ~(seq > 0 /\ ~Holds(seq, token)) /\ scanned # {}
  <2> DEFINE readable == {c \in scanned : c.row \in scope}
             last == Last(scanned)
  <2>1. p = [changes |-> readable, watermark |-> last.seq, token |-> last.by, scope |-> scope,
             reset |-> FALSE]
    BY <1>9 DEF PageAfter
  <2>2. last \in scanned /\ \A c \in scanned : c.seq <= last.seq
    BY <1>6, <1>9
  <2>3. last \in feed /\ last.seq \in Nat /\ last.seq > seq /\ last.by \in WriteId
    BY <1>5, <2>2
  <2>4. \A c \in feed : seq < c.seq /\ c.seq <= last.seq /\ c.row \in scope => c \in readable
    <3> SUFFICES ASSUME NEW c \in feed, seq < c.seq, c.seq <= last.seq, c.row \in scope,
                        c \notin scanned
                 PROVE  FALSE
      OBVIOUS
    <3>1. c \in after
      BY <1>1 DEF Change
    <3>. QED BY <1>4, <2>2, <3>1
  <2>5. readable \subseteq feed /\ readable \subseteq Change
        /\ \A c \in readable : seq < c.seq /\ c.seq <= last.seq
    BY <1>1, <1>5, <2>2
  <2> HIDE DEF readable, last, p
  <2>6. p \in Page
    BY <2>1, <2>3, <2>5 DEF Page
  <2>7. ~(p.watermark <= seq)
    BY <2>1, <2>3
  <2>. QED BY <1>9, <2>1, <2>3, <2>4, <2>5, <2>6, <2>7 DEF p
<1>. QED BY <1>7, <1>8, <1>9
(* What a page makes of a row: nothing, if it has no image of it; else its last image *)
(* of the row, unless that one is of a master row and older.                          *)
LEMMA ApplyIs ==
    ASSUME local \in [Row -> View], NEW changes, changes \subseteq Change,
           NEW n \in Nat, \A c \in changes : c.seq <= n, NEW r \in Row
    PROVE  /\ Apply(r, changes) \in View
           /\ \/ Apply(r, changes) = local[r] /\ \A c \in changes : c.row # r
              \/ \E c \in changes :
                    /\ c.row = r
                    /\ \A b \in changes : b.row = r => b.seq <= c.seq
                    /\ \/ /\ r \in Master /\ c.version < local[r].version
                          /\ Apply(r, changes) = local[r]
                       \/ /\ r \in Master => c.version >= local[r].version
                          /\ Apply(r, changes) = [version |-> c.version, by |-> c.by]
<1> DEFINE images == {c \in changes : c.row = r}
<1>1. CASE images = {}
  BY <1>1 DEF Apply
<1>2. CASE images # {}
  <2>1. images \subseteq Change /\ \A c \in images : c.seq <= n
    OBVIOUS
  <2>2. Last(images) \in images /\ \A c \in images : c.seq <= Last(images).seq
    <3> HIDE DEF images
    <3>. QED BY <1>2, <2>1, LastIs
  <2>3. PICK c \in images : c = Last(images)
    BY <2>2
  <2>4. /\ c \in changes /\ c.row = r /\ \A b \in changes : b.row = r => b.seq <= c.seq
        /\ c.version \in Nat /\ c.by \in WriteId
    BY <2>2, <2>3 DEF Change
  <2>5. local[r] \in View /\ local[r].version \in Nat
    BY DEF View
  <2>6. Apply(r, changes) = IF r \in Master /\ c.version < local[r].version THEN local[r]
                            ELSE [version |-> c.version, by |-> c.by]
    BY <1>2, <2>3 DEF Apply
  <2>7. [version |-> c.version, by |-> c.by] \in View
    BY <2>4 DEF View
  <2>8. CASE r \in Master /\ c.version < local[r].version
    BY <2>4, <2>5, <2>6, <2>8
  <2>9. CASE ~(r \in Master /\ c.version < local[r].version)
    BY <2>4, <2>5, <2>6, <2>7, <2>9
  <2>. QED BY <2>8, <2>9
<1>. QED BY <1>1, <1>2

(* A step that leaves the feed and its transactions alone. *)
LEMMA ReaderTypes ==
    ASSUME TypeInv, UNCHANGED <<store, feed, nextSeq, txn>>,
           roles' \in [User -> Scope \ {{}}], local' \in [Row -> View],
           edit' \in [Row -> {None} \cup Edit], cursor' \in [User -> Cursor],
           pull' \in {None} \cup Pull, count' \in Counts, PageBounded'
    PROVE  TypeInv'
<1>1. TypeOK'
  BY DEF TypeInv, TypeOK, Counts
<1>. QED BY <1>1 DEF TypeInv, TxnsOK, Writing

(* A step of the server that leaves the roles alone. *)
LEMMA WriterTypes ==
    ASSUME TypeInv, UNCHANGED <<roles, local, cursor, pull>>,
           store' \in [Row -> View], feed' \subseteq Change, IsFiniteSet(feed'),
           nextSeq' \in Nat \ {0}, txn' \in [Writer -> Txn], TxnsOK',
           edit' \in [Row -> {None} \cup Edit], count' \in Counts
    PROVE  TypeInv'
<1>1. TypeOK'
  BY DEF TypeInv, TypeOK, Counts
<1>. QED BY <1>1 DEF TypeInv, PageBounded

(* The change an append adds is well typed. *)
LEMMA FeedGrows ==
    ASSUME TypeInv, NEW seq \in Nat \ {0}, NEW r \in Row, NEW version \in Nat, NEW b \in WriteId,
           feed' = feed \cup {[seq |-> seq, row |-> r, version |-> version, by |-> b]}
    PROVE  feed' \subseteq Change /\ IsFiniteSet(feed')
<1> DEFINE c == [seq |-> seq, row |-> r, version |-> version, by |-> b]
<1>1. c \in Change
  BY DEF Change
<1> HIDE DEF c
<1>2. feed' = feed \cup {c}
  BY DEF c
<1>. QED BY <1>1, <1>2, FS_AddElement DEF TypeInv, TypeOK

LEMMA TypeNext == ASSUME TypeInv, OrderInv, [Next]_vars PROVE TypeInv'
<1>1. /\ store \in [Row -> View] /\ feed \subseteq Change /\ nextSeq \in Nat \ {0}
      /\ txn \in [Writer -> Txn] /\ roles \in [User -> Scope \ {{}}]
      /\ local \in [Row -> View] /\ edit \in [Row -> {None} \cup Edit]
      /\ cursor \in [User -> Cursor] /\ pull \in {None} \cup Pull /\ count \in Counts
      /\ IsFiniteSet(feed) /\ TxnsOK /\ PageBounded /\ FeedBelowNext
  BY DEF TypeInv, TypeOK, Counts, OrderInv
<1>2. \A r \in Row : store[r].version \in Nat /\ local[r].version \in Nat
  BY <1>1 DEF View
<1>3. ASSUME NEW w \in Writer, NEW r \in Row, LockRow(w, r)
      PROVE  TypeInv'
  <2> DEFINE t == [Idle EXCEPT !.phase = "rowLocked", !.row = r, !.by = NewWrite]
  <2>1. /\ count' \in Counts /\ NewWrite \in WriteId
        /\ txn' = [txn EXCEPT ![w] = t]
        /\ UNCHANGED <<store, feed, nextSeq, roles, deviceVars>>
    BY <1>1, <1>3, Counted DEF LockRow, CountWrite
  <2>2. t \in Txn /\ t.phase = "rowLocked" /\ t.row = r
    BY <2>1, IdleTxn DEF Txn, Idle
  <2> HIDE DEF t
  <2>3. txn' \in [Writer -> Txn] /\ TxnsOK'
    BY <1>1, <2>1, <2>2 DEF TxnsOK, Writing
  <2>. QED BY <1>1, <2>1, <2>3, WriterTypes DEF deviceVars
<1>4. ASSUME NEW w \in Writer, AppendChange(w)
      PROVE  TypeInv'
  <2> DEFINE t == [txn[w] EXCEPT !.phase = "appended", !.seq = nextSeq]
  <2>1. /\ txn' = [txn EXCEPT ![w] = t]
        /\ nextSeq' = nextSeq + 1
        /\ Writing(w)
        /\ UNCHANGED <<store, feed, roles, deviceVars, count>>
    BY <1>4 DEF AppendChange, Writing
  <2>2. t \in Txn /\ t.phase = "appended" /\ t.seq = nextSeq /\ t.row = txn[w].row
    BY <1>1 DEF Txn
  <2> HIDE DEF t
  <2>3. txn' \in [Writer -> Txn] /\ TxnsOK'
    BY <1>1, <2>1, <2>2 DEF TxnsOK, Writing
  <2>. QED BY <1>1, <2>1, <2>3, WriterTypes DEF deviceVars
<1>5. ASSUME NEW w \in Writer, Commit(w)
      PROVE  TypeInv'
  <2> DEFINE row == txn[w].row
             seq == txn[w].seq
             b == txn[w].by
             next == store[row].version + 1
  <2>1. /\ txn[w].phase = "appended"
        /\ store' = [store EXCEPT ![row] = [version |-> next, by |-> b]]
        /\ feed' = feed \cup {[seq |-> seq, row |-> row, version |-> next, by |-> b]}
        /\ txn' = [txn EXCEPT ![w] = Idle]
        /\ UNCHANGED <<nextSeq, roles, deviceVars, count>>
    BY <1>5 DEF Commit
  <2>2. row \in Row /\ seq \in Nat \ {0} /\ b \in WriteId
    BY <1>1, <2>1 DEF TxnsOK, Writing, Txn
  <2>3. next \in Nat
    BY <1>2, <2>2
  <2>4. [version |-> next, by |-> b] \in View
    BY <2>2, <2>3 DEF View
  <2>5. txn' \in [Writer -> Txn] /\ TxnsOK'
    BY <1>1, <2>1, IdleTxn DEF TxnsOK, Writing
  <2> HIDE DEF row, seq, b, next
  <2>6. store' \in [Row -> View]
    BY <1>1, <2>1, <2>4
  <2>7. feed' \subseteq Change /\ IsFiniteSet(feed')
    BY <2>1, <2>2, <2>3, FeedGrows
  <2>. QED BY <1>1, <2>1, <2>5, <2>6, <2>7, WriterTypes DEF deviceVars
<1>6. ASSUME NEW w \in Writer, Rollback(w)
      PROVE  TypeInv'
  <2>1. /\ txn' = [txn EXCEPT ![w] = Idle]
        /\ UNCHANGED <<store, feed, nextSeq, roles, deviceVars, count>>
    BY <1>6 DEF Rollback
  <2>2. txn' \in [Writer -> Txn] /\ TxnsOK'
    BY <1>1, <2>1, IdleTxn DEF TxnsOK, Writing
  <2>. QED BY <1>1, <2>1, <2>2, WriterTypes DEF deviceVars
<1>7. ASSUME NEW u \in User, NEW scope \in Scope, ChangeRoles(u, scope)
      PROVE  TypeInv'
  <2>1. /\ count' \in Counts
        /\ roles' \in [User -> Scope \ {{}}]
        /\ UNCHANGED <<store, feed, nextSeq, txn, deviceVars>>
    BY <1>1, <1>7, Counted DEF ChangeRoles
  <2>2. PageBounded'
    BY <1>1, <2>1 DEF PageBounded, deviceVars
  <2>. QED BY <1>1, <2>1, <2>2, ReaderTypes DEF deviceVars
<1>8. ASSUME NEW n \in 0..nextSeq, Restore(n)
      PROVE  TypeInv'
  <2> DEFINE kept == {c \in feed : c.seq <= n}
             of(r) == {c \in kept : c.row = r}
             back(r) == IF of(r) = {} THEN Absent
                        ELSE [version |-> Last(of(r)).version, by |-> Last(of(r)).by]
  <2>1. /\ count' \in Counts
        /\ feed' = kept
        /\ nextSeq' = n + 1
        /\ store' = [r \in Row |-> back(r)]
        /\ txn' = [w \in Writer |-> Idle]
        /\ UNCHANGED <<roles, deviceVars>>
    BY <1>1, <1>8, Counted DEF Restore
  <2>2. n \in Nat
    BY <1>1
  <2>3. ASSUME NEW r \in Row
        PROVE  back(r) \in View
    <3>1. Absent \in View
      BY BoundsAssumption DEF Absent, View, WriteId
    <3>2. ASSUME of(r) # {}
          PROVE  Last(of(r)) \in of(r)
      <4>1. of(r) \subseteq Change /\ \A c \in of(r) : c.seq <= n
        BY <1>1
      <4> HIDE DEF of
      <4>. QED BY <2>2, <3>2, <4>1, LastIs
    <3>3. \A c \in of(r) : [version |-> c.version, by |-> c.by] \in View
      BY <1>1 DEF Change, View
    <3> HIDE DEF of
    <3>. QED BY <3>1, <3>2, <3>3
  <2>4. store' \in [Row -> View]
    <3> HIDE DEF back
    <3>. QED BY <2>1, <2>3
  <2>5. feed' \subseteq Change /\ IsFiniteSet(feed')
    BY <1>1, <2>1, FS_Subset
  <2>6. txn' \in [Writer -> Txn] /\ TxnsOK'
    BY <2>1, IdleTxn DEF TxnsOK, Writing
  <2>. QED BY <1>1, <2>1, <2>2, <2>4, <2>5, <2>6, WriterTypes DEF deviceVars
<1>9. ASSUME NEW r \in Row, EditLocally(r)
      PROVE  TypeInv'
  <2> DEFINE view == [version |-> local[r].version + 1, by |-> NewWrite]
             e == [base |-> local[r].version, by |-> NewWrite]
  <2>1. /\ count' \in Counts /\ NewWrite \in WriteId
        /\ local' = [local EXCEPT ![r] = view]
        /\ edit' = [edit EXCEPT ![r] = e]
        /\ UNCHANGED <<serverVars, cursor, pull>>
    BY <1>1, <1>9, Counted DEF EditLocally, CountWrite
  <2>2. view \in View /\ e \in Edit
    BY <1>2, <2>1 DEF View, Edit
  <2> HIDE DEF view, e
  <2>3. local' \in [Row -> View] /\ edit' \in [Row -> {None} \cup Edit]
    BY <1>1, <2>1, <2>2
  <2>4. PageBounded'
    BY <1>1, <2>1 DEF PageBounded
  <2>. QED BY <1>1, <2>1, <2>3, <2>4, ReaderTypes DEF serverVars
<1>10. ASSUME NEW r \in Row, PushEdit(r)
       PROVE  TypeInv'
  <2> DEFINE base == edit[r].base
             b == edit[r].by
  <2>1. /\ edit[r] # None
        /\ store' = [store EXCEPT ![r] = [version |-> base + 1, by |-> b]]
        /\ feed' = feed \cup {[seq |-> nextSeq, row |-> r, version |-> base + 1, by |-> b]}
        /\ nextSeq' = nextSeq + 1
        /\ edit' = [edit EXCEPT ![r] = None]
        /\ UNCHANGED <<txn, roles, local, cursor, pull, count>>
    BY <1>10 DEF PushEdit
  <2>2. base + 1 \in Nat /\ b \in WriteId
    BY <1>1, <2>1 DEF Edit
  <2>3. [version |-> base + 1, by |-> b] \in View
    BY <2>2 DEF View
  <2> HIDE DEF base, b
  <2>4. store' \in [Row -> View] /\ edit' \in [Row -> {None} \cup Edit]
    BY <1>1, <2>1, <2>3
  <2>5. feed' \subseteq Change /\ IsFiniteSet(feed')
    BY <1>1, <2>1, <2>2, FeedGrows
  <2>6. TxnsOK'
    BY <1>1, <2>1 DEF TxnsOK, Writing
  <2>. QED BY <1>1, <2>1, <2>4, <2>5, <2>6, WriterTypes
<1>11. ASSUME NEW r \in Row, PushLosingEdit(r)
       PROVE  TypeInv'
  <2>1. /\ edit' = [edit EXCEPT ![r] = None]
        /\ local' = IF r \in Master THEN [local EXCEPT ![r] = store[r]] ELSE local
        /\ UNCHANGED <<serverVars, cursor, pull, count>>
    BY <1>11 DEF PushLosingEdit
  <2>2. local' \in [Row -> View] /\ edit' \in [Row -> {None} \cup Edit]
    BY <1>1, <2>1
  <2>3. PageBounded'
    BY <1>1, <2>1 DEF PageBounded
  <2>. QED BY <1>1, <2>1, <2>2, <2>3, ReaderTypes DEF serverVars
<1>12. ASSUME NEW u \in User, StartPull(u)
       PROVE  TypeInv'
  <2>1. /\ pull' = [user |-> u, seq |-> cursor[u].seq, token |-> cursor[u].token,
                    scope |-> cursor[u].scope, saved |-> cursor[u].scope,
                    restarted |-> FALSE, pages |-> 0, page |-> None]
        /\ UNCHANGED <<serverVars, local, edit, cursor, count>>
    BY <1>12 DEF StartPull
  <2>2. cursor[u].seq \in Nat /\ cursor[u].token \in WriteId /\ cursor[u].scope \in Scope
    BY <1>1 DEF Cursor
  <2>3. 0 \in 0..MaxPages
    BY BoundsAssumption
  <2>4. pull' \in Pull /\ pull'.page = None
    BY <2>1, <2>2, <2>3 DEF Pull
  <2>5. PageBounded'
    BY <2>4 DEF PageBounded
  <2>. QED BY <1>1, <2>1, <2>4, <2>5, ReaderTypes DEF serverVars
<1>13. ASSUME RequestPage
       PROVE  TypeInv'
  <2>1. pull \in Pull /\ roles[pull.user] \in Scope /\ pull.pages < MaxPages
    BY <1>1, <1>13 DEF RequestPage, Pull
  <2>2. PICK p : p = PageAfter(pull.seq, pull.token, roles[pull.user])
    OBVIOUS
  <2>3. p \in Page /\ \A c \in p.changes : c.seq <= p.watermark
    <3>1. pull.seq \in Nat /\ pull.token \in WriteId
      BY <2>1 DEF Pull
    <3>. QED BY <1>1, <2>1, <2>2, <3>1, PageIs
  <2>4. /\ pull' = [pull EXCEPT !.page = p, !.pages = @ + 1]
        /\ UNCHANGED <<serverVars, local, edit, cursor, count>>
    BY <1>13, <2>2 DEF RequestPage
  <2>5. pull.pages + 1 \in 0..MaxPages
    BY <2>1, BoundsAssumption DEF Pull
  <2>6. pull' \in Pull /\ pull'.page = p
    BY <2>1, <2>3, <2>4, <2>5 DEF Pull
  <2>7. PageBounded'
    BY <2>3, <2>6 DEF PageBounded
  <2>. QED BY <1>1, <2>4, <2>6, <2>7, ReaderTypes DEF serverVars
<1>14. ASSUME Restart
       PROVE  TypeInv'
  <2>1. /\ pull \in Pull /\ pull.page \in Page
        /\ pull' = [pull EXCEPT !.seq = 0, !.token = 0, !.scope = pull.page.scope,
                                !.restarted = TRUE, !.page = None]
        /\ cursor' = [cursor EXCEPT ![pull.user] =
                         [seq |-> 0, token |-> 0, scope |-> pull.page.scope]]
        /\ UNCHANGED <<serverVars, local, edit, count>>
    BY <1>1, <1>14 DEF Restart, Pull
  <2>2. pull.page.scope \in Scope /\ 0 \in WriteId
    BY <2>1, BoundsAssumption DEF Page, WriteId
  <2>3. pull' \in Pull /\ pull'.page = None
    BY <2>1, <2>2 DEF Pull
  <2>4. [seq |-> 0, token |-> 0, scope |-> pull.page.scope] \in Cursor
    BY <2>2 DEF Cursor
  <2>5. cursor' \in [User -> Cursor]
    BY <1>1, <2>1, <2>4
  <2>6. PageBounded'
    BY <2>3 DEF PageBounded
  <2>. QED BY <1>1, <2>1, <2>3, <2>5, <2>6, ReaderTypes DEF serverVars
<1>15. ASSUME ApplyPage
       PROVE  TypeInv'
  <2> DEFINE page == pull.page
             moved == page.watermark > pull.seq
  <2>1. /\ pull # None /\ page # None
        /\ local' = [r \in Row |-> Apply(r, page.changes)]
        /\ cursor' = [cursor EXCEPT ![pull.user] =
               IF moved THEN [seq |-> page.watermark, token |-> page.token, scope |-> page.scope]
               ELSE IF page.scope # pull.saved
               THEN [seq |-> pull.seq, token |-> pull.token, scope |-> page.scope]
               ELSE @]
        /\ pull' = IF moved
                   THEN [pull EXCEPT !.seq = page.watermark, !.token = page.token,
                                     !.scope = page.scope, !.page = None]
                   ELSE None
        /\ UNCHANGED <<serverVars, edit, count>>
    BY <1>15 DEF ApplyPage
  <2>2. pull \in Pull /\ page \in Page
    BY <1>1, <2>1 DEF Pull
  <2>3. /\ page.changes \subseteq Change /\ page.watermark \in Nat /\ page.token \in WriteId
        /\ page.scope \in Scope /\ pull.seq \in Nat /\ pull.token \in WriteId
        /\ \A c \in page.changes : c.seq <= page.watermark
    BY <1>1, <2>1, <2>2 DEF Page, Pull, PageBounded
  <2>4. local' \in [Row -> View]
    <3> HIDE DEF page
    <3>1. \A r \in Row : Apply(r, page.changes) \in View
      BY <1>1, <2>3, ApplyIs
    <3>. QED BY <2>1, <3>1
  <2>5. cursor' \in [User -> Cursor]
    <3>1. /\ [seq |-> page.watermark, token |-> page.token, scope |-> page.scope] \in Cursor
          /\ [seq |-> pull.seq, token |-> pull.token, scope |-> page.scope] \in Cursor
      BY <2>3 DEF Cursor
    <3> HIDE DEF page, moved
    <3>. QED BY <1>1, <2>1, <3>1
  <2>6. pull' \in {None} \cup Pull /\ (pull' # None => pull'.page = None)
    <3>1. CASE moved
      BY <2>1, <2>2, <2>3, <3>1 DEF Pull
    <3>2. CASE ~moved
      BY <2>1, <3>2
    <3>. QED BY <3>1, <3>2
  <2>7. PageBounded'
    BY <2>6 DEF PageBounded
  <2>. QED BY <1>1, <2>1, <2>4, <2>5, <2>6, <2>7, ReaderTypes DEF serverVars
<1>16. ASSUME LeaveRest \/ StopPull
       PROVE  TypeInv'
  <2>1. pull' = None /\ count' \in Counts /\ UNCHANGED <<serverVars, local, edit, cursor>>
    BY <1>1, <1>16, Counted DEF LeaveRest, StopPull
  <2>2. PageBounded'
    BY <2>1 DEF PageBounded
  <2>. QED BY <1>1, <2>1, <2>2, ReaderTypes DEF serverVars
<1>17. ASSUME UNCHANGED vars
       PROVE  TypeInv'
  <2>1. PageBounded'
    BY <1>1, <1>17 DEF PageBounded, vars
  <2>. QED BY <1>1, <1>17, <2>1, ReaderTypes DEF vars
<1>. QED BY <1>3, <1>4, <1>5, <1>6, <1>7, <1>8, <1>9, <1>10, <1>11, <1>12, <1>13, <1>14, <1>15,
            <1>16, <1>17
         DEF Next, TxnStep, PushStep, PullStep

(* Every variable is well typed in every reachable state, the pages of pulls and the *)
(* rows a page or a restore leaves behind included (pull, pullSince, _apply).         *)
THEOREM ChangeFeedTypeOK == Spec => []TypeOK
<1> DEFINE I == TypeInv /\ OrderInv
<1>1. Init => I
  BY TypeInit, OrderInit
<1>2. I /\ [Next]_vars => I'
  BY TypeNext, OrderNext
<1>3. I => TypeOK
  BY DEF TypeInv
<1> HIDE DEF I
<1>. QED BY <1>1, <1>2, <1>3, PTL DEF Spec
-----------------------------------------------------------------------------
(***************************************************************************)
(* Writes.  A write id that a change, a cursor or a page names is spent:   *)
(* no transaction and no waiting edit will write it again, so a seq given  *)
(* out a second time carries another token.                                *)
(***************************************************************************)
Spent(b) ==
    /\ b <= count.writes
    /\ \A w \in Writer : Writing(w) => txn[w].by # b
    /\ \A r \in Row : edit[r] # None => edit[r].by # b

OneWriteEach ==
    /\ \A w \in Writer : Writing(w) => txn[w].by <= count.writes
    /\ \A r \in Row : edit[r] # None => edit[r].by <= count.writes
    /\ \A v, w \in Writer : Writing(v) /\ Writing(w) /\ txn[v].by = txn[w].by => v = w
    /\ \A q, r \in Row : edit[q] # None /\ edit[r] # None /\ edit[q].by = edit[r].by => q = r
    /\ \A w \in Writer, r \in Row : Writing(w) /\ edit[r] # None => txn[w].by # edit[r].by

NamesSpent ==
    /\ \A c \in feed : Spent(c.by)
    /\ \A u \in User : cursor[u].seq > 0 => Spent(cursor[u].token)
    /\ pull # None => /\ pull.seq > 0 => Spent(pull.token)
                      /\ pull.page # None /\ pull.page.watermark > 0 => Spent(pull.page.token)

WritesInv == OneWriteEach /\ NamesSpent

(***************************************************************************)
(* The feed: one change per seq, the versions of a row rise with the seqs, *)
(* and the row is as its last change left it.                              *)
(***************************************************************************)
FeedRises ==
    /\ \A c, d \in feed : c.seq = d.seq => c = d
    /\ \A c, d \in feed : c.row = d.row /\ c.seq < d.seq => c.version < d.version
    /\ \A c \in feed : c.version <= store[c.row].version

OfFeed(r, view) ==
    \E c \in feed : c.row = r /\ c.version = view.version /\ c.by = view.by

StoreIsLast == \A r \in Row : store[r].version > 0 => OfFeed(r, store[r])

FeedInv == FeedRises /\ StoreIsLast

LEMMA HistoryInit == Init => WritesInv /\ FeedInv
<1> SUFFICES ASSUME Init PROVE WritesInv /\ FeedInv
  OBVIOUS
<1>1. \A w \in Writer : ~Writing(w)
  BY IdleTxn DEF Init, Writing
<1>2. \A r \in Row : edit[r] = None /\ store[r].version = 0
  BY DEF Init, Absent
<1>3. \A u \in User : cursor[u].seq = 0
  BY DEF Init, Unread
<1>. QED BY <1>1, <1>2, <1>3
         DEF Init, WritesInv, OneWriteEach, NamesSpent, FeedInv, FeedRises, StoreIsLast

(* What is spent stays spent, and every write is still of one transaction or edit, *)
(* in a step that begins none.                                                     *)
WriteOf(w) == Writing(w)' => Writing(w) /\ txn'[w].by = txn[w].by
EditOf(r) == edit'[r] # None => edit[r] # None /\ edit'[r].by = edit[r].by

LEMMA NoNewWrite ==
    ASSUME WritesInv, count'.writes = count.writes,
           \A w \in Writer : WriteOf(w), \A r \in Row : EditOf(r)
    PROVE  OneWriteEach' /\ \A b : Spent(b) => Spent(b)'
<1>1. OneWriteEach'
  BY DEF WritesInv, OneWriteEach, WriteOf, EditOf
<1>2. \A b : Spent(b) => Spent(b)'
  BY DEF Spent, WriteOf, EditOf
<1>. QED BY <1>1, <1>2

(* A step that names nothing new. *)
LEMMA NothingNamed ==
    ASSUME WritesInv, OneWriteEach', \A b : Spent(b) => Spent(b)',
           feed' \subseteq feed, UNCHANGED <<cursor, pull>>
    PROVE  WritesInv'
BY DEF WritesInv, NamesSpent

(* The same of a step that appends a change. *)
LEMMA ChangeNamed ==
    ASSUME WritesInv, OneWriteEach', \A b : Spent(b) => Spent(b)',
           NEW c, feed' = feed \cup {c}, Spent(c.by)', UNCHANGED <<cursor, pull>>
    PROVE  WritesInv'
<1>1. \A d \in feed' : Spent(d.by)'
  BY DEF WritesInv, NamesSpent
<1>. QED BY <1>1 DEF WritesInv, NamesSpent

(* What a new change leaves of the feed's order. *)
LEMMA AppendRises ==
    ASSUME TypeInv, FeedInv, NEW seq \in Nat, NEW r \in Row, NEW b,
           \A d \in feed : d.seq < seq,
           feed' = feed \cup
               {[seq |-> seq, row |-> r, version |-> store[r].version + 1, by |-> b]},
           store' = [store EXCEPT ![r] = [version |-> store[r].version + 1, by |-> b]]
    PROVE  FeedInv'
<1> DEFINE next == store[r].version + 1
           c == [seq |-> seq, row |-> r, version |-> next, by |-> b]
<1>1. /\ store \in [Row -> View] /\ feed \subseteq Change
      /\ \A q \in Row : store[q].version \in Nat
  BY DEF TypeInv, TypeOK, View
<1>2. next \in Nat /\ next > store[r].version
  BY <1>1
<1>3. feed' = feed \cup {c} /\ c.seq = seq /\ c.row = r /\ c.version = next /\ c.by = b
  OBVIOUS
<1>4. \A q \in Row : store'[q] = IF q = r THEN [version |-> next, by |-> b] ELSE store[q]
  BY <1>1
<1>5. \A d \in feed : d.seq \in Nat /\ d.row \in Row /\ d.version \in Nat
  BY <1>1 DEF Change
<1> HIDE DEF c, next
<1>6. \A d \in feed : d.row = r => d.version < next
  BY <1>1, <1>2, <1>5 DEF FeedInv, FeedRises
<1>7. \A d \in feed : d.seq < c.seq
  BY <1>3
<1>8. FeedRises'
  <2>1. \A d, e \in feed' : d.seq = e.seq => d = e
    BY <1>3, <1>5, <1>7 DEF FeedInv, FeedRises
  <2>2. \A d, e \in feed' : d.row = e.row /\ d.seq < e.seq => d.version < e.version
    <3> SUFFICES ASSUME NEW d \in feed', NEW e \in feed', d.row = e.row, d.seq < e.seq
                 PROVE  d.version < e.version
      OBVIOUS
    <3>1. CASE e \in feed
      <4>1. d \in feed
        BY <1>3, <1>5, <1>7, <3>1
      <4>. QED BY <3>1, <4>1 DEF FeedInv, FeedRises
    <3>2. CASE e = c
      <4>1. d \in feed
        BY <1>3, <3>2
      <4>. QED BY <1>3, <1>6, <3>2, <4>1
    <3>. QED BY <1>3, <3>1, <3>2
  <2>3. \A d \in feed' : d.version <= store'[d.row].version
    <3>1. \A d \in feed : d.version <= store'[d.row].version
      BY <1>2, <1>4, <1>5, <1>6 DEF FeedInv, FeedRises
    <3>2. c.version <= store'[c.row].version
      BY <1>2, <1>3, <1>4
    <3>. QED BY <1>3, <3>1, <3>2
  <2>. QED BY <2>1, <2>2, <2>3 DEF FeedRises
<1>9. StoreIsLast'
  <2> SUFFICES ASSUME NEW q \in Row, store'[q].version > 0
               PROVE  OfFeed(q, store[q])'
    BY DEF StoreIsLast
  <2>1. CASE q = r
    BY <1>3, <1>4, <2>1 DEF OfFeed
  <2>2. CASE q # r
    BY <1>3, <1>4, <2>2 DEF FeedInv, StoreIsLast, OfFeed
  <2>. QED BY <2>1, <2>2
<1>. QED BY <1>8, <1>9 DEF FeedInv

(***************************************************************************)
(* What a position names: a step takes no change from below one that is    *)
(* still there and adds none, and brings back none that was lost.          *)
(***************************************************************************)
FeedKeeps ==
    \A seq \in Nat, token \in WriteId :
        Spent(token) /\ Holds(seq, token)' =>
            /\ Holds(seq, token)
            /\ \A c : c.seq <= seq => (c \in feed' <=> c \in feed)

LEMMA AppendKeeps ==
    ASSUME TypeInv, NEW c, c.seq \in Nat, ~Spent(c.by), feed' = feed \cup {c},
           \A d \in feed : d.seq < c.seq
    PROVE  FeedKeeps
<1> SUFFICES ASSUME NEW seq \in Nat, NEW token \in WriteId, Spent(token), Holds(seq, token)'
             PROVE  /\ Holds(seq, token)
                    /\ \A b : b.seq <= seq => (b \in feed' <=> b \in feed)
  BY DEF FeedKeeps
<1>1. PICK d \in feed' : d.seq = seq /\ d.by = token
  BY DEF Holds
<1>2. d \in feed
  BY <1>1
<1>3. seq < c.seq
  BY <1>1, <1>2
<1>4. ~(c.seq <= seq)
  BY <1>3
<1>. QED BY <1>1, <1>2, <1>4 DEF Holds
LEMMA HistoryNext ==
    ASSUME TypeInv, OrderInv, WritesInv, FeedInv, [Next]_vars
    PROVE  WritesInv' /\ FeedInv' /\ FeedKeeps
<1>1. /\ store \in [Row -> View] /\ feed \subseteq Change /\ nextSeq \in Nat
      /\ txn \in [Writer -> Txn] /\ edit \in [Row -> {None} \cup Edit]
      /\ cursor \in [User -> Cursor] /\ pull \in {None} \cup Pull /\ count \in Counts
  BY DEF TypeInv, TypeOK, Counts
<1>2. /\ count.writes \in Nat
      /\ \A w \in Writer : txn[w].by \in Nat
      /\ \A r \in Row : edit[r] # None => edit[r].by \in Nat /\ edit[r].base \in Nat
      /\ \A c \in feed : c.seq \in Nat
  BY <1>1, BoundsAssumption DEF Counts, WriteId, Txn, Edit, Change
<1>3. ASSUME UNCHANGED <<store, feed>>
      PROVE  FeedInv' /\ FeedKeeps
  <2>1. FeedInv'
    BY <1>3 DEF FeedInv, FeedRises, StoreIsLast, OfFeed
  <2>2. FeedKeeps
    BY <1>3 DEF FeedKeeps, Holds
  <2>. QED BY <2>1, <2>2
<1>4. ASSUME count'.writes = count.writes,
             \A w \in Writer : WriteOf(w), \A r \in Row : EditOf(r)
      PROVE  OneWriteEach' /\ \A b : Spent(b) => Spent(b)'
  BY <1>4, NoNewWrite
<1>5. ASSUME NEW w \in Writer, NEW r \in Row, LockRow(w, r)
      PROVE  WritesInv' /\ FeedInv' /\ FeedKeeps
  <2> DEFINE t == [Idle EXCEPT !.phase = "rowLocked", !.row = r, !.by = NewWrite]
  <2>1. /\ count'.writes = NewWrite
        /\ txn' = [txn EXCEPT ![w] = t]
        /\ UNCHANGED <<store, feed, edit, cursor, pull>>
    BY <1>1, <1>5 DEF LockRow, CountWrite, deviceVars, NewWrite, Counts
  <2>2. t.by = NewWrite
    BY DEF Idle
  <2>3. NewWrite > count.writes /\ NewWrite \in Nat
    BY <1>2 DEF NewWrite
  <2> HIDE DEF t
  <2>4. \A v \in Writer : txn'[v] = IF v = w THEN t ELSE txn[v]
    BY <1>1, <2>1
  <2>5. OneWriteEach'
    BY <1>2, <2>1, <2>2, <2>3, <2>4 DEF WritesInv, OneWriteEach, Writing
  <2>6. ASSUME NEW b \in WriteId, Spent(b)
        PROVE  Spent(b)'
    <3>1. b \in Nat
      BY DEF WriteId
    <3>. QED BY <1>2, <2>1, <2>2, <2>3, <2>4, <2>6, <3>1 DEF Spent, Writing
  <2>7. NamesSpent'
    BY <1>1, <2>1, <2>6 DEF WritesInv, NamesSpent, Change, Cursor, Pull, Page
  <2>. QED BY <1>3, <2>1, <2>5, <2>7 DEF WritesInv
<1>6. ASSUME NEW w \in Writer, AppendChange(w)
      PROVE  WritesInv' /\ FeedInv' /\ FeedKeeps
  <2>1. /\ txn' = [txn EXCEPT ![w].phase = "appended", ![w].seq = nextSeq]
        /\ Writing(w)
        /\ UNCHANGED <<store, feed, edit, cursor, pull, count>>
    BY <1>6 DEF AppendChange, deviceVars, Writing
  <2>2. \A v \in Writer : WriteOf(v)
    BY <1>1, <2>1 DEF WriteOf, Writing, Txn
  <2>3. \A r \in Row : EditOf(r)
    BY <2>1 DEF EditOf
  <2>. QED BY <1>3, <1>4, <2>1, <2>2, <2>3, NothingNamed
<1>7. ASSUME NEW w \in Writer, Commit(w)
      PROVE  WritesInv' /\ FeedInv' /\ FeedKeeps
  <2>a. PICK row, seq, b : row = txn[w].row /\ seq = txn[w].seq /\ b = txn[w].by
    OBVIOUS
  <2>b. PICK c : c = [seq |-> seq, row |-> row, version |-> store[row].version + 1, by |-> b]
    OBVIOUS
  <2>1. /\ txn[w].phase = "appended"
        /\ store' = [store EXCEPT ![row] = [version |-> store[row].version + 1, by |-> b]]
        /\ feed' = feed \cup {c}
        /\ txn' = [txn EXCEPT ![w] = Idle]
        /\ UNCHANGED <<edit, cursor, pull, count>>
    BY <1>7, <2>a, <2>b DEF Commit, deviceVars
  <2>2. /\ Writing(w) /\ row \in Row /\ seq \in Nat /\ b \in Nat
        /\ \A d \in feed : d.seq < seq
    BY <1>1, <1>2, <2>1, <2>a DEF TypeInv, TxnsOK, Writing, Txn, OrderInv, HolderBetween
  <2>3. FeedInv'
    BY <2>1, <2>2, <2>b, AppendRises
  <2>4. c.seq = seq /\ c.by = b
    BY <2>b
  <2>5. \A v \in Writer : txn'[v] = IF v = w THEN Idle ELSE txn[v]
    BY <1>1, <2>1
  <2>6. \A v \in Writer : WriteOf(v)
    BY <2>5, IdleTxn DEF WriteOf, Writing
  <2>7. \A r \in Row : EditOf(r)
    BY <2>1 DEF EditOf
  <2>8. OneWriteEach' /\ \A x : Spent(x) => Spent(x)'
    BY <1>4, <2>1, <2>6, <2>7
  <2>9. Spent(b)'
    BY <2>1, <2>2, <2>5, <2>a, IdleTxn DEF Spent, WritesInv, OneWriteEach, Writing
  <2>10. WritesInv'
    BY <2>1, <2>4, <2>8, <2>9, ChangeNamed
  <2>11. ~Spent(b)
    BY <2>2, <2>a DEF Spent
  <2>12. FeedKeeps
    BY <2>1, <2>2, <2>4, <2>11, AppendKeeps
  <2>. QED BY <2>3, <2>10, <2>12
<1>8. ASSUME NEW w \in Writer, Rollback(w)
      PROVE  WritesInv' /\ FeedInv' /\ FeedKeeps
  <2>1. /\ txn' = [txn EXCEPT ![w] = Idle]
        /\ UNCHANGED <<store, feed, edit, cursor, pull, count>>
    BY <1>8 DEF Rollback, deviceVars
  <2>2. \A v \in Writer : WriteOf(v)
    BY <1>1, <2>1, IdleTxn DEF WriteOf, Writing
  <2>3. \A r \in Row : EditOf(r)
    BY <2>1 DEF EditOf
  <2>. QED BY <1>3, <1>4, <2>1, <2>2, <2>3, NothingNamed
<1>9. ASSUME NEW n \in 0..nextSeq, Restore(n)
      PROVE  WritesInv' /\ FeedInv' /\ FeedKeeps
  <2> DEFINE kept == {c \in feed : c.seq <= n}
             of(r) == {c \in kept : c.row = r}
             back(r) == IF of(r) = {} THEN Absent
                        ELSE [version |-> Last(of(r)).version, by |-> Last(of(r)).by]
  <2>1. /\ count'.writes = count.writes
        /\ feed' = kept
        /\ store' = [r \in Row |-> back(r)]
        /\ txn' = [w \in Writer |-> Idle]
        /\ UNCHANGED <<edit, cursor, pull>>
    BY <1>1, <1>9 DEF Restore, deviceVars, Counts
  <2>2. n \in Nat
    BY <1>1
  <2>3. \A v \in Writer : WriteOf(v)
    BY <2>1, IdleTxn DEF WriteOf, Writing
  <2>4. \A r \in Row : EditOf(r)
    BY <2>1 DEF EditOf
  <2>5. WritesInv'
    BY <1>4, <2>1, <2>3, <2>4, NothingNamed
  <2>6. ASSUME NEW r \in Row, of(r) # {}
        PROVE  /\ Last(of(r)) \in of(r)
               /\ \A c \in of(r) : c.seq <= Last(of(r)).seq
    <3>1. of(r) \subseteq Change /\ \A c \in of(r) : c.seq <= n
      BY <1>1
    <3> HIDE DEF of
    <3>. QED BY <2>2, <2>6, <3>1, LastIs
  <2>7. FeedRises'
    <3>1. \A c \in kept : c.version <= store'[c.row].version
      <4> SUFFICES ASSUME NEW c \in kept
                   PROVE  c.version <= store'[c.row].version
        OBVIOUS
      <4>1. c.row \in Row /\ c.version \in Nat /\ c \in of(c.row)
        BY <1>1 DEF Change
      <4>2. PICK last \in of(c.row) : last = Last(of(c.row)) /\ c.seq <= last.seq
        BY <2>6, <4>1
      <4>3. store'[c.row].version = last.version
        BY <2>1, <4>1, <4>2
      <4>4. c.version <= last.version
        <5>1. /\ last \in feed /\ c \in feed /\ last.row = c.row
              /\ c.seq \in Nat /\ last.seq \in Nat /\ last.version \in Nat
          BY <1>1, <1>2, <4>2 DEF Change
        <5>2. CASE c.seq = last.seq
          BY <4>1, <5>1, <5>2 DEF FeedInv, FeedRises
        <5>3. CASE c.seq < last.seq
          BY <4>1, <5>1, <5>3 DEF FeedInv, FeedRises
        <5>. QED BY <4>2, <5>1, <5>2, <5>3
      <4>. QED BY <4>3, <4>4
    <3>. QED BY <2>1, <3>1 DEF FeedInv, FeedRises
  <2>8. StoreIsLast'
    <3> SUFFICES ASSUME NEW r \in Row, store'[r].version > 0
                 PROVE  OfFeed(r, store[r])'
      BY DEF StoreIsLast
    <3>1. store'[r] = back(r)
      BY <2>1
    <3>2. of(r) # {}
      BY <3>1 DEF Absent
    <3>3. PICK last \in of(r) : last = Last(of(r))
      BY <2>6, <3>2
    <3>4. store'[r] = [version |-> last.version, by |-> last.by]
      BY <3>1, <3>2, <3>3
    <3>. QED BY <2>1, <3>3, <3>4 DEF OfFeed
  <2>9. FeedKeeps
    <3> SUFFICES ASSUME NEW seq \in Nat, NEW token \in WriteId, Holds(seq, token)'
                 PROVE  /\ Holds(seq, token)
                        /\ \A c : c.seq <= seq => (c \in feed' <=> c \in feed)
      BY DEF FeedKeeps
    <3>1. PICK d \in kept : d.seq = seq /\ d.by = token
      BY <2>1 DEF Holds
    <3>2. \A c \in feed : c.seq <= seq => c.seq <= n
      BY <1>2, <2>2, <3>1
    <3>. QED BY <2>1, <3>1, <3>2 DEF Holds
  <2>. QED BY <2>5, <2>7, <2>8, <2>9 DEF FeedInv
<1>10. ASSUME NEW r \in Row, EditLocally(r)
       PROVE  WritesInv' /\ FeedInv' /\ FeedKeeps
  <2> DEFINE e == [base |-> local[r].version, by |-> NewWrite]
  <2>1. /\ count'.writes = NewWrite
        /\ edit' = [edit EXCEPT ![r] = e]
        /\ UNCHANGED <<store, feed, txn, cursor, pull>>
    BY <1>1, <1>10 DEF EditLocally, CountWrite, serverVars, NewWrite, Counts
  <2>2. e.by = NewWrite
    OBVIOUS
  <2>3. NewWrite > count.writes /\ NewWrite \in Nat
    BY <1>2 DEF NewWrite
  <2> HIDE DEF e
  <2>4. \A q \in Row : edit'[q] = IF q = r THEN e ELSE edit[q]
    BY <1>1, <2>1
  <2>5. OneWriteEach'
    BY <1>2, <2>1, <2>2, <2>3, <2>4 DEF WritesInv, OneWriteEach, Writing
  <2>6. ASSUME NEW b \in WriteId, Spent(b)
        PROVE  Spent(b)'
    <3>1. b \in Nat
      BY DEF WriteId
    <3>. QED BY <1>2, <2>1, <2>2, <2>3, <2>4, <2>6, <3>1 DEF Spent, Writing
  <2>7. NamesSpent'
    BY <1>1, <2>1, <2>6 DEF WritesInv, NamesSpent, Change, Cursor, Pull, Page
  <2>. QED BY <1>3, <2>1, <2>5, <2>7 DEF WritesInv
<1>11. ASSUME NEW r \in Row, PushEdit(r)
       PROVE  WritesInv' /\ FeedInv' /\ FeedKeeps
  <2>a. PICK b : b = edit[r].by
    OBVIOUS
  <2>b. PICK c : c = [seq |-> nextSeq, row |-> r, version |-> store[r].version + 1, by |-> b]
    OBVIOUS
  <2>1. /\ edit[r] # None
        /\ store' = [store EXCEPT ![r] = [version |-> store[r].version + 1, by |-> b]]
        /\ feed' = feed \cup {c}
        /\ edit' = [edit EXCEPT ![r] = None]
        /\ UNCHANGED <<txn, cursor, pull, count>>
    BY <1>11, <2>a, <2>b DEF PushEdit
  <2>2. \A d \in feed : d.seq < nextSeq
    BY DEF OrderInv, FeedBelowNext
  <2>3. FeedInv'
    BY <1>1, <2>1, <2>2, <2>b, AppendRises
  <2>4. c.seq = nextSeq /\ c.by = b
    BY <2>b
  <2>5. \A q \in Row : edit'[q] = IF q = r THEN None ELSE edit[q]
    BY <1>1, <2>1
  <2>6. \A v \in Writer : WriteOf(v)
    BY <2>1 DEF WriteOf, Writing
  <2>7. \A q \in Row : EditOf(q)
    BY <2>5 DEF EditOf
  <2>8. OneWriteEach' /\ \A x : Spent(x) => Spent(x)'
    BY <1>4, <2>1, <2>6, <2>7
  <2>9. Spent(b)'
    BY <2>1, <2>5, <2>a DEF Spent, WritesInv, OneWriteEach, Writing
  <2>10. WritesInv'
    BY <2>1, <2>4, <2>8, <2>9, ChangeNamed
  <2>11. ~Spent(b)
    BY <2>1, <2>a DEF Spent
  <2>12. FeedKeeps
    BY <1>1, <2>1, <2>2, <2>4, <2>11, AppendKeeps
  <2>. QED BY <2>3, <2>10, <2>12
<1>12. ASSUME NEW r \in Row, PushLosingEdit(r)
       PROVE  WritesInv' /\ FeedInv' /\ FeedKeeps
  <2>1. /\ edit' = [edit EXCEPT ![r] = None]
        /\ UNCHANGED <<store, feed, txn, cursor, pull, count>>
    BY <1>12 DEF PushLosingEdit, serverVars
  <2>2. \A q \in Row : edit'[q] = IF q = r THEN None ELSE edit[q]
    BY <1>1, <2>1
  <2>3. \A v \in Writer : WriteOf(v)
    BY <2>1 DEF WriteOf, Writing
  <2>4. \A q \in Row : EditOf(q)
    BY <2>2 DEF EditOf
  <2>. QED BY <1>3, <1>4, <2>1, <2>3, <2>4, NothingNamed
<1>13. ASSUME \E u \in User : \/ StartPull(u)
                              \/ \E scope \in Scope : ChangeRoles(u, scope)
       PROVE  /\ UNCHANGED <<store, feed, txn, edit, cursor>> /\ count'.writes = count.writes
              /\ \/ UNCHANGED pull
                 \/ \E u \in User : /\ pull'.seq = cursor[u].seq /\ pull'.token = cursor[u].token
                                    /\ pull'.page = None
  BY <1>1, <1>13 DEF StartPull, ChangeRoles, serverVars, deviceVars, Counts
<1>14. ASSUME UNCHANGED <<store, feed, txn, edit>>, count'.writes = count.writes
       PROVE  /\ OneWriteEach' /\ FeedInv' /\ FeedKeeps
              /\ \A b : Spent(b) <=> Spent(b)'
              /\ \A c \in feed' : Spent(c.by)'
  <2>1. \A b : Spent(b) <=> Spent(b)'
    BY <1>14 DEF Spent, Writing
  <2>2. OneWriteEach'
    BY <1>14 DEF WritesInv, OneWriteEach, Writing
  <2>. QED BY <1>3, <1>14, <2>1, <2>2 DEF WritesInv, NamesSpent
<1>15. ASSUME \E u \in User : StartPull(u) \/ \E scope \in Scope : ChangeRoles(u, scope)
       PROVE  WritesInv' /\ FeedInv' /\ FeedKeeps
  BY <1>13, <1>14, <1>15 DEF WritesInv, NamesSpent
<1>16. ASSUME RequestPage
       PROVE  WritesInv' /\ FeedInv' /\ FeedKeeps
  <2>1. pull # None /\ pull \in Pull /\ roles[pull.user] \in Scope
    BY <1>1, <1>16 DEF RequestPage, Pull, TypeInv, TypeOK
  <2>2. pull.seq \in Nat /\ pull.token \in WriteId
    BY <2>1 DEF Pull
  <2>3. PICK p : p = PageAfter(pull.seq, pull.token, roles[pull.user])
    OBVIOUS
  <2>4. /\ p.watermark \in Nat
        /\ p.watermark > pull.seq => \E c \in feed : c.by = p.token
        /\ p.watermark > 0 /\ p.watermark <= pull.seq => pull.seq > 0 /\ p.token = pull.token
    BY <2>1, <2>2, <2>3, PageIs DEF OrderInv, Page
  <2>5. /\ pull' = [pull EXCEPT !.page = p, !.pages = @ + 1]
        /\ UNCHANGED <<serverVars, local, edit, cursor, count>>
    BY <1>16, <2>3 DEF RequestPage
  <2>6. pull'.seq = pull.seq /\ pull'.token = pull.token /\ pull'.page = p
    BY <2>1, <2>5 DEF Pull
  <2>7. p.watermark > 0 => Spent(p.token)
    BY <2>1, <2>2, <2>4 DEF WritesInv, NamesSpent
  <2>. QED BY <1>14, <2>1, <2>5, <2>6, <2>7 DEF WritesInv, NamesSpent, serverVars
<1>17. ASSUME Restart
       PROVE  WritesInv' /\ FeedInv' /\ FeedKeeps
  <2>1. /\ pull \in Pull
        /\ pull' = [pull EXCEPT !.seq = 0, !.token = 0, !.scope = pull.page.scope,
                                !.restarted = TRUE, !.page = None]
        /\ cursor' = [cursor EXCEPT ![pull.user] =
                         [seq |-> 0, token |-> 0, scope |-> pull.page.scope]]
        /\ UNCHANGED <<serverVars, local, edit, count>>
    BY <1>1, <1>17 DEF Restart
  <2>2. pull'.seq = 0 /\ pull'.page = None
    BY <2>1 DEF Pull
  <2>3. \A u \in User : cursor'[u] = cursor[u] \/ cursor'[u].seq = 0
    BY <1>1, <2>1
  <2>. QED BY <1>14, <2>1, <2>2, <2>3 DEF WritesInv, NamesSpent, serverVars
<1>18. ASSUME ApplyPage
       PROVE  WritesInv' /\ FeedInv' /\ FeedKeeps
  <2> DEFINE page == pull.page
             moved == page.watermark > pull.seq
  <2>1. /\ pull # None /\ page # None
        /\ cursor' = [cursor EXCEPT ![pull.user] =
               IF moved THEN [seq |-> page.watermark, token |-> page.token, scope |-> page.scope]
               ELSE IF page.scope # pull.saved
               THEN [seq |-> pull.seq, token |-> pull.token, scope |-> page.scope]
               ELSE @]
        /\ pull' = IF moved
                   THEN [pull EXCEPT !.seq = page.watermark, !.token = page.token,
                                     !.scope = page.scope, !.page = None]
                   ELSE None
        /\ UNCHANGED <<serverVars, edit, count>>
    BY <1>18 DEF ApplyPage
  <2>2. pull \in Pull /\ page.watermark \in Nat /\ pull.seq \in Nat
    BY <1>1, <2>1 DEF Pull, Page
  <2>3. /\ pull.seq > 0 => Spent(pull.token)
        /\ page.watermark > 0 => Spent(page.token)
    BY <2>1 DEF WritesInv, NamesSpent
  <2>4. \A u \in User : cursor'[u].seq > 0 => Spent(cursor'[u].token)
    <3>1. \A u \in User : \/ cursor'[u] = cursor[u]
                          \/ cursor'[u].seq = page.watermark /\ cursor'[u].token = page.token
                          \/ cursor'[u].seq = pull.seq /\ cursor'[u].token = pull.token
      <4> HIDE DEF moved, page
      <4>. QED BY <1>1, <2>1
    <3>. QED BY <2>3, <3>1 DEF WritesInv, NamesSpent
  <2>5. pull' # None => pull'.seq = page.watermark /\ pull'.token = page.token /\ pull'.page = None
    BY <2>1, <2>2 DEF Pull
  <2>. QED BY <1>14, <2>1, <2>3, <2>4, <2>5 DEF WritesInv, NamesSpent, serverVars
<1>19. ASSUME LeaveRest \/ StopPull
       PROVE  WritesInv' /\ FeedInv' /\ FeedKeeps
  <2>1. pull' = None /\ UNCHANGED <<serverVars, edit, cursor>> /\ count'.writes = count.writes
    BY <1>1, <1>19 DEF LeaveRest, StopPull, Counts
  <2>. QED BY <1>14, <2>1 DEF WritesInv, NamesSpent, serverVars
<1>20. ASSUME UNCHANGED vars
       PROVE  WritesInv' /\ FeedInv' /\ FeedKeeps
  BY <1>14, <1>20 DEF WritesInv, NamesSpent, vars
<1>. QED BY <1>5, <1>6, <1>7, <1>8, <1>9, <1>10, <1>11, <1>12, <1>15, <1>16, <1>17, <1>18, <1>19,
            <1>20
         DEF Next, TxnStep, PushStep, PullStep
-----------------------------------------------------------------------------
(***************************************************************************)
(* What a page holds: if the change it was read to is there still, all     *)
(* that the user may read between the position and that change, and        *)
(* nothing that is not there.                                              *)
(***************************************************************************)
PageIsWhole(from, token, page) ==
    Holds(page.watermark, page.token) =>
        /\ from > 0 => Holds(from, token)
        /\ \A c \in page.changes : c \in feed /\ from < c.seq
        /\ \A c \in feed : from < c.seq /\ c.seq <= page.watermark /\ c.row \in page.scope =>
               c \in page.changes

PageSound ==
    pull # None /\ pull.page # None =>
        /\ pull.page.reset => pull.page.watermark = 0
        /\ pull.page.watermark <= pull.seq => pull.page.changes = {}
        /\ pull.page.watermark > pull.seq => PageIsWhole(pull.seq, pull.token, pull.page)

LEMMA PageStays ==
    ASSUME TypeInv, WritesInv, FeedKeeps, PageSound, UNCHANGED pull
    PROVE  PageSound'
<1> SUFFICES ASSUME pull # None, pull.page # None
             PROVE  PageSound'
  BY DEF PageSound
<1> DEFINE page == pull.page
<1>1. pull \in Pull /\ page \in Page
  BY DEF TypeInv, TypeOK, Pull
<1>2. /\ pull.seq \in Nat /\ page.watermark \in Nat /\ page.token \in WriteId
      /\ \A c \in page.changes : c.seq \in Nat /\ c.seq <= page.watermark
      /\ \A c \in feed : c.seq \in Nat
  BY <1>1 DEF Pull, Page, Change, TypeInv, TypeOK, PageBounded
<1>3. ASSUME page.watermark > pull.seq, Holds(page.watermark, page.token)'
      PROVE  /\ pull.seq > 0 => Holds(pull.seq, pull.token)'
             /\ \A c \in page.changes : c \in feed' /\ pull.seq < c.seq
             /\ \A c \in feed' :
                   pull.seq < c.seq /\ c.seq <= page.watermark /\ c.row \in page.scope =>
                       c \in page.changes
  <2>1. Spent(page.token)
    BY <1>2, <1>3 DEF WritesInv, NamesSpent
  <2>2. PICK seq \in Nat, token \in WriteId : seq = page.watermark /\ token = page.token
    BY <1>2
  <2>3. Holds(seq, token)'
    BY <1>3, <2>2
  <2>4. Holds(seq, token) /\ \A c : c.seq <= seq => (c \in feed' <=> c \in feed)
    BY <2>1, <2>2, <2>3 DEF FeedKeeps
  <2>5. PageIsWhole(pull.seq, pull.token, page)
    BY <1>3 DEF PageSound
  <2>6. pull.seq > 0 => Holds(pull.seq, pull.token)'
    BY <1>2, <1>3, <2>2, <2>4, <2>5 DEF PageIsWhole, Holds
  <2>. QED BY <1>2, <2>2, <2>4, <2>5, <2>6 DEF PageIsWhole
<1>4. page.watermark > pull.seq => PageIsWhole(pull.seq, pull.token, pull.page)'
  BY <1>3 DEF PageIsWhole
<1>. QED BY <1>4 DEF PageSound

LEMMA PageSoundNext ==
    ASSUME TypeInv, OrderInv, WritesInv, FeedKeeps, PageSound, [Next]_vars
    PROVE  PageSound'
<1>1. ASSUME UNCHANGED pull
      PROVE  PageSound'
  BY <1>1, PageStays
<1>2. ASSUME pull' = None \/ pull'.page = None
      PROVE  PageSound'
  BY <1>2 DEF PageSound
<1>3. ASSUME NEW w \in Writer
      PROVE  TxnStep(w) \/ (\E r \in Row : LockRow(w, r)) => UNCHANGED pull
  BY DEF TxnStep, LockRow, AppendChange, Commit, Rollback, deviceVars
<1>4. ASSUME NEW u \in User
      PROVE  /\ StartPull(u) => pull'.page = None
             /\ \A scope \in Scope : ChangeRoles(u, scope) => UNCHANGED pull
  BY DEF StartPull, ChangeRoles, deviceVars
<1>5. ASSUME NEW n \in 0..nextSeq, Restore(n)
      PROVE  UNCHANGED pull
  BY <1>5 DEF Restore, deviceVars
<1>6. ASSUME NEW r \in Row
      PROVE  EditLocally(r) \/ PushStep(r) => UNCHANGED pull
  BY DEF EditLocally, PushStep, PushEdit, PushLosingEdit
<1>7. ASSUME RequestPage
      PROVE  PageSound'
  <2>1. pull \in Pull
    BY <1>7 DEF RequestPage, TypeInv, TypeOK
  <2>2. pull.seq \in Nat /\ pull.token \in WriteId /\ roles[pull.user] \in Scope
    BY <2>1 DEF Pull, TypeInv, TypeOK
  <2>3. PICK p : p = PageAfter(pull.seq, pull.token, roles[pull.user])
    OBVIOUS
  <2>4. /\ p \in Page
        /\ p.reset => p.watermark = 0
        /\ p.watermark <= pull.seq => p.changes = {}
        /\ p.changes \subseteq feed
        /\ \A c \in p.changes : pull.seq < c.seq
        /\ p.scope = roles[pull.user]
        /\ p.watermark > pull.seq =>
              /\ pull.seq > 0 => Holds(pull.seq, pull.token)
              /\ \A c \in feed : pull.seq < c.seq /\ c.seq <= p.watermark
                                 /\ c.row \in roles[pull.user] => c \in p.changes
    BY <2>2, <2>3, PageIs DEF OrderInv
  <2>5. /\ pull' = [pull EXCEPT !.page = p, !.pages = @ + 1]
        /\ UNCHANGED feed
    BY <1>7, <2>3 DEF RequestPage, serverVars
  <2>6. pull'.seq = pull.seq /\ pull'.token = pull.token /\ pull'.page = p
    BY <2>1, <2>5 DEF Pull
  <2>7. p.watermark > pull.seq => PageIsWhole(pull.seq, pull.token, pull.page)'
    BY <2>4, <2>5, <2>6 DEF PageIsWhole, Holds
  <2>. QED BY <2>4, <2>6, <2>7 DEF PageSound
<1>8. ASSUME Restart
      PROVE  pull'.page = None
  <2>1. pull \in Pull
    BY <1>8 DEF Restart, TypeInv, TypeOK
  <2>. QED BY <1>8, <2>1 DEF Restart, Pull
<1>9. ASSUME ApplyPage
      PROVE  pull' = None \/ pull'.page = None
  <2>1. pull \in Pull
    BY <1>9 DEF ApplyPage, TypeInv, TypeOK
  <2>2. \/ pull' = None
        \/ pull' = [pull EXCEPT !.seq = pull.page.watermark, !.token = pull.page.token,
                                !.scope = pull.page.scope, !.page = None]
    BY <1>9 DEF ApplyPage
  <2>. QED BY <2>1, <2>2 DEF Pull
<1>10. LeaveRest \/ StopPull => pull' = None
  BY DEF LeaveRest, StopPull
<1>11. UNCHANGED vars => UNCHANGED pull
  BY DEF vars
<1>. QED BY <1>1, <1>2, <1>3, <1>4, <1>5, <1>6, <1>7, <1>8, <1>9, <1>10, <1>11 DEF Next, PullStep

-----------------------------------------------------------------------------
(***************************************************************************)
(* NothingMissed.  A position stands for what lies below it: if its change *)
(* is there still, the device has everything up to it that the scope       *)
(* allows.                                                                 *)
(***************************************************************************)
Known(seq, token, scope) ==
    Holds(seq, token) =>
        \A c \in feed : c.seq <= seq /\ c.row \in scope => local[c.row].version >= c.version

ReadSoFar ==
    /\ \A u \in User : Known(cursor[u].seq, cursor[u].token, cursor[u].scope)
    /\ pull # None => Known(pull.seq, pull.token, pull.scope)

\* Once a pull has started again, its user's roles stay as they are until it ends: a pull
\* starts again once only, whatever else happens to it.
RolesSteady == pull # None /\ pull.restarted => roles'[pull.user] = roles[pull.user]

\* A pull that has started again reads in one scope.
ScopeHeld ==
    pull # None /\ pull.restarted =>
        /\ pull.seq > 0 => pull.scope = roles[pull.user]
        /\ pull.page # None => pull.page.scope = roles[pull.user]

\* Facts have no version by which an older image is known; one user reads them in order.
FactsOneReader == Fact = {} \/ \A u, v \in User : u = v

LEMMA ScopeHeldNext ==
    ASSUME TypeInv, ScopeHeld, [Next]_vars, RolesSteady
    PROVE  ScopeHeld'
<1>1. ASSUME UNCHANGED pull
      PROVE  ScopeHeld'
  BY <1>1 DEF ScopeHeld, RolesSteady
<1>2. ASSUME pull' = None \/ ~pull'.restarted
      PROVE  ScopeHeld'
  BY <1>2 DEF ScopeHeld
<1>3. ASSUME NEW w \in Writer
      PROVE  TxnStep(w) \/ (\E r \in Row : LockRow(w, r)) => UNCHANGED pull
  BY DEF TxnStep, LockRow, AppendChange, Commit, Rollback, deviceVars
<1>4. ASSUME NEW u \in User
      PROVE  /\ StartPull(u) => ~pull'.restarted
             /\ \A scope \in Scope : ChangeRoles(u, scope) => UNCHANGED pull
  BY DEF StartPull, ChangeRoles, deviceVars
<1>5. ASSUME NEW n \in 0..nextSeq, Restore(n)
      PROVE  UNCHANGED pull
  BY <1>5 DEF Restore, deviceVars
<1>6. ASSUME NEW r \in Row
      PROVE  EditLocally(r) \/ PushStep(r) => UNCHANGED pull
  BY DEF EditLocally, PushStep, PushEdit, PushLosingEdit
<1>7. ASSUME RequestPage
      PROVE  ScopeHeld'
  <2>1. pull \in Pull /\ pull # None
    BY <1>7 DEF RequestPage, TypeInv, TypeOK
  <2>2. PICK p : p = PageAfter(pull.seq, pull.token, roles[pull.user])
    OBVIOUS
  <2>3. p.scope = roles[pull.user]
    BY <2>2 DEF PageAfter
  <2>4. pull' = [pull EXCEPT !.page = p, !.pages = @ + 1] /\ UNCHANGED roles
    BY <1>7, <2>2 DEF RequestPage, serverVars
  <2>5. /\ pull'.seq = pull.seq /\ pull'.scope = pull.scope /\ pull'.user = pull.user
        /\ pull'.restarted = pull.restarted /\ pull'.page = p
    BY <2>1, <2>4 DEF Pull
  <2>. QED BY <2>1, <2>3, <2>4, <2>5 DEF ScopeHeld
<1>8. ASSUME Restart
      PROVE  pull'.seq = 0 /\ pull'.page = None
  <2>1. pull \in Pull
    BY <1>8 DEF Restart, TypeInv, TypeOK
  <2>. QED BY <1>8, <2>1 DEF Restart, Pull
<1>9. ASSUME ApplyPage
      PROVE  ScopeHeld'
  <2>1. pull \in Pull /\ pull # None /\ pull.page # None
    BY <1>9 DEF ApplyPage, TypeInv, TypeOK
  <2>2. /\ UNCHANGED roles
        /\ \/ pull' = None
           \/ pull' = [pull EXCEPT !.seq = pull.page.watermark, !.token = pull.page.token,
                                   !.scope = pull.page.scope, !.page = None]
    BY <1>9 DEF ApplyPage, serverVars
  <2>3. CASE pull' # None
    <3>1. /\ pull'.scope = pull.page.scope /\ pull'.user = pull.user
          /\ pull'.restarted = pull.restarted /\ pull'.page = None
      BY <2>1, <2>2, <2>3 DEF Pull
    <3>. QED BY <2>1, <2>2, <3>1 DEF ScopeHeld
  <2>. QED BY <1>2, <2>3
<1>10. LeaveRest \/ StopPull => pull' = None
  BY DEF LeaveRest, StopPull
<1>11. UNCHANGED vars => UNCHANGED pull
  BY DEF vars
<1>12. Restart => ScopeHeld'
  BY <1>8 DEF ScopeHeld
<1>. QED BY <1>1, <1>2, <1>3, <1>4, <1>5, <1>6, <1>7, <1>9, <1>10, <1>11, <1>12 DEF Next, PullStep

(* No row the device has is put back behind a change it had. *)
LocalKept ==
    \A c \in feed : local[c.row].version >= c.version => local'[c.row].version >= c.version

LEMMA KnownStays ==
    ASSUME TypeInv, TypeInv', FeedKeeps, LocalKept,
           NEW seq \in Nat, NEW token \in WriteId, NEW scope,
           seq > 0 => Spent(token), Known(seq, token, scope)
    PROVE  Known(seq, token, scope)'
<1> SUFFICES ASSUME Holds(seq, token)', NEW c \in feed', c.seq <= seq, c.row \in scope
             PROVE  local'[c.row].version >= c.version
  BY DEF Known
<1>1. seq > 0
  BY DEF Holds, TypeInv, TypeOK, Change
<1>2. Holds(seq, token) /\ c \in feed
  BY <1>1 DEF FeedKeeps
<1>. QED BY <1>2 DEF Known, LocalKept

LEMMA StillRead ==
    ASSUME TypeInv, TypeInv', WritesInv, FeedKeeps, LocalKept, ReadSoFar,
           UNCHANGED <<cursor, pull>>
    PROVE  ReadSoFar'
<1>1. ASSUME NEW u \in User
      PROVE  Known(cursor[u].seq, cursor[u].token, cursor[u].scope)'
  <2>1. PICK seq \in Nat, token \in WriteId, scope \in Scope :
            seq = cursor[u].seq /\ token = cursor[u].token /\ scope = cursor[u].scope
    BY DEF TypeInv, TypeOK, Cursor
  <2>2. Known(seq, token, scope)'
    BY <2>1, KnownStays DEF ReadSoFar, WritesInv, NamesSpent
  <2>. QED BY <2>1, <2>2
<1>2. ASSUME pull # None
      PROVE  Known(pull.seq, pull.token, pull.scope)'
  <2>1. PICK seq \in Nat, token \in WriteId, scope \in Scope :
            seq = pull.seq /\ token = pull.token /\ scope = pull.scope
    BY <1>2 DEF TypeInv, TypeOK, Pull
  <2>2. Known(seq, token, scope)'
    BY <1>2, <2>1, KnownStays DEF ReadSoFar, WritesInv, NamesSpent
  <2>. QED BY <2>1, <2>2
<1>. QED BY <1>1, <1>2 DEF ReadSoFar

(* A page is written: what it was read to is known in its scope, and whoever else *)
(* reads on the device keeps what they have.                                      *)
LEMMA ApplyReads ==
    ASSUME TypeInv, TypeInv', WritesInv, FeedInv, FeedKeeps, PageSound, ReadSoFar, ScopeHeld,
           FactsOneReader, ApplyPage
    PROVE  ReadSoFar'
<1>a. PICK page, u, seq, token, scope :
          /\ page = pull.page /\ u = pull.user
          /\ seq = pull.seq /\ token = pull.token /\ scope = pull.scope
  OBVIOUS
<1> DEFINE moved == page.watermark > seq
<1>1. /\ pull # None /\ page # None
      /\ ~MustRestart(page)
      /\ local' = [r \in Row |-> Apply(r, page.changes)]
      /\ cursor' = [cursor EXCEPT ![u] =
             IF moved THEN [seq |-> page.watermark, token |-> page.token, scope |-> page.scope]
             ELSE IF page.scope # pull.saved
             THEN [seq |-> seq, token |-> token, scope |-> page.scope]
             ELSE @]
      /\ pull' = IF moved
                 THEN [pull EXCEPT !.seq = page.watermark, !.token = page.token,
                                   !.scope = page.scope, !.page = None]
                 ELSE None
      /\ UNCHANGED <<serverVars, edit, count>>
  BY <1>a DEF ApplyPage
<1>2. /\ pull \in Pull /\ page \in Page /\ u \in User
      /\ local \in [Row -> View] /\ feed \subseteq Change
      /\ cursor \in [User -> Cursor]
  BY <1>a, <1>1 DEF TypeInv, TypeOK, Pull
<1>3. /\ page.changes \subseteq Change /\ page.watermark \in Nat /\ page.token \in WriteId
      /\ page.scope \in Scope /\ seq \in Nat /\ token \in WriteId
      /\ \A c \in page.changes : c.seq <= page.watermark
  BY <1>a, <1>1, <1>2 DEF Page, Pull, TypeInv, PageBounded
<1>4. /\ page.reset => page.watermark = 0
      /\ ~moved => page.changes = {}
      /\ moved => PageIsWhole(seq, token, page)
  BY <1>a, <1>1, <1>2, <1>3 DEF PageSound
<1>5. Known(seq, token, scope)
  BY <1>a, <1>1 DEF ReadSoFar
<1>6. UNCHANGED feed
  BY <1>1 DEF serverVars
<1>7. ASSUME NEW r \in Row
      PROVE  /\ local'[r].version \in Nat /\ local[r].version \in Nat
             /\ \/ local'[r] = local[r] /\ \A c \in page.changes : c.row # r
                \/ \E c \in page.changes :
                      /\ c.row = r
                      /\ \A b \in page.changes : b.row = r => b.seq <= c.seq
                      /\ \/ /\ r \in Master /\ c.version < local[r].version
                            /\ local'[r] = local[r]
                         \/ /\ r \in Master => c.version >= local[r].version
                            /\ local'[r] = [version |-> c.version, by |-> c.by]
  <2>1. local'[r] = Apply(r, page.changes)
    BY <1>1
  <2>2. local[r].version \in Nat
    BY <1>2 DEF View
  <2>3. /\ Apply(r, page.changes) \in View
        /\ \/ Apply(r, page.changes) = local[r] /\ \A c \in page.changes : c.row # r
           \/ \E c \in page.changes :
                 /\ c.row = r
                 /\ \A b \in page.changes : b.row = r => b.seq <= c.seq
                 /\ \/ /\ r \in Master /\ c.version < local[r].version
                       /\ Apply(r, page.changes) = local[r]
                    \/ /\ r \in Master => c.version >= local[r].version
                       /\ Apply(r, page.changes) = [version |-> c.version, by |-> c.by]
    BY <1>2, <1>3, ApplyIs
  <2>4. Apply(r, page.changes).version \in Nat
    BY <2>3 DEF View
  <2>. QED BY <2>1, <2>2, <2>3, <2>4
<1>8. \A r \in Master : r \in Row => local'[r].version >= local[r].version
  <2> SUFFICES ASSUME NEW r \in Master, r \in Row
               PROVE  local'[r].version >= local[r].version
    OBVIOUS
  <2>1. local'[r].version \in Nat /\ local[r].version \in Nat
    BY <1>7
  <2>2. CASE local'[r] = local[r]
    BY <2>1, <2>2
  <2>3. CASE local'[r] # local[r]
    <3>1. PICK c \in page.changes : /\ c.version >= local[r].version
                                    /\ local'[r] = [version |-> c.version, by |-> c.by]
      BY <1>7, <2>3
    <3>. QED BY <3>1
  <2>. QED BY <2>2, <2>3
<1>9. seq > 0 => page.scope = scope
  <2> SUFFICES ASSUME seq > 0
               PROVE  page.scope = scope
    OBVIOUS
  <2>1. CASE pull.restarted
    BY <1>a, <1>1, <2>1 DEF ScopeHeld
  <2>2. CASE ~pull.restarted
    BY <1>a, <1>1, <2>2 DEF MustRestart
  <2>. QED BY <2>1, <2>2
<1>10. CASE moved
  <2>1. ASSUME Holds(page.watermark, page.token), NEW c \in feed, c.seq <= page.watermark,
               c.row \in page.scope
        PROVE  local'[c.row].version >= c.version
    <3> DEFINE r == c.row
    <3>1. /\ r \in Row /\ c.seq \in Nat /\ c.version \in Nat
          /\ local'[r].version \in Nat /\ local[r].version \in Nat
      BY <1>2, <1>7 DEF Change
    <3>2. PageIsWhole(seq, token, page)
      BY <1>4, <1>10
    <3>3. \A d \in page.changes : d \in feed /\ seq < d.seq /\ d.seq \in Nat /\ d.version \in Nat
      BY <1>3, <2>1, <3>2 DEF PageIsWhole, Change
    <3>4. \A d \in feed : d.row = r /\ c.seq <= d.seq => c.version <= d.version
      <4> SUFFICES ASSUME NEW d \in feed, d.row = r, c.seq <= d.seq
                   PROVE  c.version <= d.version
        OBVIOUS
      <4>1. d.seq \in Nat /\ d.version \in Nat
        BY <1>2 DEF Change
      <4>2. CASE c.seq = d.seq
        BY <3>1, <4>1, <4>2 DEF FeedInv, FeedRises
      <4>3. CASE c.seq < d.seq
        BY <3>1, <4>1, <4>3 DEF FeedInv, FeedRises
      <4>. QED BY <3>1, <4>1, <4>2, <4>3
    <3>5. CASE seq < c.seq
      <4>1. c \in page.changes
        BY <2>1, <3>2, <3>5 DEF PageIsWhole
      <4>2. PICK d \in page.changes :
               /\ d.row = r
               /\ \A b \in page.changes : b.row = r => b.seq <= d.seq
               /\ \/ d.version < local[r].version /\ local'[r] = local[r]
                  \/ local'[r] = [version |-> d.version, by |-> d.by]
        BY <1>7, <3>1, <4>1
      <4>3. c.version <= d.version
        BY <3>3, <3>4, <4>1, <4>2
      <4>4. local'[r].version >= d.version
        BY <3>1, <3>3, <4>2
      <4>. QED BY <3>1, <3>3, <4>3, <4>4
    <3>6. CASE ~(seq < c.seq)
      <4>1. seq > 0 /\ c.seq <= seq
        BY <1>2, <1>3, <3>1, <3>6 DEF Change
      <4>2. Holds(seq, token)
        BY <2>1, <3>2, <4>1 DEF PageIsWhole
      <4>3. local[r].version >= c.version
        BY <1>5, <1>9, <2>1, <4>1, <4>2 DEF Known
      <4>4. CASE local'[r] = local[r]
        BY <4>3, <4>4
      <4>5. CASE local'[r] # local[r]
        <5>1. PICK d \in page.changes : d.row = r /\ local'[r] = [version |-> d.version, by |-> d.by]
          BY <1>7, <3>1, <4>5
        <5>2. c.version <= d.version
          BY <1>3, <3>1, <3>3, <3>4, <4>1, <5>1
        <5>. QED BY <5>1, <5>2, <3>3, <3>1
      <4>. QED BY <4>4, <4>5
    <3>. QED BY <3>5, <3>6
  <2>2. Known(page.watermark, page.token, page.scope)'
    BY <1>6, <2>1 DEF Known, Holds
  <2>3. pull'.seq = page.watermark /\ pull'.token = page.token /\ pull'.scope = page.scope
    BY <1>1, <1>2, <1>10 DEF Pull
  <2>4. \A v \in User : cursor'[v] = IF v = u
             THEN [seq |-> page.watermark, token |-> page.token, scope |-> page.scope]
             ELSE cursor[v]
    BY <1>1, <1>2, <1>10
  <2>5. ASSUME NEW v \in User, v # u
        PROVE  Known(cursor[v].seq, cursor[v].token, cursor[v].scope)'
    <3>1. LocalKept
      <4> SUFFICES ASSUME NEW c \in feed, local[c.row].version >= c.version
                   PROVE  local'[c.row].version >= c.version
        BY DEF LocalKept
      <4>1. c.row \in Master /\ c.row \in Row /\ c.version \in Nat
        BY <1>2, <2>5 DEF FactsOneReader, Fact, Change
      <4>2. local'[c.row].version \in Nat /\ local[c.row].version \in Nat
        BY <1>7, <4>1
      <4>. QED BY <1>8, <4>1, <4>2
    <3>2. PICK s \in Nat, t \in WriteId, f \in Scope :
              s = cursor[v].seq /\ t = cursor[v].token /\ f = cursor[v].scope
      BY <1>2 DEF Cursor
    <3>3. Known(s, t, f)'
      BY <3>1, <3>2, KnownStays DEF ReadSoFar, WritesInv, NamesSpent
    <3>. QED BY <2>4, <2>5, <3>2, <3>3
  <2>6. ASSUME NEW v \in User
        PROVE  Known(cursor[v].seq, cursor[v].token, cursor[v].scope)'
    <3>1. CASE v = u
      BY <2>2, <2>4, <3>1
    <3>. QED BY <2>5, <3>1
  <2>. QED BY <2>2, <2>3, <2>6 DEF ReadSoFar
<1>11. CASE ~moved
  <2>1. \A r \in Row : local'[r] = local[r]
    BY <1>4, <1>7, <1>11
  <2>2. LocalKept
    <3>1. \A c \in feed : c.row \in Row
      BY <1>2 DEF Change
    <3>. QED BY <2>1, <3>1 DEF LocalKept
  <2>3. Known(seq, token, page.scope)
    <3>1. CASE seq > 0
      BY <1>5, <1>9, <3>1
    <3>2. CASE ~(seq > 0)
      BY <1>2, <1>3, <3>2 DEF Known, Holds, Change
    <3>. QED BY <3>1, <3>2
  <2>4. seq > 0 => Spent(token)
    BY <1>a, <1>1 DEF WritesInv, NamesSpent
  <2>5. Known(seq, token, page.scope)'
    BY <1>3, <2>2, <2>3, <2>4, KnownStays
  <2>6. ASSUME NEW v \in User
        PROVE  Known(cursor[v].seq, cursor[v].token, cursor[v].scope)'
    <3>1. CASE cursor'[v] = cursor[v]
      <4>1. PICK s \in Nat, t \in WriteId, f \in Scope :
                s = cursor[v].seq /\ t = cursor[v].token /\ f = cursor[v].scope
        BY <1>2 DEF Cursor
      <4>2. Known(s, t, f)'
        BY <2>2, <4>1, KnownStays DEF ReadSoFar, WritesInv, NamesSpent
      <4>. QED BY <3>1, <4>1, <4>2
    <3>2. CASE cursor'[v] # cursor[v]
      <4>1. cursor'[v] = [seq |-> seq, token |-> token, scope |-> page.scope]
        BY <1>1, <1>2, <1>11, <3>2
      <4>. QED BY <2>5, <4>1
    <3>. QED BY <3>1, <3>2
  <2>7. pull' = None
    BY <1>1, <1>11
  <2>. QED BY <2>6, <2>7 DEF ReadSoFar
<1>. QED BY <1>10, <1>11

LEMMA ReadNext ==
    ASSUME TypeInv, TypeInv', OrderInv, WritesInv, FeedInv, FeedInv', FeedKeeps, PageSound,
           ReadSoFar, ScopeHeld, FactsOneReader, [Next]_vars
    PROVE  ReadSoFar'
<1>1. /\ local \in [Row -> View] /\ feed \subseteq Change /\ cursor \in [User -> Cursor]
      /\ \A r \in Row : local[r].version \in Nat
  BY DEF TypeInv, TypeOK, View
<1>2. ASSUME UNCHANGED <<local, cursor, pull>>
      PROVE  ReadSoFar'
  <2>1. LocalKept
    BY <1>2 DEF LocalKept
  <2>. QED BY <1>2, <2>1, StillRead
<1>3. ASSUME NEW w \in Writer
      PROVE  TxnStep(w) \/ (\E r \in Row : LockRow(w, r)) => UNCHANGED <<local, cursor, pull>>
  BY DEF TxnStep, LockRow, AppendChange, Commit, Rollback, deviceVars
<1>4. ASSUME NEW u \in User, NEW scope \in Scope, ChangeRoles(u, scope)
      PROVE  UNCHANGED <<local, cursor, pull>>
  BY <1>4 DEF ChangeRoles, deviceVars
<1>5. ASSUME NEW n \in 0..nextSeq, Restore(n)
      PROVE  UNCHANGED <<local, cursor, pull>>
  BY <1>5 DEF Restore, deviceVars
<1>6. ASSUME NEW r \in Row, EditLocally(r)
      PROVE  ReadSoFar'
  <2>1. /\ UNCHANGED <<cursor, pull>>
        /\ local' = [local EXCEPT ![r] = [version |-> @.version + 1, by |-> NewWrite]]
    BY <1>6 DEF EditLocally
  <2>2. LocalKept
    BY <1>1, <2>1 DEF LocalKept, Change
  <2>. QED BY <2>1, <2>2, StillRead
<1>7. ASSUME NEW r \in Row, PushEdit(r)
      PROVE  UNCHANGED <<local, cursor, pull>>
  BY <1>7 DEF PushEdit
<1>8. ASSUME NEW r \in Row, PushLosingEdit(r)
      PROVE  ReadSoFar'
  <2>1. /\ UNCHANGED <<cursor, pull>>
        /\ local' = IF r \in Master THEN [local EXCEPT ![r] = store[r]] ELSE local
    BY <1>8 DEF PushLosingEdit
  <2>2. LocalKept
    BY <1>1, <2>1 DEF LocalKept, FeedInv, FeedRises
  <2>. QED BY <2>1, <2>2, StillRead
<1>9. ASSUME NEW u \in User, StartPull(u)
      PROVE  ReadSoFar'
  <2>1. PICK s \in Nat, t \in WriteId, f \in Scope :
            s = cursor[u].seq /\ t = cursor[u].token /\ f = cursor[u].scope
    BY <1>1 DEF Cursor
  <2>2. /\ UNCHANGED <<feed, local, cursor>>
        /\ pull'.seq = s /\ pull'.token = t /\ pull'.scope = f
    BY <1>9, <2>1 DEF StartPull, serverVars
  <2>3. \A x, y, z : Known(x, y, z) => Known(x, y, z)'
    BY <2>2 DEF Known, Holds
  <2>4. \A v \in User : Known(cursor[v].seq, cursor[v].token, cursor[v].scope)'
    BY <2>2 DEF ReadSoFar, Known, Holds
  <2>5. Known(s, t, f)'
    BY <2>1, <2>3 DEF ReadSoFar
  <2>. QED BY <2>2, <2>4, <2>5 DEF ReadSoFar
<1>10. ASSUME RequestPage
       PROVE  ReadSoFar'
  <2>1. pull \in Pull /\ pull # None
    BY <1>10 DEF RequestPage, TypeInv, TypeOK
  <2>2. UNCHANGED <<feed, local, cursor>>
    BY <1>10 DEF RequestPage, serverVars
  <2>3. pull'.seq = pull.seq /\ pull'.token = pull.token /\ pull'.scope = pull.scope
    BY <1>10, <2>1 DEF RequestPage, Pull
  <2>. QED BY <2>1, <2>2, <2>3 DEF ReadSoFar, Known, Holds
<1>11. ASSUME Restart
       PROVE  ReadSoFar'
  <2>1. /\ pull \in Pull
        /\ pull' = [pull EXCEPT !.seq = 0, !.token = 0, !.scope = pull.page.scope,
                                !.restarted = TRUE, !.page = None]
        /\ cursor' = [cursor EXCEPT ![pull.user] =
                         [seq |-> 0, token |-> 0, scope |-> pull.page.scope]]
        /\ UNCHANGED <<feed, local>>
    BY <1>11 DEF Restart, serverVars, TypeInv, TypeOK
  <2>2. pull'.seq = 0
    BY <2>1 DEF Pull
  <2>3. \A v \in User : cursor'[v] = cursor[v] \/ cursor'[v].seq = 0
    BY <1>1, <2>1
  <2>4. \A t, f : Known(0, t, f)'
    BY <1>1, <2>1 DEF Known, Holds, Change
  <2>5. \A v \in User : Known(cursor[v].seq, cursor[v].token, cursor[v].scope)'
    <3> SUFFICES ASSUME NEW v \in User
                 PROVE  Known(cursor[v].seq, cursor[v].token, cursor[v].scope)'
      OBVIOUS
    <3>1. CASE cursor'[v] = cursor[v]
      BY <2>1, <3>1 DEF ReadSoFar, Known, Holds
    <3>2. CASE cursor'[v].seq = 0
      BY <2>4, <3>2 DEF Known, Holds
    <3>. QED BY <2>3, <3>1, <3>2
  <2>6. Known(pull.seq, pull.token, pull.scope)'
    BY <2>2, <2>4 DEF Known, Holds
  <2>. QED BY <2>5, <2>6 DEF ReadSoFar
<1>12. ASSUME LeaveRest \/ StopPull
       PROVE  ReadSoFar'
  <2>1. pull' = None /\ UNCHANGED <<feed, local, cursor>>
    BY <1>12 DEF LeaveRest, StopPull, serverVars
  <2>. QED BY <2>1 DEF ReadSoFar, Known, Holds
<1>13. UNCHANGED vars => UNCHANGED <<local, cursor, pull>>
  BY DEF vars
<1>14. ApplyPage => ReadSoFar'
  BY ApplyReads
<1>. QED BY <1>2, <1>3, <1>4, <1>5, <1>6, <1>7, <1>8, <1>9, <1>10, <1>11, <1>12, <1>13, <1>14
         DEF Next, PushStep, PullStep

(* However pulls stop, start again, overlap with commits, rollbacks, restores and role *)
(* changes, a cursor a pull goes on from has nothing behind it that its user may read  *)
(* and the device lacks (pullSince, pull): if no user's roles change in a pull that    *)
(* has started again already, and where two users read no sales.                       *)
THEOREM NothingIsMissed ==
    ASSUME FactsOneReader
    PROVE  Spec /\ [][RolesSteady]_vars => []NothingMissed
<1> DEFINE I == /\ TypeInv /\ OrderInv /\ WritesInv /\ FeedInv /\ PageSound
                /\ ReadSoFar /\ ScopeHeld
<1>1. Init => I
  <2> SUFFICES ASSUME Init PROVE I
    OBVIOUS
  <2>1. PageSound /\ ReadSoFar /\ ScopeHeld
    BY DEF Init, PageSound, ReadSoFar, ScopeHeld, Known, Holds
  <2>. QED BY <2>1, TypeInit, OrderInit, HistoryInit
<1>2. I /\ [Next]_vars /\ [RolesSteady]_vars => I'
  <2> SUFFICES ASSUME I, [Next]_vars, [RolesSteady]_vars
               PROVE  I'
    OBVIOUS
  <2>1. RolesSteady
    BY DEF RolesSteady, vars
  <2>2. TypeInv' /\ OrderInv'
    BY TypeNext, OrderNext
  <2>3. WritesInv' /\ FeedInv' /\ FeedKeeps
    BY HistoryNext
  <2>4. PageSound'
    BY <2>3, PageSoundNext
  <2>5. ScopeHeld'
    BY <2>1, ScopeHeldNext
  <2>6. ReadSoFar'
    BY <2>2, <2>3, ReadNext
  <2>. QED BY <2>2, <2>3, <2>4, <2>5, <2>6
<1>3. I => NothingMissed
  <2> SUFFICES ASSUME I, NEW u \in User, Current(u), NEW c \in feed, c.seq <= cursor[u].seq,
                      c.row \in roles[u]
               PROVE  local[c.row].version >= c.version
    BY DEF NothingMissed
  <2>1. cursor[u].seq > 0
    BY DEF TypeInv, TypeOK, Change, Cursor
  <2>2. Holds(cursor[u].seq, cursor[u].token) /\ cursor[u].scope = roles[u]
    BY <2>1 DEF Current, Holds
  <2>. QED BY <2>2 DEF ReadSoFar, Known
<1> HIDE DEF I
<1>. QED BY <1>1, <1>2, <1>3, PTL DEF Spec

(* Where roles change and backups return between pulls only, roles are steady. *)
LEMMA SteadyBetweenPulls ==
    ASSUME ~ChangesDuringPull
    PROVE  Spec => [][RolesSteady]_vars
<1>1. [Next]_vars => [RolesSteady]_vars
  <2> SUFFICES ASSUME [Next]_vars
               PROVE  RolesSteady
    OBVIOUS
  <2>1. \A u \in User, scope \in Scope : ChangeRoles(u, scope) => pull = None
    BY DEF ChangeRoles, MayChange
  <2>2. (\E w \in Writer : TxnStep(w) \/ \E r \in Row : LockRow(w, r)) => UNCHANGED roles
    BY DEF TxnStep, LockRow, AppendChange, Commit, Rollback
  <2>3. (\E n \in 0..nextSeq : n < nextSeq /\ Restore(n)) => UNCHANGED roles
    BY DEF Restore
  <2>4. (\E r \in Row : EditLocally(r) \/ PushStep(r)) => UNCHANGED roles
    BY DEF EditLocally, PushStep, PushEdit, PushLosingEdit, serverVars
  <2>5. (\E u \in User : StartPull(u)) \/ PullStep \/ StopPull \/ UNCHANGED vars => UNCHANGED roles
    BY DEF StartPull, PullStep, RequestPage, Restart, ApplyPage, LeaveRest, StopPull, serverVars,
           vars
  <2>. QED BY <2>1, <2>2, <2>3, <2>4, <2>5 DEF Next, RolesSteady
<1>. QED BY <1>1, PTL DEF Spec

(* The same where roles change and backups return between pulls only. *)
THEOREM QuietPullsMissNothing ==
    ASSUME FactsOneReader, ~ChangesDuringPull
    PROVE  Spec => []NothingMissed
<1>1. Spec => [][RolesSteady]_vars
  BY SteadyBetweenPulls
<1>2. Spec /\ [][RolesSteady]_vars => []NothingMissed
  BY NothingIsMissed
<1>. QED BY <1>1, <1>2, PTL

-----------------------------------------------------------------------------
(***************************************************************************)
(* What the device holds, as long as no backup is restored: rows of the    *)
(* server's history, and edits that stand until they have lost.            *)
(***************************************************************************)
PageFromFeed == pull # None /\ pull.page # None => pull.page.changes \subseteq feed

EditStands(r) ==
    edit[r] # None =>
        \/ store[r].version > edit[r].base
        \/ local[r].version = edit[r].base + 1 /\ local[r].by = edit[r].by

FromServer(r) ==
    \/ local[r].version = 0
    \/ OfFeed(r, local[r])
    \/ edit[r] # None /\ local[r].version = edit[r].base + 1 /\ local[r].by = edit[r].by

HeldInv == PageFromFeed /\ \A r \in Master : EditStands(r) /\ FromServer(r)

(* A step that takes nothing from the server and leaves a row of the device alone. *)
LEMMA RowHeld ==
    ASSUME TypeInv, TypeInv', HeldInv, NEW r \in Master, local'[r] = local[r], edit'[r] = edit[r],
           feed \subseteq feed', store'[r].version >= store[r].version
    PROVE  EditStands(r)' /\ FromServer(r)'
<1>1. r \in Row
  BY RowsAssumption
<1>2. /\ store[r].version \in Nat /\ store'[r].version \in Nat
      /\ edit[r] # None => edit[r].base \in Nat
  BY <1>1 DEF TypeInv, TypeOK, View, Edit
<1>3. EditStands(r) /\ FromServer(r)
  BY DEF HeldInv
<1>4. EditStands(r)'
  BY <1>2, <1>3 DEF EditStands
<1>5. FromServer(r)'
  BY <1>3 DEF FromServer, OfFeed
<1>. QED BY <1>4, <1>5

LEMMA HeldNext ==
    ASSUME MaxRestores = 0, TypeInv, TypeInv', OrderInv, FeedInv, HeldInv, [Next]_vars
    PROVE  HeldInv'
<1>1. /\ store \in [Row -> View] /\ feed \subseteq Change /\ local \in [Row -> View]
      /\ edit \in [Row -> {None} \cup Edit] /\ pull \in {None} \cup Pull
      /\ \A r \in Row : store[r].version \in Nat /\ local[r].version \in Nat
      /\ \A r \in Row : edit[r] # None => edit[r].base \in Nat
  BY DEF TypeInv, TypeOK, View, Edit
<1>2. Master \subseteq Row
  BY RowsAssumption
<1>3. ASSUME feed \subseteq feed', UNCHANGED pull
      PROVE  PageFromFeed'
  BY <1>3 DEF HeldInv, PageFromFeed
<1>4. ASSUME UNCHANGED <<local, edit>>, feed \subseteq feed',
             \A r \in Row : store'[r].version >= store[r].version
      PROVE  \A r \in Master : EditStands(r)' /\ FromServer(r)'
  BY <1>2, <1>4, RowHeld
<1>5. ASSUME UNCHANGED <<store, feed, local, edit, pull>>
      PROVE  HeldInv'
  BY <1>1, <1>3, <1>4, <1>5 DEF HeldInv
<1>6. ASSUME NEW w \in Writer
      PROVE  AppendChange(w) \/ Rollback(w) \/ (\E r \in Row : LockRow(w, r)) =>
                 UNCHANGED <<store, feed, local, edit, pull>>
  BY DEF AppendChange, Rollback, LockRow, deviceVars
<1>7. ASSUME NEW w \in Writer, Commit(w)
      PROVE  HeldInv'
  <2>1. /\ feed \subseteq feed' /\ UNCHANGED <<local, edit, pull>>
        /\ store' = [store EXCEPT ![txn[w].row] =
                        [version |-> store[txn[w].row].version + 1, by |-> txn[w].by]]
    BY <1>7 DEF Commit, deviceVars
  <2>2. \A r \in Row : store'[r].version >= store[r].version
    BY <1>1, <2>1
  <2>. QED BY <1>3, <1>4, <2>1, <2>2 DEF HeldInv
<1>8. ASSUME NEW u \in User, NEW scope \in Scope, ChangeRoles(u, scope)
      PROVE  UNCHANGED <<store, feed, local, edit, pull>>
  BY <1>8 DEF ChangeRoles, deviceVars
<1>9. ASSUME NEW n \in 0..nextSeq, Restore(n)
      PROVE  FALSE
  <2>1. count.restores \in 0..0 /\ count.restores < 0
    BY <1>9 DEF Restore, TypeInv, TypeOK
  <2>. QED BY <2>1
<1>10. ASSUME NEW r \in Row, EditLocally(r)
       PROVE  HeldInv'
  <2> DEFINE view == [version |-> local[r].version + 1, by |-> NewWrite]
             e == [base |-> local[r].version, by |-> NewWrite]
  <2>1. /\ local' = [local EXCEPT ![r] = view]
        /\ edit' = [edit EXCEPT ![r] = e]
        /\ UNCHANGED <<store, feed, pull>>
    BY <1>10 DEF EditLocally, serverVars
  <2>2. local'[r] = view /\ edit'[r] = e
    BY <1>1, <2>1
  <2>3. edit'[r].base + 1 = local'[r].version /\ edit'[r].by = local'[r].by
    BY <2>2
  <2>4. e \in Edit
    <3>1. NewWrite \in WriteId
      BY <1>10, Counted DEF EditLocally, CountWrite, TypeInv, TypeOK, Counts
    <3>. QED BY <1>1, <3>1 DEF Edit
  <2>5. ASSUME NEW q \in Master
        PROVE  EditStands(q)' /\ FromServer(q)'
    <3>1. CASE q = r
      <4>1. edit'[r] # None
        BY <2>2, <2>4, NoneAssumption
      <4>. QED BY <2>3, <3>1, <4>1 DEF EditStands, FromServer
    <3>2. CASE q # r
      <4>1. local'[q] = local[q] /\ edit'[q] = edit[q]
        BY <1>1, <1>2, <2>1, <3>2
      <4>. QED BY <1>1, <1>2, <2>1, <4>1, RowHeld
    <3>. QED BY <3>1, <3>2
  <2>. QED BY <1>3, <2>1, <2>5 DEF HeldInv
<1>11. ASSUME NEW r \in Row, PushEdit(r)
       PROVE  HeldInv'
  <2> DEFINE base == edit[r].base
             b == edit[r].by
             c == [seq |-> nextSeq, row |-> r, version |-> base + 1, by |-> b]
  <2>1. /\ edit[r] # None /\ store[r].version = base
        /\ store' = [store EXCEPT ![r] = [version |-> base + 1, by |-> b]]
        /\ feed' = feed \cup {c}
        /\ edit' = [edit EXCEPT ![r] = None]
        /\ UNCHANGED <<local, pull>>
    BY <1>11 DEF PushEdit
  <2>2. \A q \in Row : store'[q].version >= store[q].version
    BY <1>1, <2>1
  <2>3. ASSUME NEW q \in Master
        PROVE  EditStands(q)' /\ FromServer(q)'
    <3>1. CASE q = r
      <4>1. edit'[r] = None
        BY <1>1, <2>1
      <4>2. local[r].version = base + 1 /\ local[r].by = b
        BY <1>1, <2>1, <3>1 DEF HeldInv, EditStands
      <4>3. c \in feed' /\ c.row = r /\ c.version = local'[r].version /\ c.by = local'[r].by
        BY <2>1, <4>2
      <4>. QED BY <3>1, <4>1, <4>3 DEF EditStands, FromServer, OfFeed
    <3>2. CASE q # r
      <4>1. local'[q] = local[q] /\ edit'[q] = edit[q] /\ feed \subseteq feed'
        BY <1>1, <1>2, <2>1, <3>2
      <4>. QED BY <1>2, <2>2, <4>1, RowHeld
    <3>. QED BY <3>1, <3>2
  <2>. QED BY <1>3, <2>1, <2>3 DEF HeldInv
<1>12. ASSUME NEW r \in Row, PushLosingEdit(r)
       PROVE  HeldInv'
  <2>1. /\ store[r].version # 0
        /\ edit' = [edit EXCEPT ![r] = None]
        /\ local' = IF r \in Master THEN [local EXCEPT ![r] = store[r]] ELSE local
        /\ UNCHANGED <<store, feed, pull>>
    BY <1>12 DEF PushLosingEdit, serverVars
  <2>2. ASSUME NEW q \in Master
        PROVE  EditStands(q)' /\ FromServer(q)'
    <3>1. CASE q = r
      <4>1. edit'[r] = None /\ local'[r] = store[r]
        BY <1>1, <2>1, <3>1
      <4>2. OfFeed(r, store[r])
        BY <1>1, <2>1 DEF FeedInv, StoreIsLast
      <4>3. OfFeed(r, local[r])'
        BY <2>1, <4>1, <4>2 DEF OfFeed
      <4>. QED BY <3>1, <4>1, <4>3 DEF EditStands, FromServer
    <3>2. CASE q # r
      <4>1. local'[q] = local[q] /\ edit'[q] = edit[q]
        BY <1>1, <1>2, <2>1, <3>2
      <4>. QED BY <1>1, <1>2, <2>1, <4>1, RowHeld
    <3>. QED BY <3>1, <3>2
  <2>. QED BY <1>3, <2>1, <2>2 DEF HeldInv
<1>13. ASSUME UNCHANGED <<store, feed, local, edit>>,
              pull' = None \/ pull'.page = None
       PROVE  HeldInv'
  BY <1>1, <1>4, <1>13 DEF HeldInv, PageFromFeed
<1>14. ASSUME NEW u \in User, StartPull(u)
       PROVE  HeldInv'
  BY <1>13, <1>14 DEF StartPull, serverVars
<1>15. ASSUME RequestPage
       PROVE  HeldInv'
  <2>1. pull \in Pull
    BY <1>1, <1>15 DEF RequestPage
  <2>2. pull.seq \in Nat /\ pull.token \in WriteId /\ roles[pull.user] \in Scope
    BY <2>1 DEF Pull, TypeInv, TypeOK
  <2>3. PICK p : p = PageAfter(pull.seq, pull.token, roles[pull.user])
    OBVIOUS
  <2>4. p.changes \subseteq feed
    BY <2>2, <2>3, PageIs DEF OrderInv
  <2>5. /\ pull' = [pull EXCEPT !.page = p, !.pages = @ + 1]
        /\ UNCHANGED <<store, feed, local, edit>>
    BY <1>15, <2>3 DEF RequestPage, serverVars
  <2>6. pull'.page = p
    BY <2>1, <2>5 DEF Pull
  <2>. QED BY <1>1, <1>4, <2>4, <2>5, <2>6 DEF HeldInv, PageFromFeed
<1>16. ASSUME Restart
       PROVE  HeldInv'
  <2>1. pull \in Pull
    BY <1>1, <1>16 DEF Restart
  <2>2. pull'.page = None /\ UNCHANGED <<store, feed, local, edit>>
    BY <1>16, <2>1 DEF Restart, Pull, serverVars
  <2>. QED BY <1>13, <2>2
<1>17. ASSUME ApplyPage
       PROVE  HeldInv'
  <2>a. PICK page : page = pull.page
    OBVIOUS
  <2>1. /\ pull # None /\ page # None
        /\ local' = [r \in Row |-> Apply(r, page.changes)]
        /\ \/ pull' = None
           \/ pull' = [pull EXCEPT !.seq = page.watermark, !.token = page.token,
                                   !.scope = page.scope, !.page = None]
        /\ UNCHANGED <<store, feed, edit>>
    BY <1>17, <2>a DEF ApplyPage, serverVars
  <2>2. pull \in Pull /\ page \in Page
    BY <1>1, <2>1, <2>a DEF Pull
  <2>3. /\ page.changes \subseteq Change /\ page.watermark \in Nat
        /\ \A c \in page.changes : c.seq <= page.watermark
        /\ page.changes \subseteq feed
    BY <2>1, <2>2, <2>a DEF Page, TypeInv, PageBounded, HeldInv, PageFromFeed
  <2>4. ASSUME NEW r \in Master
        PROVE  EditStands(r)' /\ FromServer(r)'
    <3>1. \/ Apply(r, page.changes) = local[r]
          \/ \E c \in page.changes :
                /\ c.row = r
                /\ r \in Master => c.version >= local[r].version
                /\ Apply(r, page.changes) = [version |-> c.version, by |-> c.by]
      <4>1. PICK changes : changes = page.changes
        OBVIOUS
      <4>2. PICK n \in Nat : n = page.watermark
        BY <2>3
      <4>3. local \in [Row -> View] /\ r \in Row
        BY <1>1, <1>2
      <4>4. changes \subseteq Change /\ \A c \in changes : c.seq <= n
        BY <2>3, <4>1, <4>2
      <4>5. \/ Apply(r, changes) = local[r] /\ \A c \in changes : c.row # r
            \/ \E c \in changes :
                  /\ c.row = r
                  /\ \A b \in changes : b.row = r => b.seq <= c.seq
                  /\ \/ /\ r \in Master /\ c.version < local[r].version
                        /\ Apply(r, changes) = local[r]
                     \/ /\ r \in Master => c.version >= local[r].version
                        /\ Apply(r, changes) = [version |-> c.version, by |-> c.by]
        BY <4>3, <4>4, ApplyIs
      <4>. QED BY <4>1, <4>5
    <3>2. local'[r] = Apply(r, page.changes)
      BY <1>2, <2>1
    <3>3. CASE local'[r] = local[r]
      <4>1. edit'[r] = edit[r] /\ feed \subseteq feed' /\ store'[r].version >= store[r].version
        BY <1>1, <1>2, <2>1
      <4>. QED BY <3>3, <4>1, RowHeld
    <3>4. CASE local'[r] # local[r]
      <4>1. PICK c \in page.changes :
                /\ c.row = r
                /\ c.version >= local[r].version
                /\ local'[r] = [version |-> c.version, by |-> c.by]
        BY <3>1, <3>2, <3>4
      <4>2. c \in feed /\ c.version \in Nat
        BY <1>1, <2>3, <4>1 DEF Change
      <4>3. OfFeed(r, local[r])'
        BY <2>1, <4>1, <4>2 DEF OfFeed
      <4>4. c.version <= store[r].version
        BY <4>1, <4>2 DEF FeedInv, FeedRises
      <4>5. EditStands(r)'
        <5>1. EditStands(r) /\ r \in Row
          BY <1>2 DEF HeldInv
        <5>. QED BY <1>1, <2>1, <4>1, <4>2, <4>4, <5>1 DEF EditStands
      <4>. QED BY <4>3, <4>5 DEF FromServer
    <3>. QED BY <3>3, <3>4
  <2>5. pull' = None \/ pull'.page = None
    BY <2>1, <2>2 DEF Pull
  <2>. QED BY <2>4, <2>5 DEF HeldInv, PageFromFeed
<1>18. ASSUME LeaveRest \/ StopPull
       PROVE  HeldInv'
  BY <1>13, <1>18 DEF LeaveRest, StopPull, serverVars
<1>19. UNCHANGED vars => UNCHANGED <<store, feed, local, edit, pull>>
  BY DEF vars
<1>. QED BY <1>5, <1>6, <1>7, <1>8, <1>9, <1>10, <1>11, <1>12, <1>14, <1>15, <1>16, <1>17, <1>18,
            <1>19
         DEF Next, TxnStep, PushStep, PullStep

LEMMA HeldInit == Init => HeldInv
BY RowsAssumption DEF Init, HeldInv, PageFromFeed, EditStands, FromServer, Absent

(* Whichever users pull and from wherever they read, an edit that waits on the device is *)
(* there until a newer version of its row has beaten it (_apply, pushPending), as long   *)
(* as no backup is restored.                                                             *)
THEOREM PendingEditIsKept ==
    ASSUME MaxRestores = 0
    PROVE  Spec => []PendingEditKept
<1> DEFINE I == TypeInv /\ OrderInv /\ WritesInv /\ FeedInv /\ HeldInv
<1>1. Init => I
  BY TypeInit, OrderInit, HistoryInit, HeldInit
<1>2. I /\ [Next]_vars => I'
  BY TypeNext, OrderNext, HistoryNext, HeldNext
<1>3. I => PendingEditKept
  <2> SUFFICES ASSUME I, NEW r \in Master, edit[r] # None
               PROVE  local[r].by = edit[r].by \/ store[r].version > edit[r].base
    BY DEF PendingEditKept
  <2>. QED BY DEF HeldInv, EditStands
<1> HIDE DEF I
<1>. QED BY <1>1, <1>2, <1>3, PTL DEF Spec

(* A till that has read to the end of the feed shows the server's rows, but for edits *)
(* it has not sent (pullSince, _apply): as long as no backup is restored, for master  *)
(* rows, and if no user's roles change in a pull that has started again already.      *)
THEOREM CaughtUpAgrees ==
    ASSUME MaxRestores = 0, Fact = {}
    PROVE  Spec /\ [][RolesSteady]_vars => []AgreesWithServer
<1> DEFINE I == TypeInv /\ OrderInv /\ WritesInv /\ FeedInv /\ HeldInv
<1>1. Init => I
  BY TypeInit, OrderInit, HistoryInit, HeldInit
<1>2. I /\ [Next]_vars => I'
  BY TypeNext, OrderNext, HistoryNext, HeldNext
<1>3. I /\ NothingMissed => AgreesWithServer
  <2> SUFFICES ASSUME I, NothingMissed, NEW u \in User, Current(u),
                      \A c \in feed : c.seq <= cursor[u].seq,
                      NEW r \in roles[u], store[r].version > 0, edit[r] = None
               PROVE  local[r] = store[r]
    BY DEF AgreesWithServer
  <2>1. r \in Row /\ r \in Master
    BY DEF TypeInv, TypeOK, Scope, Fact
  <2>2. /\ local[r] \in View /\ store[r] \in View
        /\ local[r].version \in Nat /\ store[r].version \in Nat
    BY <2>1 DEF TypeInv, TypeOK, View
  <2>3. PICK c \in feed : c.row = r /\ c.version = store[r].version /\ c.by = store[r].by
    BY <2>1 DEF FeedInv, StoreIsLast, OfFeed
  <2>4. local[r].version >= store[r].version
    BY <2>3 DEF NothingMissed
  <2>5. PICK d \in feed : d.row = r /\ d.version = local[r].version /\ d.by = local[r].by
    BY <2>1, <2>2, <2>4 DEF HeldInv, FromServer, OfFeed
  <2>6. d.version <= store[r].version
    BY <2>5 DEF FeedInv, FeedRises
  <2>7. c = d
    <3>1. c.seq \in Nat /\ d.seq \in Nat /\ c.version = d.version /\ c.version \in Nat
      BY <2>2, <2>3, <2>4, <2>5, <2>6 DEF TypeInv, TypeOK, Change
    <3>2. ~(c.seq < d.seq) /\ ~(d.seq < c.seq)
      BY <2>3, <2>5, <3>1 DEF FeedInv, FeedRises
    <3>. QED BY <3>1, <3>2 DEF FeedInv, FeedRises
  <2>. QED BY <2>2, <2>3, <2>5, <2>7 DEF View
<1>4. FactsOneReader
  BY DEF FactsOneReader
<1> HIDE DEF I
<1>5. Spec => []I
  BY <1>1, <1>2, PTL DEF Spec
<1>6. Spec /\ [][RolesSteady]_vars => []NothingMissed
  BY <1>4, NothingIsMissed
<1>. QED BY <1>3, <1>5, <1>6, PTL

-----------------------------------------------------------------------------
(***************************************************************************)
(* Sales after a restore.  They have no version to compare, so one user    *)
(* who reads them in order has, up to a position that is there still, each *)
(* as its last image below that position left it, whatever was read of a   *)
(* history that is lost.                                                   *)
(***************************************************************************)
LastUpTo(c, seq) == \A d \in feed : d.row = c.row /\ d.seq <= seq => d.seq <= c.seq

Exact(seq, token, scope) ==
    Holds(seq, token) =>
        \A c \in feed : c.seq <= seq /\ c.row \in scope /\ LastUpTo(c, seq) =>
            local[c.row] = [version |-> c.version, by |-> c.by]

ReadExactly ==
    /\ \A u \in User : Exact(cursor[u].seq, cursor[u].token, cursor[u].scope)
    /\ pull # None => Exact(pull.seq, pull.token, pull.scope)

NoEdits == \A r \in Row : edit[r] = None

LEMMA ExactStays ==
    ASSUME TypeInv, TypeInv', FeedKeeps, \A r \in Row : local'[r] = local[r],
           NEW seq \in Nat, NEW token \in WriteId, NEW scope,
           seq > 0 => Spent(token), Exact(seq, token, scope)
    PROVE  Exact(seq, token, scope)'
<1> SUFFICES ASSUME Holds(seq, token)', NEW c \in feed', c.seq <= seq, c.row \in scope,
                    LastUpTo(c, seq)'
             PROVE  local'[c.row] = [version |-> c.version, by |-> c.by]
  BY DEF Exact
<1>1. seq > 0
  BY DEF Holds, TypeInv, TypeOK, Change
<1>2. Holds(seq, token) /\ \A d : d.seq <= seq => (d \in feed' <=> d \in feed)
  BY <1>1 DEF FeedKeeps
<1>3. c \in feed /\ c.row \in Row
  BY <1>2 DEF TypeInv, TypeOK, Change
<1>4. LastUpTo(c, seq)
  BY <1>2 DEF LastUpTo
<1>. QED BY <1>2, <1>3, <1>4 DEF Exact

LEMMA ExactlyStillRead ==
    ASSUME TypeInv, TypeInv', WritesInv, FeedKeeps, ReadExactly, UNCHANGED <<local, cursor, pull>>
    PROVE  ReadExactly'
<1>1. ASSUME NEW u \in User
      PROVE  Exact(cursor[u].seq, cursor[u].token, cursor[u].scope)'
  <2>1. PICK seq \in Nat, token \in WriteId, scope \in Scope :
            seq = cursor[u].seq /\ token = cursor[u].token /\ scope = cursor[u].scope
    BY DEF TypeInv, TypeOK, Cursor
  <2>2. Exact(seq, token, scope)'
    BY <2>1, ExactStays DEF ReadExactly, WritesInv, NamesSpent
  <2>. QED BY <2>1, <2>2
<1>2. ASSUME pull # None
      PROVE  Exact(pull.seq, pull.token, pull.scope)'
  <2>1. PICK seq \in Nat, token \in WriteId, scope \in Scope :
            seq = pull.seq /\ token = pull.token /\ scope = pull.scope
    BY <1>2 DEF TypeInv, TypeOK, Pull
  <2>2. Exact(seq, token, scope)'
    BY <1>2, <2>1, ExactStays DEF ReadExactly, WritesInv, NamesSpent
  <2>. QED BY <2>1, <2>2
<1>. QED BY <1>1, <1>2 DEF ReadExactly

(* A page is written: every row it has an image of is as the last of them says. *)
LEMMA ApplyReadsExactly ==
    ASSUME Master = {}, \A u, v \in User : u = v,
           TypeInv, TypeInv', WritesInv, FeedInv, FeedKeeps, PageSound, ReadExactly, ScopeHeld,
           ApplyPage
    PROVE  ReadExactly'
<1>a. PICK page, u, seq, token, scope :
          /\ page = pull.page /\ u = pull.user
          /\ seq = pull.seq /\ token = pull.token /\ scope = pull.scope
  OBVIOUS
<1> DEFINE moved == page.watermark > seq
<1>1. /\ pull # None /\ page # None
      /\ ~MustRestart(page)
      /\ local' = [r \in Row |-> Apply(r, page.changes)]
      /\ cursor' = [cursor EXCEPT ![u] =
             IF moved THEN [seq |-> page.watermark, token |-> page.token, scope |-> page.scope]
             ELSE IF page.scope # pull.saved
             THEN [seq |-> seq, token |-> token, scope |-> page.scope]
             ELSE @]
      /\ pull' = IF moved
                 THEN [pull EXCEPT !.seq = page.watermark, !.token = page.token,
                                   !.scope = page.scope, !.page = None]
                 ELSE None
      /\ UNCHANGED <<serverVars, edit, count>>
  BY <1>a DEF ApplyPage
<1>2. /\ pull \in Pull /\ page \in Page /\ u \in User
      /\ local \in [Row -> View] /\ feed \subseteq Change
      /\ cursor \in [User -> Cursor]
  BY <1>a, <1>1 DEF TypeInv, TypeOK, Pull
<1>3. /\ page.changes \subseteq Change /\ page.watermark \in Nat /\ page.token \in WriteId
      /\ page.scope \in Scope /\ seq \in Nat /\ token \in WriteId
      /\ \A c \in page.changes : c.seq <= page.watermark
  BY <1>a, <1>1, <1>2 DEF Page, Pull, TypeInv, PageBounded
<1>4. /\ ~moved => page.changes = {}
      /\ moved => PageIsWhole(seq, token, page)
  BY <1>a, <1>1, <1>2, <1>3 DEF PageSound
<1>5. Exact(seq, token, scope)
  BY <1>a, <1>1 DEF ReadExactly
<1>6. UNCHANGED feed
  BY <1>1 DEF serverVars
<1>7. ASSUME NEW r \in Row
      PROVE  \/ local'[r] = local[r] /\ \A c \in page.changes : c.row # r
             \/ \E c \in page.changes :
                   /\ c.row = r
                   /\ \A b \in page.changes : b.row = r => b.seq <= c.seq
                   /\ local'[r] = [version |-> c.version, by |-> c.by]
  <2>1. local'[r] = Apply(r, page.changes)
    BY <1>1
  <2>2. \/ Apply(r, page.changes) = local[r] /\ \A c \in page.changes : c.row # r
        \/ \E c \in page.changes :
              /\ c.row = r
              /\ \A b \in page.changes : b.row = r => b.seq <= c.seq
              /\ \/ /\ r \in Master /\ c.version < local[r].version
                    /\ Apply(r, page.changes) = local[r]
                 \/ /\ r \in Master => c.version >= local[r].version
                    /\ Apply(r, page.changes) = [version |-> c.version, by |-> c.by]
    BY <1>2, <1>3, ApplyIs
  <2>. QED BY <2>1, <2>2
<1>8. seq > 0 => page.scope = scope
  <2>1. CASE pull.restarted
    BY <1>a, <1>1, <2>1 DEF ScopeHeld
  <2>2. CASE ~pull.restarted
    BY <1>a, <1>1, <2>2 DEF MustRestart
  <2>. QED BY <2>1, <2>2
<1>9. CASE moved
  <2>1. ASSUME Holds(page.watermark, page.token), NEW c \in feed, c.seq <= page.watermark,
               c.row \in page.scope, LastUpTo(c, page.watermark)
        PROVE  local'[c.row] = [version |-> c.version, by |-> c.by]
    <3>1. c.row \in Row /\ c.seq \in Nat
      BY <1>2 DEF Change
    <3>2. PageIsWhole(seq, token, page)
      BY <1>4, <1>9
    <3>3. \A d \in page.changes : d \in feed /\ seq < d.seq /\ d.seq \in Nat
      BY <1>3, <2>1, <3>2 DEF PageIsWhole, Change
    <3>4. \A d \in page.changes : d.row = c.row => d.seq <= c.seq
      BY <1>3, <2>1, <3>3 DEF LastUpTo
    <3>5. CASE seq < c.seq
      <4>1. c \in page.changes
        BY <2>1, <3>2, <3>5 DEF PageIsWhole
      <4>2. PICK d \in page.changes :
               /\ d.row = c.row
               /\ \A b \in page.changes : b.row = c.row => b.seq <= d.seq
               /\ local'[c.row] = [version |-> d.version, by |-> d.by]
        BY <1>7, <3>1, <4>1
      <4>3. d.seq = c.seq
        BY <3>1, <3>3, <3>4, <4>1, <4>2
      <4>4. d = c
        BY <3>3, <4>2, <4>3 DEF FeedInv, FeedRises
      <4>. QED BY <4>2, <4>4
    <3>6. CASE ~(seq < c.seq)
      <4>1. seq > 0 /\ c.seq <= seq
        BY <1>2, <1>3, <3>1, <3>6 DEF Change
      <4>2. Holds(seq, token)
        BY <2>1, <3>2, <4>1 DEF PageIsWhole
      <4>3. LastUpTo(c, seq)
        BY <1>2, <1>3, <1>9, <2>1 DEF LastUpTo, Change
      <4>4. local[c.row] = [version |-> c.version, by |-> c.by]
        BY <1>5, <1>8, <2>1, <4>1, <4>2, <4>3 DEF Exact
      <4>5. \A d \in page.changes : d.row # c.row
        BY <1>3, <3>1, <3>3, <3>4, <3>6
      <4>6. local'[c.row] = local[c.row]
        BY <1>7, <3>1, <4>5
      <4>. QED BY <4>4, <4>6
    <3>. QED BY <3>5, <3>6
  <2>2. Exact(page.watermark, page.token, page.scope)'
    BY <1>6, <2>1 DEF Exact, Holds, LastUpTo
  <2>3. pull'.seq = page.watermark /\ pull'.token = page.token /\ pull'.scope = page.scope
    BY <1>1, <1>2, <1>9 DEF Pull
  <2>4. \A v \in User :
            cursor'[v] = [seq |-> page.watermark, token |-> page.token, scope |-> page.scope]
    BY <1>1, <1>2, <1>9
  <2>. QED BY <2>2, <2>3, <2>4 DEF ReadExactly
<1>10. CASE ~moved
  <2>1. \A r \in Row : local'[r] = local[r]
    BY <1>4, <1>7, <1>10
  <2>2. Exact(seq, token, page.scope)
    <3>1. CASE seq > 0
      BY <1>5, <1>8, <3>1
    <3>2. CASE ~(seq > 0)
      BY <1>2, <1>3, <3>2 DEF Exact, Holds, Change
    <3>. QED BY <3>1, <3>2
  <2>3. seq > 0 => Spent(token)
    BY <1>a, <1>1 DEF WritesInv, NamesSpent
  <2>4. Exact(seq, token, page.scope)'
    BY <1>3, <2>1, <2>2, <2>3, ExactStays
  <2>5. ASSUME NEW v \in User
        PROVE  Exact(cursor[v].seq, cursor[v].token, cursor[v].scope)'
    <3>1. CASE cursor'[v] = cursor[v]
      <4>1. PICK s \in Nat, t \in WriteId, f \in Scope :
                s = cursor[v].seq /\ t = cursor[v].token /\ f = cursor[v].scope
        BY <1>2 DEF Cursor
      <4>2. Exact(s, t, f)'
        BY <2>1, <4>1, ExactStays DEF ReadExactly, WritesInv, NamesSpent
      <4>. QED BY <3>1, <4>1, <4>2
    <3>2. CASE cursor'[v] # cursor[v]
      <4>1. cursor'[v] = [seq |-> seq, token |-> token, scope |-> page.scope]
        BY <1>1, <1>2, <1>10, <3>2
      <4>. QED BY <2>4, <4>1
    <3>. QED BY <3>1, <3>2
  <2>6. pull' = None
    BY <1>1, <1>10
  <2>. QED BY <2>5, <2>6 DEF ReadExactly
<1>. QED BY <1>9, <1>10

LEMMA ExactlyNext ==
    ASSUME Master = {}, Editable = {}, \A u, v \in User : u = v,
           TypeInv, TypeInv', OrderInv, WritesInv, FeedInv, FeedKeeps, PageSound, NoEdits,
           ReadExactly, ScopeHeld, [Next]_vars
    PROVE  ReadExactly' /\ NoEdits'
<1>1. /\ local \in [Row -> View] /\ feed \subseteq Change /\ cursor \in [User -> Cursor]
  BY DEF TypeInv, TypeOK
<1>2. ASSUME UNCHANGED <<local, edit, cursor, pull>>
      PROVE  ReadExactly' /\ NoEdits'
  BY <1>2, ExactlyStillRead DEF NoEdits
<1>3. ASSUME NEW w \in Writer
      PROVE  TxnStep(w) \/ (\E r \in Row : LockRow(w, r)) =>
                 UNCHANGED <<local, edit, cursor, pull>>
  BY DEF TxnStep, LockRow, AppendChange, Commit, Rollback, deviceVars
<1>4. ASSUME NEW u \in User, NEW scope \in Scope, ChangeRoles(u, scope)
      PROVE  UNCHANGED <<local, edit, cursor, pull>>
  BY <1>4 DEF ChangeRoles, deviceVars
<1>5. ASSUME NEW n \in 0..nextSeq, Restore(n)
      PROVE  UNCHANGED <<local, edit, cursor, pull>>
  BY <1>5 DEF Restore, deviceVars
<1>6. ASSUME NEW r \in Row, EditLocally(r) \/ PushStep(r)
      PROVE  FALSE
  BY <1>6 DEF EditLocally, PushStep, PushEdit, PushLosingEdit, NoEdits
<1>7. ASSUME PullStep \/ StopPull \/ \E u \in User : StartPull(u)
      PROVE  NoEdits'
  <2>1. UNCHANGED edit
    BY <1>7 DEF PullStep, RequestPage, Restart, ApplyPage, LeaveRest, StopPull, StartPull
  <2>. QED BY <2>1 DEF NoEdits
<1>8. ASSUME NEW u \in User, StartPull(u)
      PROVE  ReadExactly'
  <2>1. PICK s \in Nat, t \in WriteId, f \in Scope :
            s = cursor[u].seq /\ t = cursor[u].token /\ f = cursor[u].scope
    BY <1>1 DEF Cursor
  <2>2. /\ UNCHANGED <<feed, local, cursor>>
        /\ pull'.seq = s /\ pull'.token = t /\ pull'.scope = f
    BY <1>8, <2>1 DEF StartPull, serverVars
  <2>3. \A x, y, z : Exact(x, y, z) => Exact(x, y, z)'
    BY <2>2 DEF Exact, Holds, LastUpTo
  <2>4. \A v \in User : Exact(cursor[v].seq, cursor[v].token, cursor[v].scope)'
    BY <2>2 DEF ReadExactly, Exact, Holds, LastUpTo
  <2>5. Exact(s, t, f)'
    BY <2>1, <2>3 DEF ReadExactly
  <2>. QED BY <2>2, <2>4, <2>5 DEF ReadExactly
<1>9. ASSUME RequestPage
      PROVE  ReadExactly'
  <2>1. pull \in Pull /\ pull # None
    BY <1>9 DEF RequestPage, TypeInv, TypeOK
  <2>2. UNCHANGED <<feed, local, cursor>>
    BY <1>9 DEF RequestPage, serverVars
  <2>3. pull'.seq = pull.seq /\ pull'.token = pull.token /\ pull'.scope = pull.scope
    BY <1>9, <2>1 DEF RequestPage, Pull
  <2>. QED BY <2>1, <2>2, <2>3 DEF ReadExactly, Exact, Holds, LastUpTo
<1>10. ASSUME Restart
       PROVE  ReadExactly'
  <2>1. /\ pull \in Pull
        /\ pull' = [pull EXCEPT !.seq = 0, !.token = 0, !.scope = pull.page.scope,
                                !.restarted = TRUE, !.page = None]
        /\ cursor' = [cursor EXCEPT ![pull.user] =
                         [seq |-> 0, token |-> 0, scope |-> pull.page.scope]]
        /\ UNCHANGED <<feed, local>>
    BY <1>10 DEF Restart, serverVars, TypeInv, TypeOK
  <2>2. pull'.seq = 0
    BY <2>1 DEF Pull
  <2>3. \A v \in User : cursor'[v] = cursor[v] \/ cursor'[v].seq = 0
    BY <1>1, <2>1
  <2>4. \A t : ~Holds(0, t)'
    BY <1>1, <2>1 DEF Holds, Change
  <2>5. ASSUME NEW v \in User
        PROVE  Exact(cursor[v].seq, cursor[v].token, cursor[v].scope)'
    <3>1. CASE cursor'[v] = cursor[v]
      BY <2>1, <3>1 DEF ReadExactly, Exact, Holds, LastUpTo
    <3>2. CASE cursor'[v].seq = 0
      BY <2>4, <3>2 DEF Exact, Holds
    <3>. QED BY <2>3, <3>1, <3>2
  <2>6. Exact(pull.seq, pull.token, pull.scope)'
    BY <2>2, <2>4 DEF Exact, Holds
  <2>. QED BY <2>5, <2>6 DEF ReadExactly
<1>11. ASSUME LeaveRest \/ StopPull
       PROVE  ReadExactly'
  <2>1. pull' = None /\ UNCHANGED <<feed, local, cursor>>
    BY <1>11 DEF LeaveRest, StopPull, serverVars
  <2>. QED BY <2>1 DEF ReadExactly, Exact, Holds, LastUpTo
<1>12. UNCHANGED vars => UNCHANGED <<local, edit, cursor, pull>>
  BY DEF vars
<1>13. ApplyPage => ReadExactly'
  BY ApplyReadsExactly
<1>. QED BY <1>2, <1>3, <1>4, <1>5, <1>6, <1>7, <1>8, <1>9, <1>10, <1>11, <1>12, <1>13
         DEF Next, PullStep

(* However often the server is restored and gives its seqs out again, a till that has   *)
(* read to the end of the feed shows the sales the server has (pullSince, change_token, *)
(* restore.sh): where one user reads sales that nobody voids on the till, and if their  *)
(* roles do not change in a pull that has started again already.                        *)
THEOREM RestoredSalesAgree ==
    ASSUME Master = {}, Editable = {}, \A u, v \in User : u = v
    PROVE  Spec /\ [][RolesSteady]_vars => []AgreesWithServer
<1> DEFINE I == /\ TypeInv /\ OrderInv /\ WritesInv /\ FeedInv /\ PageSound
                /\ NoEdits /\ ReadExactly /\ ScopeHeld
<1>1. Init => I
  <2> SUFFICES ASSUME Init PROVE I
    OBVIOUS
  <2>1. PageSound /\ ReadExactly /\ ScopeHeld /\ NoEdits
    BY DEF Init, PageSound, ReadExactly, ScopeHeld, Exact, Holds, NoEdits
  <2>. QED BY <2>1, TypeInit, OrderInit, HistoryInit
<1>2. I /\ [Next]_vars /\ [RolesSteady]_vars => I'
  <2> SUFFICES ASSUME I, [Next]_vars, [RolesSteady]_vars
               PROVE  I'
    OBVIOUS
  <2>1. RolesSteady
    BY DEF RolesSteady, vars
  <2>2. TypeInv' /\ OrderInv'
    BY TypeNext, OrderNext
  <2>3. WritesInv' /\ FeedInv' /\ FeedKeeps
    BY HistoryNext
  <2>4. PageSound'
    BY <2>3, PageSoundNext
  <2>5. ScopeHeld'
    BY <2>1, ScopeHeldNext
  <2>6. ReadExactly' /\ NoEdits'
    BY <2>2, <2>3, ExactlyNext
  <2>. QED BY <2>2, <2>3, <2>4, <2>5, <2>6
<1>3. I => AgreesWithServer
  <2> SUFFICES ASSUME I, NEW u \in User, Current(u),
                      \A c \in feed : c.seq <= cursor[u].seq,
                      NEW r \in roles[u], store[r].version > 0
               PROVE  local[r] = store[r]
    BY DEF AgreesWithServer
  <2>1. r \in Row /\ store[r] \in View
    BY DEF TypeInv, TypeOK, Scope
  <2>2. PICK c \in feed : c.row = r /\ c.version = store[r].version /\ c.by = store[r].by
    BY <2>1 DEF FeedInv, StoreIsLast, OfFeed
  <2>3. /\ c.seq \in Nat /\ c.seq > 0 /\ c.seq <= cursor[u].seq /\ cursor[u].seq \in Nat
        /\ c.version \in Nat /\ \A d \in feed : d.seq \in Nat /\ d.version \in Nat
    BY DEF TypeInv, TypeOK, Change, Cursor
  <2>4. Holds(cursor[u].seq, cursor[u].token) /\ cursor[u].scope = roles[u]
    BY <2>3 DEF Current, Holds
  <2>5. LastUpTo(c, cursor[u].seq)
    <3> SUFFICES ASSUME NEW d \in feed, d.row = c.row, c.seq < d.seq
                 PROVE  FALSE
      BY <2>3 DEF LastUpTo
    <3>1. c.version < d.version /\ d.version <= store[r].version
      BY <2>2 DEF FeedInv, FeedRises
    <3>. QED BY <2>2, <2>3, <3>1
  <2>6. local[r] = [version |-> c.version, by |-> c.by]
    BY <2>2, <2>3, <2>4, <2>5 DEF ReadExactly, Exact
  <2>. QED BY <2>1, <2>2, <2>6 DEF View
<1> HIDE DEF I
<1>. QED BY <1>1, <1>2, <1>3, PTL DEF Spec
=============================================================================
