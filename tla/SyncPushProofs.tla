--------------------------- MODULE SyncPushProofs ---------------------------
(***************************************************************************)
(* Theorems about SyncPush, for any number of devices, users, rows, ops    *)
(* and server threads:                                                     *)
(*   - its type invariant;                                                 *)
(*   - exactly once: AppliedOnce;                                          *)
(*   - an op shown as synced was written: SyncedIsWritten;                 *)
(*   - one in the review list was not: StatusIsTrue, as long as what the   *)
(*     server refuses for now has nothing behind it (HeldBack);            *)
(*   - no edit overwrites a write its author had not seen, and a device    *)
(*     that has caught up holds the server's rows: NoUnseenOverwrite and   *)
(*     DeviceAgrees, under HeldBack and two conditions more (CleanStop,    *)
(*     OwnChain), and without a condition for one user whose edits of      *)
(*     known rows fit one request.                                         *)
(***************************************************************************)
EXTENDS SyncPush, SequenceTheorems, FiniteSetTheorems, WellFoundedInduction, TLAPS

(***************************************************************************)
(* The inductive invariant, beside TypeOK.  A device's push and a thread's *)
(* work name ops that are in the outbox, and a device waits on a thread    *)
(* that works for it.                                                      *)
(***************************************************************************)
Recorded(d) == 1..Len(outbox[d])

AnswersNameOps(d, answers) == \A a \in answers : a.op \in Recorded(d)

FormNamesOp ==
    \A d \in Device : form[d] # None => form[d].again \in {0} \cup Recorded(d)

PushNamesOps ==
    \A d \in Device :
        /\ push[d].todo \cup push[d].batch \subseteq Recorded(d)
        /\ AnswersNameOps(d, push[d].answers)

ThreadNamesOps ==
    \A h \in Handler :
        /\ thread[h].phase # "free" =>
              /\ thread[h].dev \in Device
              /\ thread[h].todo \subseteq Recorded(thread[h].dev)
              /\ AnswersNameOps(thread[h].dev, thread[h].answers)
        /\ thread[h].phase = "free" => thread[h].todo = {}
        /\ thread[h].phase = "settle" => thread[h].verdict # "none"

WaitsOnItsThread ==
    \A d \in Device : push[d].phase = "waiting" =>
        /\ push[d].on \in Handler
        /\ thread[push[d].on].phase # "free"
        /\ thread[push[d].on].dev = d

InFlight == FormNamesOp /\ PushNamesOps /\ ThreadNamesOps /\ WaitsOnItsThread

(***************************************************************************)
(* What an answer or a status says about an op was recorded for it.        *)
(***************************************************************************)
TrueOf(d, a) == a.verdict = "applied" => processed[<<d, a.op>>] = "applied"

AnswersAreTrue ==
    /\ \A h \in Handler : thread[h].phase # "free" =>
          \A a \in thread[h].answers : TrueOf(thread[h].dev, a)
    /\ \A d \in Device : \A a \in push[d].answers : TrueOf(d, a)
    /\ \A d \in Device : \A i \in Recorded(d) :
          outbox[d][i].status = "acked" => processed[<<d, i>>] = "applied"

Inv == TypeOK /\ InFlight /\ AnswersAreTrue /\ AppliedOnce

-----------------------------------------------------------------------------
(* The outbox only grows, and only statuses change in it. *)

OutboxGrows == \A d \in Device : Len(outbox[d]) <= Len(outbox'[d])

(* A change of one status keeps an outbox an outbox. *)
LEMMA StatusIn ==
    ASSUME NEW s \in Seq(Op), NEW i \in 1..Len(s), NEW status \in Status
    PROVE  LET t == [s EXCEPT ![i].status = status] IN
           /\ t \in Seq(Op)
           /\ Len(t) = Len(s)
           /\ \A j \in 1..Len(s) : j # i => t[j] = s[j]
           /\ t[i].status = status
<1> DEFINE op == [s[i] EXCEPT !.status = status]
           t == [s EXCEPT ![i] = op]
<1>1. s[i] \in Op
  BY ElementOfSeq
<1>2. op \in Op /\ op.status = status
  BY <1>1 DEF Op
<1> HIDE DEF op
<1>3. /\ t \in Seq(Op)
      /\ Len(t) = Len(s)
      /\ \A j \in 1..Len(s) : t[j] = IF j = i THEN op ELSE s[j]
  BY <1>2, ExceptSeq
<1>. QED BY <1>2, <1>3 DEF op

(* A new outbox of one device, not shorter than the old one. *)
LEMMA OutboxSet ==
    ASSUME TypeOK, NEW d \in Device, NEW s \in Seq(Op),
           Len(outbox[d]) <= Len(s), Len(s) <= MaxOps, outbox' = [outbox EXCEPT ![d] = s]
    PROVE  /\ outbox' \in [Device -> Seq(Op)]
           /\ \A e \in Device : Len(outbox'[e]) <= MaxOps
           /\ OutboxGrows
           /\ \A e \in Device : outbox'[e] = IF e = d THEN s ELSE outbox[e]
<1>1. outbox' \in [Device -> Seq(Op)] /\ \A e \in Device : Len(outbox[e]) <= MaxOps
  BY DEF TypeOK
<1>2. \A e \in Device : outbox'[e] = IF e = d THEN s ELSE outbox[e]
  BY DEF TypeOK
<1>3. \A e \in Device : Len(outbox[e]) \in Nat
  BY DEF TypeOK
<1>. QED BY <1>1, <1>2, <1>3 DEF OutboxGrows

(* SetStatus: what it keeps of every outbox. *)
LEMMA StatusChange ==
    ASSUME TypeOK, NEW d \in Device, NEW i \in Recorded(d), NEW s \in Status, SetStatus(d, i, s)
    PROVE  /\ outbox' \in [Device -> Seq(Op)]
           /\ \A e \in Device : Len(outbox'[e]) <= MaxOps
           /\ OutboxGrows
           /\ \A e \in Device : Recorded(e)' = Recorded(e)
           /\ \A e \in Device : \A j \in Recorded(e) :
                 outbox'[e][j].status = IF e = d /\ j = i THEN s ELSE outbox[e][j].status
<1> DEFINE seq == [outbox[d] EXCEPT ![i].status = s]
<1>1. outbox[d] \in Seq(Op) /\ i \in 1..Len(outbox[d]) /\ Len(outbox[d]) <= MaxOps
  BY DEF TypeOK, Recorded
<1>2. /\ seq \in Seq(Op)
      /\ Len(seq) = Len(outbox[d])
      /\ \A j \in 1..Len(outbox[d]) : j # i => seq[j] = outbox[d][j]
      /\ seq[i].status = s
  BY <1>1, StatusIn
<1>3. outbox' = [outbox EXCEPT ![d] = seq]
  BY DEF SetStatus
<1> HIDE DEF seq
<1>4. Len(outbox[d]) <= Len(seq) /\ Len(seq) <= MaxOps
  BY <1>1, <1>2
<1>5. /\ outbox' \in [Device -> Seq(Op)]
      /\ \A e \in Device : Len(outbox'[e]) <= MaxOps
      /\ OutboxGrows
      /\ \A e \in Device : outbox'[e] = IF e = d THEN seq ELSE outbox[e]
  BY <1>2, <1>3, <1>4, OutboxSet
<1>6. \A e \in Device : Recorded(e)' = Recorded(e)
  BY <1>2, <1>5 DEF Recorded
<1>. QED BY <1>2, <1>5, <1>6 DEF Recorded

(* Record: the outbox it makes is typed and one op longer. *)
LEMMA Recording ==
    ASSUME TypeOK, NEW d \in Device, NEW r \in Row, NEW k \in Kind, NEW b \in Nat,
           NEW p \in Writer, NEW u \in User, NextOp(d) <= MaxOps
    PROVE  LET recorded == Record(d, r, k, b, p, u) IN
           /\ recorded \in Seq(Op)
           /\ Len(recorded) = Len(outbox[d]) + 1
           /\ Len(recorded) <= MaxOps
           /\ \A j \in 1..Len(outbox[d]) : recorded[j] = outbox[d][j]
           /\ recorded[Len(outbox[d]) + 1].status = "pending"
<1> DEFINE op == [row |-> r, kind |-> k, base |-> b, parent |-> p, actor |-> u,
                  status |-> "pending"]
<1>1. op \in Op
  BY DEF Op, Status
<1>2. outbox[d] \in Seq(Op) /\ Len(outbox[d]) \in Nat
  BY DEF TypeOK
<1> HIDE DEF op
<1>3. /\ Append(outbox[d], op) \in Seq(Op)
      /\ Len(Append(outbox[d], op)) = Len(outbox[d]) + 1
      /\ \A j \in 1..Len(outbox[d]) : Append(outbox[d], op)[j] = outbox[d][j]
      /\ Append(outbox[d], op)[Len(outbox[d]) + 1] = op
  BY <1>1, <1>2
<1>4. op.status = "pending"
  BY DEF op
<1>. QED BY <1>3, <1>4 DEF Record, NextOp, op

(* SetPush changes the push of one device. *)
LEMMA PushSet ==
    ASSUME TypeOK, NEW d \in Device, NEW p \in PushState, SetPush(d, p)
    PROVE  /\ push' \in [Device -> PushState]
           /\ \A e \in Device : push'[e] = IF e = d THEN p ELSE push[e]
BY DEF SetPush, TypeOK

(* SetThread changes one server thread. *)
LEMMA ThreadSet ==
    ASSUME TypeOK, NEW h \in Handler, NEW t \in ThreadState, SetThread(h, t)
    PROVE  /\ thread' \in [Handler -> ThreadState]
           /\ \A g \in Handler : thread'[g] = IF g = h THEN t ELSE thread[g]
BY DEF SetThread, TypeOK

(* A device that does not sync. *)
LEMMA IdleTyped == Idle \in PushState
<1>1. Unbroken \in Chain
  BY DEF Unbroken, Chain
<1>. QED BY <1>1 DEF Idle, PushState, Phase

(* A server thread without work. *)
LEMMA FreeTyped == Free \in ThreadState
<1>1. Unbroken \in Chain
  BY DEF Unbroken, Chain
<1>. QED BY <1>1 DEF Free, ThreadState, ThreadPhase

(* Broken keeps the map of failed rows typed. *)
LEMMA BrokenTyped ==
    ASSUME NEW failed \in Chain, NEW op \in Op, NEW verdict \in Verdict
    PROVE  Broken(failed, op, verdict) \in Chain
<1>1. CASE BreaksChain(op.kind, verdict)
  <2>1. verdict \in Failure
    BY <1>1 DEF BreaksChain, Failure
  <2>. QED BY <1>1, <2>1 DEF Broken, Chain, Op
<1>2. CASE ~BreaksChain(op.kind, verdict)
  BY <1>2 DEF Broken
<1>. QED BY <1>1, <1>2

-----------------------------------------------------------------------------
(* How the invariant survives a change of one variable. *)

(* Ops are only added. *)
LEMMA RecordedGrows ==
    ASSUME TypeOK, TypeOK', OutboxGrows, NEW d \in Device
    PROVE  Recorded(d) \subseteq Recorded(d)'
<1>1. Len(outbox[d]) \in Nat /\ Len(outbox'[d]) \in Nat
  BY DEF TypeOK
<1>. QED BY <1>1 DEF Recorded, OutboxGrows

(* A device records no more ops than the bound. *)
LEMMA RecordedInRange ==
    ASSUME TypeOK, NEW d \in Device
    PROVE  Recorded(d) \subseteq 1..MaxOps
<1>1. Len(outbox[d]) \in Nat /\ Len(outbox[d]) <= MaxOps /\ MaxOps \in Nat
  BY CountsAssumption DEF TypeOK
<1>. QED BY <1>1 DEF Recorded

(* A device's push moves on, and the thread it waits for is another's. *)
LEMMA PushMoves ==
    ASSUME TypeOK, TypeOK', InFlight, OutboxGrows, UNCHANGED thread,
           NEW d \in Device, NEW p \in PushState, SetPush(d, p),
           p.todo \cup p.batch \subseteq Recorded(d), AnswersNameOps(d, p.answers),
           p.phase # "waiting"
    PROVE  PushNamesOps' /\ ThreadNamesOps' /\ WaitsOnItsThread'
<1>1. \A e \in Device : Recorded(e) \subseteq Recorded(e)'
  BY RecordedGrows
<1>2. \A e \in Device : push'[e] = IF e = d THEN p ELSE push[e]
  BY PushSet
<1>3. PushNamesOps'
  BY <1>1, <1>2 DEF InFlight, PushNamesOps, AnswersNameOps
<1>4. ThreadNamesOps'
  BY <1>1 DEF InFlight, ThreadNamesOps, AnswersNameOps
<1>5. WaitsOnItsThread'
  BY <1>2 DEF InFlight, WaitsOnItsThread
<1>. QED BY <1>3, <1>4, <1>5

(* The outbox grows and nothing else that names its ops moves. *)
LEMMA OutboxMoves ==
    ASSUME TypeOK, TypeOK', InFlight, OutboxGrows, UNCHANGED <<push, thread>>
    PROVE  PushNamesOps' /\ ThreadNamesOps' /\ WaitsOnItsThread'
<1>1. \A e \in Device : Recorded(e) \subseteq Recorded(e)'
  BY RecordedGrows
<1>2. PushNamesOps'
  BY <1>1 DEF InFlight, PushNamesOps, AnswersNameOps
<1>3. ThreadNamesOps'
  BY <1>1 DEF InFlight, ThreadNamesOps, AnswersNameOps
<1>4. WaitsOnItsThread'
  BY DEF InFlight, WaitsOnItsThread
<1>. QED BY <1>2, <1>3, <1>4

(* A thread at work moves on, for the same device. *)
LEMMA ThreadMoves ==
    ASSUME TypeOK, InFlight, UNCHANGED clientVars,
           NEW h \in Handler, NEW t \in ThreadState, SetThread(h, t),
           thread[h].phase # "free", t.phase # "free", t.dev = thread[h].dev,
           t.todo \subseteq Recorded(t.dev), AnswersNameOps(t.dev, t.answers),
           t.phase = "settle" => t.verdict # "none"
    PROVE  InFlight'
<1>1. \A g \in Handler : thread'[g] = IF g = h THEN t ELSE thread[g]
  BY ThreadSet
<1>2. \A e \in Device : Recorded(e)' = Recorded(e)
  BY DEF clientVars, Recorded
<1>3. t.dev \in Device
  BY DEF InFlight, ThreadNamesOps
<1>4. FormNamesOp' /\ PushNamesOps'
  BY <1>2 DEF InFlight, FormNamesOp, PushNamesOps, AnswersNameOps, clientVars
<1>5. ThreadNamesOps'
  BY <1>1, <1>2, <1>3 DEF InFlight, ThreadNamesOps, AnswersNameOps
<1>6. WaitsOnItsThread'
  BY <1>1 DEF InFlight, WaitsOnItsThread, clientVars
<1>. QED BY <1>4, <1>5, <1>6 DEF InFlight

(* No outcome is ever replaced, so what an answer says stays true. *)
OutcomesStay == \A o \in OpId : processed[o] = "applied" => processed'[o] = "applied"

(* The answers of a device's thread are to its ops. *)
LEMMA ThreadAnswers ==
    ASSUME TypeOK, InFlight, AnswersAreTrue, UNCHANGED clientVars, OutcomesStay,
           NEW h \in Handler, NEW t \in ThreadState, SetThread(h, t), thread[h].phase # "free",
           t.dev = thread[h].dev,
           \A a \in t.answers : a \in thread[h].answers \/
               (a.verdict = "applied" => processed'[<<t.dev, a.op>>] = "applied")
    PROVE  AnswersAreTrue'
<1>1. \A g \in Handler : thread'[g] = IF g = h THEN t ELSE thread[g]
  BY ThreadSet
<1>2. ASSUME NEW g \in Handler, thread'[g].phase # "free", NEW a \in thread'[g].answers
      PROVE  TrueOf(thread[g].dev, a)'
  <2>1. thread'[g].dev = thread[g].dev
    BY <1>1
  <2>2. CASE a \in thread[g].answers
    <3>1. thread[g].phase # "free"
      BY <1>1, <1>2
    <3>2. TrueOf(thread[g].dev, a)
      BY <2>2, <3>1 DEF AnswersAreTrue
    <3>3. <<thread[g].dev, a.op>> \in OpId
      BY <2>2, <3>1 DEF InFlight, ThreadNamesOps, AnswersNameOps, TypeOK, ThreadState, Answer,
                        OpId
    <3>. QED BY <2>1, <3>2, <3>3 DEF TrueOf, OutcomesStay
  <2>3. CASE a \notin thread[g].answers
    BY <1>1, <1>2, <2>3 DEF TrueOf
  <2>. QED BY <2>2, <2>3
<1>3. ASSUME NEW d \in Device, NEW a \in push[d].answers
      PROVE  TrueOf(d, a)'
  <2>1. <<d, a.op>> \in OpId
    BY DEF TypeOK, PushState, Answer, OpId
  <2>. QED BY <2>1 DEF AnswersAreTrue, TrueOf, OutcomesStay
<1>4. ASSUME NEW d \in Device, NEW i \in Recorded(d), outbox[d][i].status = "acked"
      PROVE  processed'[<<d, i>>] = "applied"
  <2>1. <<d, i>> \in OpId
    BY RecordedInRange DEF OpId
  <2>. QED BY <1>4, <2>1 DEF AnswersAreTrue, OutcomesStay
<1>5. /\ push' = push /\ outbox' = outbox
      /\ \A e \in Device : Recorded(e)' = Recorded(e)
  BY DEF clientVars, Recorded
<1>6. \A d \in Device : \A a \in push'[d].answers : TrueOf(d, a)'
  BY <1>3, <1>5
<1>7. \A d \in Device : \A i \in Recorded(d)' :
          outbox'[d][i].status = "acked" => processed'[<<d, i>>] = "applied"
  BY <1>4, <1>5
<1>. QED BY <1>2, <1>6, <1>7 DEF AnswersAreTrue, TrueOf

(* A thread answers an op: what Reply leaves behind. *)
LEMMA Replying ==
    ASSUME TypeOK, InFlight, AnswersAreTrue, UNCHANGED clientVars, OutcomesStay,
           NEW h \in Handler, NEW i \in thread[h].todo, NEW v \in Verdict, NEW c \in View,
           Reply(h, i, v, c), v = "applied" => processed'[IdOf(h, i)] = "applied"
    PROVE  thread' \in [Handler -> ThreadState] /\ InFlight' /\ AnswersAreTrue'
<1> DEFINE f == Broken(thread[h].failed, OpOf(h, i), v)
           a == [op |-> i, verdict |-> v, current |-> c]
           t == [thread[h] EXCEPT
                    !.phase = IF thread[h].todo \ {i} = {} THEN "done" ELSE "lookup",
                    !.todo = thread[h].todo \ {i}, !.verdict = "none",
                    !.failed = f, !.answers = @ \cup {a}]
<1>1. /\ thread[h] \in ThreadState
      /\ thread[h].phase # "free"
      /\ thread[h].dev \in Device
      /\ i \in Recorded(thread[h].dev)
      /\ i \in 1..MaxOps
  BY DEF TypeOK, InFlight, ThreadNamesOps, ThreadState
<1>2. OpOf(h, i) \in Op
  BY <1>1, ElementOfSeq DEF TypeOK, OpOf, Recorded
<1>3. f \in Chain
  BY <1>1, <1>2, BrokenTyped DEF ThreadState
<1>4. a \in Answer
  BY <1>1 DEF Answer
<1>5. SetThread(h, t)
  BY DEF Reply
<1> HIDE DEF f, a
<1>6. t \in ThreadState
  BY <1>1, <1>3, <1>4 DEF ThreadState, ThreadPhase
<1>7. /\ t.phase \in {"done", "lookup"}
      /\ t.dev = thread[h].dev
      /\ t.todo = thread[h].todo \ {i}
      /\ t.answers = thread[h].answers \cup {a}
  BY <1>1 DEF ThreadState
<1>8. a.op = i /\ a.verdict = v
  BY DEF a
<1> HIDE DEF t
<1>9. InFlight'
  <2>1. t.todo \subseteq Recorded(t.dev) /\ AnswersNameOps(t.dev, t.answers)
    BY <1>1, <1>7, <1>8 DEF InFlight, ThreadNamesOps, AnswersNameOps
  <2>. QED BY <1>1, <1>5, <1>6, <1>7, <2>1, ThreadMoves
<1>10. AnswersAreTrue'
  <2>1. a.verdict = "applied" => processed'[<<t.dev, a.op>>] = "applied"
    <3>1. SUFFICES ASSUME v = "applied" PROVE processed'[<<thread[h].dev, i>>] = "applied"
      BY <1>7, <1>8
    <3>. QED BY <3>1 DEF IdOf
  <2>. QED BY <1>1, <1>5, <1>6, <1>7, <2>1, ThreadAnswers
<1>11. thread' \in [Handler -> ThreadState]
  BY <1>5, <1>6, ThreadSet
<1>. QED BY <1>9, <1>10, <1>11

(* A write of the server adds one change, by its writer. *)
LEMMA Writing ==
    ASSUME TypeOK, NEW r \in Row, NEW w \in Writer, Write(r, w)
    PROVE  /\ store' \in [Row -> View]
           /\ feed' \in Seq(Change)
           /\ WrittenBy(w)' = WrittenBy(w) \cup {Len(feed) + 1}
           /\ \A o \in OpId \ {w} : WrittenBy(o)' = WrittenBy(o)
<1> DEFINE next == store[r].version + 1
           c == [row |-> r, version |-> next, by |-> w]
<1>1. next \in Nat /\ feed \in Seq(Change)
  BY DEF TypeOK, View
<1>2. c \in Change /\ c.by = w /\ [version |-> next, by |-> w] \in View
  BY <1>1 DEF Change, View
<1>3. feed' = Append(feed, c) /\ store' = [store EXCEPT ![r] = [version |-> next, by |-> w]]
  BY DEF Write
<1> HIDE DEF c, next
<1>4. store' \in [Row -> View]
  BY <1>2, <1>3 DEF TypeOK
<1>5. /\ feed' \in Seq(Change)
      /\ Len(feed') = Len(feed) + 1
      /\ \A n \in 1..Len(feed) : feed'[n] = feed[n]
      /\ feed'[Len(feed) + 1] = c
  BY <1>1, <1>2, <1>3
<1>6. Len(feed) \in Nat /\ DOMAIN feed = 1..Len(feed) /\ DOMAIN feed' = 1..(Len(feed) + 1)
  BY <1>1, <1>5
<1>7. DOMAIN feed' = DOMAIN feed \cup {Len(feed) + 1}
  BY <1>6
<1>8. WrittenBy(w)' = WrittenBy(w) \cup {Len(feed) + 1}
  BY <1>2, <1>5, <1>6, <1>7 DEF WrittenBy
<1>9. \A o \in OpId \ {w} : WrittenBy(o)' = WrittenBy(o)
  BY <1>2, <1>5, <1>6, <1>7 DEF WrittenBy
<1>. QED BY <1>4, <1>5, <1>8, <1>9

-----------------------------------------------------------------------------
(* The steps of a server thread. *)

(* What is known of a thread and the op it is at. *)
LEMMA AtWork ==
    ASSUME TypeOK, InFlight, NEW h \in Handler, NEW i \in thread[h].todo
    PROVE  /\ thread[h] \in ThreadState
           /\ thread[h].phase # "free"
           /\ thread[h].dev \in Device
           /\ IdOf(h, i) \in OpId
           /\ OpOf(h, i) \in Op
           /\ store[OpOf(h, i).row] \in View
<1>1. /\ thread[h] \in ThreadState
      /\ thread[h].phase # "free"
      /\ thread[h].dev \in Device
      /\ i \in Recorded(thread[h].dev)
  BY DEF TypeOK, InFlight, ThreadNamesOps
<1>2. OpOf(h, i) \in Op
  BY <1>1, ElementOfSeq DEF TypeOK, OpOf, Recorded
<1>3. IdOf(h, i) \in OpId
  BY <1>1, RecordedInRange DEF IdOf, OpId
<1>4. store[OpOf(h, i).row] \in View
  BY <1>2 DEF TypeOK, Op
<1>. QED BY <1>1, <1>2, <1>3, <1>4

(* A thread answers with the outcome recorded before (Replay). *)
LEMMA ReplyAgain ==
    ASSUME Inv, NEW h \in Handler, NEW i \in thread[h].todo, processed[IdOf(h, i)] # "none",
           Replay(h, i), UNCHANGED <<clientVars, store, feed, processed, faults>>
    PROVE  Inv'
<1>1. processed[IdOf(h, i)] \in Verdict
  BY AtWork DEF Inv, TypeOK, Verdict
<1>2. store[OpOf(h, i).row] \in View
  BY AtWork DEF Inv
<1>3. OutcomesStay
  BY DEF OutcomesStay
<1>4. thread' \in [Handler -> ThreadState] /\ InFlight' /\ AnswersAreTrue'
  BY <1>1, <1>2, <1>3, Replying DEF Inv, Replay
<1>5. TypeOK'
  BY <1>4 DEF Inv, TypeOK, clientVars
<1>6. AppliedOnce'
  BY DEF Inv, AppliedOnce, WrittenBy
<1>. QED BY <1>4, <1>5, <1>6 DEF Inv

(* A thread at work changes its own state and nothing else. *)
LEMMA ThreadOnly ==
    ASSUME Inv, NEW h \in Handler, thread[h].phase # "free",
           NEW phase \in {"apply", "settle"}, NEW v \in {"none"} \cup Failure,
           phase = "settle" => v # "none",
           SetThread(h, [thread[h] EXCEPT !.phase = phase, !.verdict = v]),
           UNCHANGED <<clientVars, store, feed, processed, faults>>
    PROVE  Inv'
<1> DEFINE t == [thread[h] EXCEPT !.phase = phase, !.verdict = v]
<1>1. thread[h] \in ThreadState
  BY DEF Inv, TypeOK
<1>2. t \in ThreadState
  BY <1>1 DEF ThreadState, ThreadPhase
<1>3. /\ t.phase = phase /\ t.verdict = v /\ t.dev = thread[h].dev
      /\ t.todo = thread[h].todo /\ t.answers = thread[h].answers
  BY <1>1 DEF ThreadState
<1>4. SetThread(h, t)
  OBVIOUS
<1> HIDE DEF t
<1>5. t.todo \subseteq Recorded(t.dev) /\ AnswersNameOps(t.dev, t.answers)
  BY <1>3 DEF Inv, InFlight, ThreadNamesOps
<1>6. InFlight'
  BY <1>2, <1>3, <1>4, <1>5, ThreadMoves DEF Inv
<1>7. OutcomesStay
  BY DEF OutcomesStay
<1>8. AnswersAreTrue'
  BY <1>2, <1>3, <1>4, <1>7, ThreadAnswers DEF Inv
<1>9. TypeOK'
  <2>1. thread' \in [Handler -> ThreadState]
    BY <1>2, <1>4, ThreadSet DEF Inv
  <2>. QED BY <2>1 DEF Inv, TypeOK, clientVars
<1>10. AppliedOnce'
  BY DEF Inv, AppliedOnce, WrittenBy
<1>. QED BY <1>6, <1>8, <1>9, <1>10 DEF Inv

(* An op without an outcome gets one, and the thread answers it. *)
LEMMA ReplyFirst ==
    ASSUME Inv, NEW h \in Handler, NEW i \in thread[h].todo, NEW v \in Outcome, NEW c \in View,
           processed[IdOf(h, i)] = "none", processed' = [processed EXCEPT ![IdOf(h, i)] = v],
           Reply(h, i, v, c), UNCHANGED clientVars
    PROVE  /\ processed' \in [OpId -> {"none"} \cup Outcome]
           /\ thread' \in [Handler -> ThreadState]
           /\ InFlight' /\ AnswersAreTrue'
<1>1. IdOf(h, i) \in OpId
  BY AtWork DEF Inv
<1>2. processed' \in [OpId -> {"none"} \cup Outcome]
  BY DEF Inv, TypeOK
<1>3. OutcomesStay /\ (v = "applied" => processed'[IdOf(h, i)] = "applied")
  BY <1>1 DEF Inv, TypeOK, OutcomesStay
<1>4. v \in Verdict
  BY DEF Verdict
<1>. QED BY <1>2, <1>3, <1>4, Replying DEF Inv

(* A failure found by a thread is to be recorded next. *)
LEMMA Settling ==
    ASSUME Inv, NEW h \in Handler, NEW i \in thread[h].todo,
           NEW v \in {"conflict", "rejected"}, ToSettle(h, v),
           UNCHANGED <<clientVars, store, feed, processed, faults>>
    PROVE  Inv'
<1>1. thread[h].phase # "free"
  BY AtWork DEF Inv
<1>2. v \in {"none"} \cup Failure /\ v # "none"
  BY DEF Failure
<1>3. SetThread(h, [thread[h] EXCEPT !.phase = "settle", !.verdict = v])
  BY DEF ToSettle
<1>. QED BY <1>1, <1>2, <1>3, ThreadOnly

(* The first write of an op, recorded with it. *)
LEMMA WriteOnce ==
    ASSUME Inv, NEW id \in OpId, NEW r \in Row, processed[id] = "none", Write(r, id),
           processed' = [processed EXCEPT ![id] = "applied"]
    PROVE  store' \in [Row -> View] /\ feed' \in Seq(Change) /\ AppliedOnce'
<1>1. id \in Writer
  BY DEF Writer
<1>2. /\ store' \in [Row -> View]
      /\ feed' \in Seq(Change)
      /\ WrittenBy(id)' = WrittenBy(id) \cup {Len(feed) + 1}
      /\ \A o \in OpId \ {id} : WrittenBy(o)' = WrittenBy(o)
  BY <1>1, Writing DEF Inv
<1>3. WrittenBy(id) = {}
  BY DEF Inv, AppliedOnce
<1>4. \A o \in OpId : processed'[o] = IF o = id THEN "applied" ELSE processed[o]
  BY DEF Inv, TypeOK
<1>5. ASSUME NEW o \in OpId
      PROVE  /\ \A m, n \in WrittenBy(o)' : m = n
             /\ processed'[o] = "applied" <=> WrittenBy(o)' # {}
  <2>1. CASE o = id
    BY <1>2, <1>3, <1>4, <2>1
  <2>2. CASE o # id
    BY <1>2, <1>4, <2>2 DEF Inv, AppliedOnce
  <2>. QED BY <2>1, <2>2
<1>. QED BY <1>2, <1>5 DEF AppliedOnce

(* A thread answers an op without recording an outcome. *)
LEMMA AnswerOnly ==
    ASSUME Inv, NEW h \in Handler, NEW i \in thread[h].todo,
           Reply(h, i, "retry", store[OpOf(h, i).row]), faults' \in Faults,
           UNCHANGED <<clientVars, store, feed, processed>>
    PROVE  Inv'
<1>1. OutcomesStay /\ store[OpOf(h, i).row] \in View /\ "retry" \in Verdict
  BY AtWork DEF Inv, OutcomesStay, Verdict
<1>2. thread' \in [Handler -> ThreadState] /\ InFlight' /\ AnswersAreTrue'
  BY <1>1, Replying DEF Inv
<1>3. TypeOK'
  BY <1>2 DEF Inv, TypeOK, clientVars
<1>4. AppliedOnce'
  BY DEF Inv, AppliedOnce, WrittenBy
<1>. QED BY <1>2, <1>3, <1>4 DEF Inv

(* Every step of a server thread preserves the invariant. *)
LEMMA ServerSteps ==
    ASSUME Inv, NEW h \in Handler, ServerStep(h)
    PROVE  Inv'
<1>1. ASSUME NEW i \in thread[h].todo, LookUp(h, i)
      PROVE  Inv'
  <2>1. CASE processed[IdOf(h, i)] # "none"
    BY <1>1, <2>1, ReplyAgain DEF LookUp
  <2>2. CASE processed[IdOf(h, i)] = "none"
    <3> DEFINE earlier == thread[h].failed[OpOf(h, i).row]
               phase == IF earlier = "none" THEN "apply" ELSE "settle"
    <3>1. thread[h].phase # "free" /\ earlier \in {"none"} \cup Failure
      BY AtWork DEF Inv, ThreadState, Chain, Op
    <3>2. /\ SetThread(h, [thread[h] EXCEPT !.phase = phase, !.verdict = earlier])
          /\ UNCHANGED <<clientVars, store, feed, processed, faults>>
      BY <1>1, <2>2 DEF LookUp
    <3>3. phase \in {"apply", "settle"} /\ (phase = "settle" => earlier # "none")
      OBVIOUS
    <3> HIDE DEF earlier, phase
    <3>. QED BY <3>1, <3>2, <3>3, ThreadOnly
  <2>. QED BY <2>1, <2>2
<1>2. ASSUME NEW i \in thread[h].todo, RefuseForNow(h, i)
      PROVE  Inv'
  <2>1. /\ Reply(h, i, "retry", store[OpOf(h, i).row])
        /\ UNCHANGED <<clientVars, store, feed, processed>>
        /\ faults.refused < MaxRefused
        /\ faults' = [faults EXCEPT !.refused = @ + 1]
    BY <1>2 DEF RefuseForNow
  <2>2. faults' \in Faults
    <3>1. faults \in Faults
      BY DEF Inv, TypeOK
    <3>2. faults.refused + 1 \in 0..MaxRefused
      BY <2>1, <3>1, CountsAssumption DEF Faults
    <3>. QED BY <2>1, <3>1, <3>2 DEF Faults
  <2>. QED BY <2>1, <2>2, AnswerOnly
<1>8. ASSUME NEW i \in thread[h].todo, NotThereYet(h, i)
      PROVE  Inv'
  <2>1. /\ Reply(h, i, "retry", store[OpOf(h, i).row])
        /\ UNCHANGED <<clientVars, store, feed, processed, faults>>
    BY <1>8 DEF NotThereYet
  <2>. QED BY <2>1, AnswerOnly DEF Inv, TypeOK
<1>3. ASSUME NEW i \in thread[h].todo, RefuseForGood(h, i)
      PROVE  Inv'
  BY <1>3, Settling DEF RefuseForGood
<1>4. ASSUME NEW i \in thread[h].todo, LoseCompareAndSet(h, i)
      PROVE  Inv'
  BY <1>4, Settling DEF LoseCompareAndSet
<1>5. ASSUME NEW i \in thread[h].todo, ApplyOp(h, i)
      PROVE  Inv'
  <2> DEFINE id == IdOf(h, i)
             row == OpOf(h, i).row
  <2>1. CASE processed[id] # "none"
    BY <1>5, <2>1, ReplyAgain DEF ApplyOp
  <2>2. CASE processed[id] = "none"
    <3>1. id \in OpId /\ row \in Row
      BY AtWork DEF Inv, Op
    <3>2. /\ Write(row, id)
          /\ processed' = [processed EXCEPT ![id] = "applied"]
          /\ Reply(h, i, "applied", store'[row])
          /\ UNCHANGED <<clientVars, faults>>
      BY <1>5, <2>2 DEF ApplyOp
    <3>3. "applied" \in Outcome
      BY DEF Outcome
    <3>4. store' \in [Row -> View] /\ feed' \in Seq(Change) /\ AppliedOnce'
      BY <2>2, <3>1, <3>2, WriteOnce
    <3>5. store'[row] \in View
      BY <3>1, <3>4
    <3>6. /\ processed' \in [OpId -> {"none"} \cup Outcome]
          /\ thread' \in [Handler -> ThreadState]
          /\ InFlight' /\ AnswersAreTrue'
      BY <2>2, <3>2, <3>3, <3>5, ReplyFirst
    <3>7. TypeOK'
      BY <3>2, <3>4, <3>6 DEF Inv, TypeOK, clientVars
    <3>. QED BY <3>4, <3>6, <3>7 DEF Inv
  <2>. QED BY <2>1, <2>2
<1>6. ASSUME NEW i \in thread[h].todo, Settle(h, i)
      PROVE  Inv'
  <2> DEFINE id == IdOf(h, i)
             v == thread[h].verdict
  <2>1. CASE processed[id] # "none"
    BY <1>6, <2>1, ReplyAgain DEF Settle
  <2>2. CASE processed[id] = "none"
    <3>1. id \in OpId /\ store[OpOf(h, i).row] \in View
      BY AtWork DEF Inv
    <3>2. v \in Failure
      BY <1>6, AtWork DEF Inv, InFlight, ThreadNamesOps, ThreadState, Settle, At
    <3>3. v \in Outcome /\ v # "applied"
      BY <3>2 DEF Failure, Outcome
    <3>4. /\ processed' = [processed EXCEPT ![id] = v]
          /\ Reply(h, i, v, store[OpOf(h, i).row])
          /\ UNCHANGED <<clientVars, store, feed, faults>>
      BY <1>6, <2>2 DEF Settle
    <3> HIDE DEF v
    <3>5. /\ processed' \in [OpId -> {"none"} \cup Outcome]
          /\ thread' \in [Handler -> ThreadState]
          /\ InFlight' /\ AnswersAreTrue'
      BY <2>2, <3>1, <3>3, <3>4, ReplyFirst
    <3>6. TypeOK'
      BY <3>4, <3>5 DEF Inv, TypeOK, clientVars
    <3>7. AppliedOnce'
      <4>1. \A o \in OpId : processed'[o] = IF o = id THEN v ELSE processed[o]
        BY <3>4 DEF Inv, TypeOK
      <4>2. \A o \in OpId : WrittenBy(o)' = WrittenBy(o)
        BY <3>4 DEF WrittenBy
      <4> HIDE DEF id
      <4>. QED BY <2>2, <3>3, <4>1, <4>2 DEF Inv, AppliedOnce
    <3>. QED BY <3>5, <3>6, <3>7 DEF Inv
  <2>. QED BY <2>1, <2>2
<1>7. ASSUME EndUnheard(h)
      PROVE  Inv'
  <2>1. /\ thread[h].phase = "done" /\ SetThread(h, Free)
        /\ \A d \in Device : push[d].on # h
        /\ UNCHANGED <<clientVars, store, feed, processed, faults>>
    BY <1>7 DEF EndUnheard
  <2>2. /\ thread' \in [Handler -> ThreadState]
        /\ \A g \in Handler : thread'[g] = IF g = h THEN Free ELSE thread[g]
    BY <2>1, FreeTyped, ThreadSet DEF Inv
  <2>3. /\ push' = push /\ outbox' = outbox /\ form' = form
        /\ \A d \in Device : Recorded(d)' = Recorded(d)
    BY <2>1 DEF clientVars, Recorded
  <2>4. Free.phase = "free" /\ Free.todo = {}
    BY DEF Free
  <2>5. FormNamesOp' /\ PushNamesOps'
    BY <2>3 DEF Inv, InFlight, FormNamesOp, PushNamesOps, AnswersNameOps
  <2>6. ThreadNamesOps'
    BY <2>2, <2>3, <2>4 DEF Inv, InFlight, ThreadNamesOps, AnswersNameOps
  <2>7. WaitsOnItsThread'
    BY <2>1, <2>2, <2>3 DEF Inv, InFlight, WaitsOnItsThread
  <2>8. AnswersAreTrue'
    BY <2>1, <2>2, <2>3, <2>4 DEF Inv, AnswersAreTrue, TrueOf
  <2>9. TypeOK'
    BY <2>1, <2>2 DEF Inv, TypeOK, clientVars
  <2>10. AppliedOnce'
    BY <2>1 DEF Inv, AppliedOnce, WrittenBy
  <2>. QED BY <2>5, <2>6, <2>7, <2>8, <2>9, <2>10 DEF Inv, InFlight
<1>. QED BY <1>1, <1>2, <1>3, <1>4, <1>5, <1>6, <1>7, <1>8 DEF ServerStep

-----------------------------------------------------------------------------
(* The steps of the people at a till. *)

(* What the outbox gains is pending, so nothing new is shown as synced. *)
LEMMA NothingAcked ==
    ASSUME Inv, UNCHANGED <<push, thread, processed>>,
           \A d \in Device : \A i \in Recorded(d)' : outbox'[d][i].status = "acked" =>
               i \in Recorded(d) /\ outbox[d][i].status = "acked"
    PROVE  AnswersAreTrue'
<1>1. \A d \in Device : \A i \in Recorded(d)' :
          outbox'[d][i].status = "acked" => processed'[<<d, i>>] = "applied"
  BY DEF Inv, AnswersAreTrue
<1>. QED BY <1>1 DEF Inv, AnswersAreTrue, TrueOf

(* An edit recorded by d: the new outbox of d is one op longer, that op is     *)
(* pending, and an older one may have been dismissed.                          *)
LEMMA EditRecorded ==
    ASSUME Inv, TypeOK', NEW d \in Device, NEW s \in Seq(Op), Len(s) = Len(outbox[d]) + 1,
           Len(s) <= MaxOps, outbox' = [outbox EXCEPT ![d] = s], s[Len(s)].status = "pending",
           \A j \in 1..Len(outbox[d]) : s[j] = outbox[d][j] \/ s[j].status = "dismissed",
           FormNamesOp', UNCHANGED <<push, thread, feed, processed>>
    PROVE  Inv'
<1>1. Len(outbox[d]) \in Nat /\ Len(outbox[d]) <= Len(s)
  BY DEF Inv, TypeOK
<1>2. OutboxGrows /\ \A e \in Device : outbox'[e] = IF e = d THEN s ELSE outbox[e]
  BY <1>1, OutboxSet DEF Inv
<1>3. InFlight'
  BY <1>2, OutboxMoves DEF Inv, InFlight
<1>4. ASSUME NEW e \in Device, NEW i \in Recorded(e)', outbox'[e][i].status = "acked"
      PROVE  i \in Recorded(e) /\ outbox[e][i].status = "acked"
  <2>1. CASE e # d
    BY <1>2, <1>4, <2>1 DEF Recorded
  <2>2. CASE e = d /\ i = Len(s)
    BY <1>2, <1>4, <2>2
  <2>3. CASE e = d /\ i # Len(s)
    <3>1. i \in 1..Len(outbox[d])
      BY <1>1, <1>2, <2>3 DEF Recorded
    <3>. QED BY <1>2, <1>4, <2>3, <3>1 DEF Recorded
  <2>. QED BY <2>1, <2>2, <2>3
<1>5. AnswersAreTrue'
  BY <1>4, NothingAcked
<1>6. AppliedOnce'
  BY DEF Inv, AppliedOnce, WrittenBy
<1>. QED BY <1>3, <1>5, <1>6 DEF Inv

(* A step that leaves the outbox, the push, the threads and the server alone. *)
LEMMA FormMoves ==
    ASSUME Inv, form' \in [Device -> {None} \cup Form], FormNamesOp',
           UNCHANGED <<outbox, local, push, cursor, serverVars, faults>>
    PROVE  Inv'
<1>1. TypeOK'
  BY DEF Inv, TypeOK, serverVars
<1>2. OutboxGrows
  <2>1. \A d \in Device : Len(outbox[d]) \in Nat
    BY DEF Inv, TypeOK
  <2>. QED BY <2>1 DEF OutboxGrows
<1>3. InFlight'
  BY <1>1, <1>2, OutboxMoves DEF Inv, InFlight, serverVars
<1>4. AnswersAreTrue'
  BY NothingAcked DEF serverVars, Recorded
<1>5. AppliedOnce'
  BY DEF Inv, AppliedOnce, WrittenBy, serverVars
<1>. QED BY <1>1, <1>3, <1>4, <1>5 DEF Inv

(* Every step of the people at a till preserves the invariant. *)
LEMMA UserSteps ==
    ASSUME Inv, NEW d \in Device, UserStep(d)
    PROVE  Inv'
<1>1. ASSUME NEW u \in User, NEW r \in Row, CreateRow(d, u, r)
      PROVE  Inv'
  <2> DEFINE s == Record(d, r, "insert", 0, Origin, u)
  <2>1. /\ NextOp(d) <= MaxOps
        /\ outbox' = [outbox EXCEPT ![d] = s]
        /\ local' = [local EXCEPT ![d][r] = [version |-> 1, by |-> <<d, NextOp(d)>>]]
        /\ UNCHANGED <<form, push, cursor, store, feed, processed, thread, faults>>
    BY <1>1 DEF CreateRow, serverVars
  <2>2. "insert" \in Kind /\ 0 \in Nat /\ Origin \in Writer
    BY CountsAssumption DEF Kind, Origin, Writer
  <2>3. /\ s \in Seq(Op)
        /\ Len(s) = Len(outbox[d]) + 1
        /\ Len(s) <= MaxOps
        /\ \A j \in 1..Len(outbox[d]) : s[j] = outbox[d][j]
        /\ s[Len(outbox[d]) + 1].status = "pending"
    BY ZenonT(60), <2>1, <2>2, Recording DEF Inv
  <2>4. Len(outbox[d]) \in Nat /\ Len(outbox[d]) <= Len(s)
    BY <2>3 DEF Inv, TypeOK
  <2> HIDE DEF s
  <2>5. <<d, NextOp(d)>> \in OpId
    BY <2>1, <2>4, CountsAssumption DEF OpId, NextOp
  <2>6. [version |-> 1, by |-> <<d, NextOp(d)>>] \in View
    BY <2>5 DEF View, Writer
  <2>7. local' \in [Device -> [Row -> View]]
    BY <2>1, <2>6 DEF Inv, TypeOK
  <2>8. /\ outbox' \in [Device -> Seq(Op)]
        /\ \A e \in Device : Len(outbox'[e]) <= MaxOps
        /\ OutboxGrows
    BY <2>1, <2>3, <2>4, OutboxSet DEF Inv
  <2>9. TypeOK'
    BY <2>1, <2>7, <2>8 DEF Inv, TypeOK
  <2>10. FormNamesOp'
    <3>1. \A e \in Device : Recorded(e) \subseteq Recorded(e)'
      BY <2>8, <2>9, RecordedGrows DEF Inv
    <3>. QED BY <2>1, <3>1 DEF Inv, InFlight, FormNamesOp
  <2>. QED BY <2>1, <2>3, <2>9, <2>10, EditRecorded
<1>2. ASSUME NEW r \in Row, OpenForm(d, r)
      PROVE  Inv'
  <2> DEFINE f == [row |-> r, view |-> local[d][r], again |-> 0]
  <2>1. /\ form' = [form EXCEPT ![d] = f]
        /\ UNCHANGED <<outbox, local, push, cursor, serverVars, faults>>
    BY <1>2 DEF OpenForm
  <2>2. f \in Form /\ f.again = 0
    BY CountsAssumption DEF Form, Inv, TypeOK
  <2> HIDE DEF f
  <2>3. form' \in [Device -> {None} \cup Form] /\ FormNamesOp'
    BY <2>1, <2>2 DEF Inv, TypeOK, InFlight, FormNamesOp, Recorded
  <2>. QED BY <2>1, <2>3, FormMoves
<1>3. ASSUME NEW u \in User, SaveForm(d, u)
      PROVE  Inv'
  <2> DEFINE f == form[d]
             saved == Record(d, f.row, "update", f.view.version, f.view.by, u)
             s == IF f.again = 0 THEN saved ELSE [saved EXCEPT ![f.again].status = "dismissed"]
             copy == [version |-> f.view.version + 1, by |-> <<d, NextOp(d)>>]
  <2>1. /\ f # None
        /\ NextOp(d) <= MaxOps
        /\ outbox' = [outbox EXCEPT ![d] = s]
        /\ local' = [local EXCEPT ![d][f.row] = copy]
        /\ form' = [form EXCEPT ![d] = None]
        /\ UNCHANGED <<push, cursor, store, feed, processed, thread, faults>>
    BY <1>3 DEF SaveForm, serverVars
  <2>2. /\ f \in Form
        /\ f.again \in {0} \cup Recorded(d)
    BY <2>1 DEF Inv, TypeOK, InFlight, FormNamesOp
  <2>3. f.row \in Row /\ f.view.version \in Nat /\ f.view.by \in Writer /\ "update" \in Kind
    BY <2>2 DEF Form, View, Kind
  <2>4. /\ saved \in Seq(Op)
        /\ Len(saved) = Len(outbox[d]) + 1
        /\ Len(saved) <= MaxOps
        /\ \A j \in 1..Len(outbox[d]) : saved[j] = outbox[d][j]
        /\ saved[Len(outbox[d]) + 1].status = "pending"
    BY ZenonT(60), <2>1, <2>3, Recording DEF Inv
  <2>5. Len(outbox[d]) \in Nat
    BY DEF Inv, TypeOK
  <2>6. <<d, NextOp(d)>> \in OpId
    BY <2>1, <2>5, CountsAssumption DEF OpId, NextOp
  <2>7. copy \in View
    BY <2>3, <2>6 DEF View, Writer
  <2> HIDE DEF saved, copy
  <2>8. /\ s \in Seq(Op)
        /\ Len(s) = Len(outbox[d]) + 1
        /\ \A j \in 1..Len(outbox[d]) : s[j] = outbox[d][j] \/ s[j].status = "dismissed"
        /\ s[Len(s)].status = "pending"
    <3>1. CASE f.again = 0
      BY <2>4, <3>1
    <3>2. CASE f.again # 0
      <4>1. f.again \in 1..Len(outbox[d]) /\ f.again \in 1..Len(saved)
        BY <2>2, <2>4, <2>5, <3>2 DEF Recorded
      <4>2. "dismissed" \in Status
        BY DEF Status
      <4>3. /\ s \in Seq(Op)
            /\ Len(s) = Len(saved)
            /\ \A j \in 1..Len(saved) : j # f.again => s[j] = saved[j]
            /\ s[f.again].status = "dismissed"
        BY <2>4, <3>2, <4>1, <4>2, StatusIn
      <4>. QED BY <2>4, <2>5, <4>1, <4>3
    <3>. QED BY <3>1, <3>2
  <2> HIDE DEF s
  <2>9. /\ outbox' \in [Device -> Seq(Op)]
        /\ \A e \in Device : Len(outbox'[e]) <= MaxOps
        /\ OutboxGrows
    <3>1. Len(outbox[d]) <= Len(s) /\ Len(s) <= MaxOps
      BY <2>4, <2>5, <2>8
    <3>. QED BY <2>1, <2>8, <3>1, OutboxSet DEF Inv
  <2>10. local' \in [Device -> [Row -> View]]
    BY <2>1, <2>7 DEF Inv, TypeOK
  <2>11. form' \in [Device -> {None} \cup Form]
    BY <2>1 DEF Inv, TypeOK
  <2>12. TypeOK'
    BY <2>1, <2>9, <2>10, <2>11 DEF Inv, TypeOK
  <2>13. FormNamesOp'
    <3>1. \A e \in Device : Recorded(e) \subseteq Recorded(e)'
      BY <2>9, <2>12, RecordedGrows DEF Inv
    <3>2. \A e \in Device : form'[e] # None => form'[e] = form[e] /\ form[e] # None
      BY <2>1 DEF Inv, TypeOK
    <3>. QED BY <3>1, <3>2 DEF Inv, InFlight, FormNamesOp
  <2>14. Len(s) <= MaxOps
    BY <2>4, <2>8
  <2>. QED BY <2>1, <2>8, <2>12, <2>13, <2>14, EditRecorded
<1>4. ASSUME CancelForm(d)
      PROVE  Inv'
  <2>1. /\ form' = [form EXCEPT ![d] = None]
        /\ UNCHANGED <<outbox, local, push, cursor, serverVars, faults>>
    BY <1>4 DEF CancelForm
  <2>2. form' \in [Device -> {None} \cup Form] /\ FormNamesOp'
    BY <2>1 DEF Inv, TypeOK, InFlight, FormNamesOp, Recorded
  <2>. QED BY <2>1, <2>2, FormMoves
<1>5. ASSUME NEW i \in DOMAIN outbox[d], RetryConflict(d, i)
      PROVE  Inv'
  <2> DEFINE f == [row |-> outbox[d][i].row, view |-> local[d][outbox[d][i].row], again |-> i]
  <2>1. /\ form' = [form EXCEPT ![d] = f]
        /\ UNCHANGED <<outbox, local, push, cursor, serverVars, faults>>
    BY <1>5 DEF RetryConflict
  <2>2. i \in Recorded(d) /\ i \in 0..MaxOps /\ outbox[d][i] \in Op
    <3>1. outbox[d] \in Seq(Op) /\ DOMAIN outbox[d] = 1..Len(outbox[d])
      BY DEF Inv, TypeOK
    <3>2. i \in 1..Len(outbox[d]) /\ outbox[d][i] \in Op
      BY <3>1, ElementOfSeq
    <3>3. i \in 1..MaxOps
      BY <3>2, RecordedInRange DEF Inv, Recorded
    <3>. QED BY <3>2, <3>3, CountsAssumption DEF Recorded
  <2>3. f \in Form /\ f.again = i
    BY <2>2 DEF Form, Op, Inv, TypeOK
  <2> HIDE DEF f
  <2>4. form' \in [Device -> {None} \cup Form] /\ FormNamesOp'
    BY <2>1, <2>2, <2>3 DEF Inv, TypeOK, InFlight, FormNamesOp, Recorded
  <2>. QED BY <2>1, <2>4, FormMoves
<1>6. ASSUME NEW i \in DOMAIN outbox[d], Dismiss(d, i)
      PROVE  Inv'
  <2>1. /\ SetStatus(d, i, "dismissed")
        /\ UNCHANGED <<local, form, push, cursor, store, feed, processed, thread, faults>>
    BY <1>6 DEF Dismiss, serverVars
  <2>2. i \in Recorded(d) /\ "dismissed" \in Status
    BY DEF Inv, TypeOK, Recorded, Status
  <2>3. /\ outbox' \in [Device -> Seq(Op)]
        /\ \A e \in Device : Len(outbox'[e]) <= MaxOps
        /\ OutboxGrows
        /\ \A e \in Device : Recorded(e)' = Recorded(e)
        /\ \A e \in Device : \A j \in Recorded(e) : outbox'[e][j].status =
              IF e = d /\ j = i THEN "dismissed" ELSE outbox[e][j].status
    BY <2>1, <2>2, StatusChange DEF Inv
  <2>4. TypeOK'
    BY <2>1, <2>3 DEF Inv, TypeOK
  <2>5. FormNamesOp'
    BY <2>1, <2>3 DEF Inv, InFlight, FormNamesOp
  <2>6. InFlight'
    BY <2>1, <2>3, <2>4, <2>5, OutboxMoves DEF Inv, InFlight
  <2>7. AnswersAreTrue'
    BY <2>1, <2>3, NothingAcked
  <2>8. AppliedOnce'
    BY <2>1 DEF Inv, AppliedOnce, WrittenBy
  <2>. QED BY <2>4, <2>6, <2>7, <2>8 DEF Inv
<1>. QED BY <1>1, <1>2, <1>3, <1>4, <1>5, <1>6 DEF UserStep

-----------------------------------------------------------------------------
(* The steps of a device's sync. *)

(* A sync moves on without its thread; what it marks as synced was applied. *)
LEMMA PushAlone ==
    ASSUME Inv, TypeOK', NEW d \in Device, NEW p \in PushState, SetPush(d, p),
           p.todo \cup p.batch \subseteq Recorded(d), p.answers \subseteq push[d].answers,
           p.phase # "waiting",
           \A e \in Device : Recorded(e)' = Recorded(e),
           \A e \in Device : \A i \in Recorded(e) :
               outbox'[e][i].status = "acked" =>
                   outbox[e][i].status = "acked" \/ processed[<<e, i>>] = "applied",
           OutboxGrows, FormNamesOp', UNCHANGED <<thread, feed, processed>>
    PROVE  Inv'
<1>1. AnswersNameOps(d, p.answers)
  BY DEF Inv, InFlight, PushNamesOps, AnswersNameOps
<1>2. InFlight'
  BY <1>1, PushMoves DEF Inv, InFlight
<1>3. \A e \in Device : push'[e] = IF e = d THEN p ELSE push[e]
  BY PushSet DEF Inv
<1>4. \A e \in Device : \A i \in Recorded(e)' :
          outbox'[e][i].status = "acked" => processed'[<<e, i>>] = "applied"
  BY DEF Inv, AnswersAreTrue
<1>5. \A e \in Device : \A a \in push'[e].answers : TrueOf(e, a)
  BY <1>3 DEF Inv, AnswersAreTrue
<1>6. AnswersAreTrue'
  BY <1>4, <1>5 DEF Inv, AnswersAreTrue, TrueOf
<1>7. AppliedOnce'
  BY DEF Inv, AppliedOnce, WrittenBy
<1>. QED BY <1>2, <1>6, <1>7 DEF Inv

(* The same without a write to the outbox or the form. *)
LEMMA PushQuietly ==
    ASSUME Inv, NEW d \in Device, NEW p \in PushState, SetPush(d, p),
           p.todo \cup p.batch \subseteq Recorded(d), p.answers \subseteq push[d].answers,
           p.phase # "waiting", form' = form \/ form' = [form EXCEPT ![d] = None],
           local' \in [Device -> [Row -> View]], cursor' \in [Device -> Nat],
           faults' \in Faults,
           UNCHANGED <<outbox, store, feed, processed, thread>>
    PROVE  Inv'
<1>1. form' \in [Device -> {None} \cup Form]
  BY DEF Inv, TypeOK
<1>2. push' \in [Device -> PushState]
  BY PushSet DEF Inv
<1>3. TypeOK'
  BY <1>1, <1>2 DEF Inv, TypeOK
<1>4. \A e \in Device : Recorded(e)' = Recorded(e)
  BY DEF Recorded
<1>5. OutboxGrows
  <2>1. \A e \in Device : Len(outbox[e]) \in Nat
    BY DEF Inv, TypeOK
  <2>. QED BY <2>1 DEF OutboxGrows
<1>6. FormNamesOp'
  BY <1>4 DEF Inv, TypeOK, InFlight, FormNamesOp
<1>. QED BY <1>3, <1>4, <1>5, <1>6, PushAlone

(* A sync moves on and marks one op of its device. *)
LEMMA PushMarking ==
    ASSUME Inv, NEW d \in Device, NEW p \in PushState, SetPush(d, p),
           p.todo \cup p.batch \subseteq Recorded(d), p.answers \subseteq push[d].answers,
           p.phase # "waiting",
           NEW i \in Recorded(d), NEW status \in Status, SetStatus(d, i, status),
           status = "acked" => processed[<<d, i>>] = "applied",
           UNCHANGED <<local, form, cursor, store, feed, processed, thread, faults>>
    PROVE  Inv'
<1>1. /\ outbox' \in [Device -> Seq(Op)]
      /\ \A e \in Device : Len(outbox'[e]) <= MaxOps
      /\ OutboxGrows
      /\ \A e \in Device : Recorded(e)' = Recorded(e)
      /\ \A e \in Device : \A j \in Recorded(e) : outbox'[e][j].status =
            IF e = d /\ j = i THEN status ELSE outbox[e][j].status
  BY StatusChange DEF Inv
<1>2. push' \in [Device -> PushState]
  BY PushSet DEF Inv
<1>3. TypeOK'
  BY <1>1, <1>2 DEF Inv, TypeOK
<1>4. FormNamesOp'
  BY <1>1 DEF Inv, InFlight, FormNamesOp
<1>. QED BY <1>1, <1>3, <1>4, PushAlone

(* What Idle is made of. *)
LEMMA IdleFields ==
    /\ Idle \in PushState
    /\ Idle.phase = "idle" /\ Idle.todo = {} /\ Idle.batch = {} /\ Idle.answers = {}
BY IdleTyped DEF Idle

(* A sync that stops, wherever it was, preserves the invariant. *)
LEMMA StoppedSync ==
    ASSUME Inv, NEW d \in Device, SetPush(d, Idle),
           form' = form \/ form' = [form EXCEPT ![d] = None],
           faults' \in Faults,
           UNCHANGED <<outbox, local, cursor, store, feed, processed, thread>>
    PROVE  Inv'
<1>1. local' \in [Device -> [Row -> View]] /\ cursor' \in [Device -> Nat]
  BY DEF Inv, TypeOK
<1>2. /\ Idle.todo \cup Idle.batch \subseteq Recorded(d)
      /\ Idle.answers \subseteq push[d].answers
      /\ Idle.phase # "waiting"
  BY IdleFields
<1>. QED BY <1>1, <1>2, IdleFields, PushQuietly

(* A sync that starts, loses its connection or is killed. *)
LEMMA OtherSteps ==
    ASSUME Inv, NEW d \in Device,
           \/ \E u \in User : StartSync(d, u)
           \/ LoseConnection(d)
           \/ KillApp(d)
    PROVE  Inv'
<1>1. ASSUME NEW u \in User, StartSync(d, u)
      PROVE  Inv'
  <2> DEFINE p == [Idle EXCEPT !.phase = "pushing", !.todo = Pending(d, u)]
  <2>1. /\ SetPush(d, p)
        /\ UNCHANGED <<outbox, local, form, cursor, store, feed, processed, thread, faults>>
    BY <1>1 DEF StartSync, serverVars
  <2>2. Pending(d, u) \subseteq Recorded(d)
    BY DEF Pending, Recorded, Inv, TypeOK
  <2>3. Pending(d, u) \subseteq 1..MaxOps
    BY <2>2, RecordedInRange DEF Inv
  <2>4. p \in PushState
    BY <2>3, IdleFields DEF PushState, Phase
  <2>5. p.phase = "pushing" /\ p.todo = Pending(d, u) /\ p.batch = {} /\ p.answers = {}
    BY IdleFields DEF PushState
  <2> HIDE DEF p
  <2>. QED BY <2>1, <2>2, <2>4, <2>5, PushQuietly DEF Inv, TypeOK
<1>2. ASSUME LoseConnection(d)
      PROVE  Inv'
  <2>1. /\ SetPush(d, Idle)
        /\ faults.lost < MaxLost
        /\ faults' = [faults EXCEPT !.lost = @ + 1]
        /\ UNCHANGED <<outbox, local, form, cursor, store, feed, processed, thread>>
    BY <1>2 DEF LoseConnection, serverVars
  <2>2. faults' \in Faults
    <3>1. faults \in Faults
      BY DEF Inv, TypeOK
    <3>2. faults.lost + 1 \in 0..MaxLost
      BY <2>1, <3>1, CountsAssumption DEF Faults
    <3>. QED BY <2>1, <3>1, <3>2 DEF Faults
  <2>. QED BY <2>1, <2>2, StoppedSync
<1>3. ASSUME KillApp(d)
      PROVE  Inv'
  <2>1. /\ SetPush(d, Idle)
        /\ form' = [form EXCEPT ![d] = None]
        /\ faults.killed < MaxKilled
        /\ faults' = [faults EXCEPT !.killed = @ + 1]
        /\ UNCHANGED <<outbox, local, cursor, store, feed, processed, thread>>
    BY <1>3 DEF KillApp, serverVars
  <2>2. faults' \in Faults
    <3>1. faults \in Faults
      BY DEF Inv, TypeOK
    <3>2. faults.killed + 1 \in 0..MaxKilled
      BY <2>1, <3>1, CountsAssumption DEF Faults
    <3>. QED BY <2>1, <3>1, <3>2 DEF Faults
  <2>. QED BY <2>1, <2>2, StoppedSync
<1>. QED BY <1>1, <1>2, <1>3

(* What is known of a device's push. *)
LEMMA AtPush ==
    ASSUME Inv, NEW d \in Device
    PROVE  /\ push[d] \in PushState
           /\ push[d].todo \subseteq Recorded(d) /\ push[d].batch \subseteq Recorded(d)
           /\ \A i \in Recorded(d) : outbox[d][i] \in Op
           /\ \A a \in push[d].answers : a \in Answer /\ a.op \in Recorded(d)
<1>1. \A i \in Recorded(d) : outbox[d][i] \in Op
  BY ElementOfSeq DEF Inv, TypeOK, Recorded
<1>. QED BY <1>1 DEF Inv, TypeOK, InFlight, PushNamesOps, AnswersNameOps, PushState

(* An op goes into the request or takes the verdict of its row. *)
LEMMA FillBatchStep ==
    ASSUME Inv, NEW d \in Device, NEW i \in push[d].todo, FillBatch(d, i)
    PROVE  Inv'
<1> DEFINE verdict == push[d].failed[outbox[d][i].row]
           p == [push[d] EXCEPT !.todo = @ \ {i}, !.batch = @ \cup {i}]
           q == [push[d] EXCEPT !.todo = @ \ {i}]
<1>1. i \in Recorded(d) /\ push[d] \in PushState /\ push[d].todo \cup push[d].batch \subseteq Recorded(d)
  BY AtPush
<1>2. push[d].phase = "pushing" /\ UNCHANGED <<local, form, cursor, store, feed, processed, thread, faults>>
  BY DEF FillBatch, serverVars
<1>3. /\ p \in PushState
      /\ p.todo = push[d].todo \ {i} /\ p.batch = push[d].batch \cup {i}
      /\ p.answers = push[d].answers /\ p.phase = push[d].phase
  BY <1>1 DEF PushState
<1>4. /\ q \in PushState
      /\ q.todo = push[d].todo \ {i} /\ q.batch = push[d].batch
      /\ q.answers = push[d].answers /\ q.phase = push[d].phase
  BY <1>1 DEF PushState
<1>5. CASE verdict = "none"
  <2>1. SetPush(d, p) /\ UNCHANGED outbox
    BY <1>5 DEF FillBatch
  <2> HIDE DEF p
  <2>2. /\ local' \in [Device -> [Row -> View]] /\ cursor' \in [Device -> Nat]
        /\ faults' \in Faults
    BY <1>2 DEF Inv, TypeOK
  <2>3. p.todo \cup p.batch \subseteq Recorded(d)
    BY <1>1, <1>3
  <2>. QED BY <1>2, <1>3, <2>1, <2>2, <2>3, PushQuietly
<1>6. CASE verdict # "none"
  <2>1. SetPush(d, q) /\ SetStatus(d, i, verdict)
    BY <1>6 DEF FillBatch
  <2>2. verdict \in Failure
    BY <1>1, <1>6, AtPush DEF PushState, Chain, Op
  <2> HIDE DEF q, verdict
  <2>3. verdict \in Status /\ verdict # "acked"
    BY <2>2 DEF Failure, Status
  <2>4. q.todo \cup q.batch \subseteq Recorded(d)
    BY <1>1, <1>4
  <2>. QED BY <1>1, <1>2, <1>4, <2>1, <2>3, <2>4, PushMarking
<1>. QED BY <1>5, <1>6

(* A request reaches a free thread. *)
LEMMA SendBatchStep ==
    ASSUME Inv, NEW d \in Device, NEW h \in Handler, SendBatch(d, h)
    PROVE  Inv'
<1> DEFINE p == [push[d] EXCEPT !.phase = "waiting", !.batch = {}, !.on = h]
           t == [Free EXCEPT !.phase = "lookup", !.dev = d, !.todo = push[d].batch]
<1>1. /\ thread[h] = Free /\ SetPush(d, p) /\ SetThread(h, t)
      /\ UNCHANGED <<outbox, local, form, cursor, store, feed, processed, faults>>
  BY DEF SendBatch
<1>2. /\ push[d] \in PushState
      /\ push[d].todo \subseteq Recorded(d) /\ push[d].batch \subseteq Recorded(d)
  BY AtPush
<1>3. /\ p \in PushState
      /\ p.phase = "waiting" /\ p.todo = push[d].todo /\ p.batch = {}
      /\ p.on = h /\ p.answers = push[d].answers
  BY <1>2 DEF PushState, Phase
<1>4. /\ t \in ThreadState
      /\ t.phase = "lookup" /\ t.dev = d /\ t.todo = push[d].batch /\ t.answers = {}
  <2>1. push[d].batch \subseteq 1..MaxOps
    BY <1>2 DEF PushState
  <2>2. Free \in ThreadState /\ Free.answers = {}
    BY FreeTyped DEF Free
  <2>. QED BY <2>1, <2>2 DEF ThreadState, ThreadPhase
<1>5. Free.phase = "free"
  BY DEF Free
<1> HIDE DEF p, t
<1>6. push' \in [Device -> PushState] /\ \A e \in Device : push'[e] = IF e = d THEN p ELSE push[e]
  BY <1>1, <1>3, PushSet DEF Inv
<1>7. thread' \in [Handler -> ThreadState] /\ \A g \in Handler : thread'[g] = IF g = h THEN t ELSE thread[g]
  BY <1>1, <1>4, ThreadSet DEF Inv
<1>8. outbox' = outbox /\ form' = form /\ \A e \in Device : Recorded(e)' = Recorded(e)
  BY <1>1 DEF Recorded
<1>9. TypeOK'
  BY <1>1, <1>6, <1>7 DEF Inv, TypeOK
<1>10. FormNamesOp'
  BY <1>8 DEF Inv, InFlight, FormNamesOp
<1>11. PushNamesOps'
  BY <1>2, <1>3, <1>6, <1>8 DEF Inv, InFlight, PushNamesOps, AnswersNameOps
<1>12. ThreadNamesOps'
  BY <1>2, <1>4, <1>7, <1>8 DEF Inv, InFlight, ThreadNamesOps, AnswersNameOps
<1>13. WaitsOnItsThread'
  BY <1>1, <1>3, <1>4, <1>5, <1>6, <1>7 DEF Inv, InFlight, WaitsOnItsThread
<1>14. AnswersAreTrue'
  <2>1. \A g \in Handler : thread'[g].phase # "free" =>
            \A a \in thread'[g].answers : TrueOf(thread'[g].dev, a)
    BY <1>4, <1>7 DEF Inv, AnswersAreTrue
  <2>2. \A e \in Device : \A a \in push'[e].answers : TrueOf(e, a)
    BY <1>3, <1>6 DEF Inv, AnswersAreTrue
  <2>. QED BY <1>1, <1>8, <2>1, <2>2 DEF Inv, AnswersAreTrue, TrueOf
<1>15. AppliedOnce'
  BY <1>1 DEF Inv, AppliedOnce, WrittenBy
<1>. QED BY <1>9, <1>10, <1>11, <1>12, <1>13, <1>14, <1>15 DEF Inv, InFlight

(* The answers of a thread become those of the device that waited for it. *)
LEMMA ReceiveAnswersStep ==
    ASSUME Inv, NEW d \in Device, ReceiveAnswers(d)
    PROVE  Inv'
<1> DEFINE h == push[d].on
           p == [push[d] EXCEPT !.phase = "reading", !.on = None, !.answers = thread[h].answers]
<1>1. /\ push[d].phase = "waiting" /\ SetPush(d, p) /\ SetThread(h, Free)
      /\ UNCHANGED <<outbox, local, form, cursor, store, feed, processed, faults>>
  BY DEF ReceiveAnswers
<1>2. h \in Handler /\ thread[h].phase # "free" /\ thread[h].dev = d
  BY <1>1 DEF Inv, InFlight, WaitsOnItsThread
<1>3. /\ thread[h].answers \subseteq Answer
      /\ AnswersNameOps(d, thread[h].answers)
      /\ \A a \in thread[h].answers : TrueOf(d, a)
  BY <1>2 DEF Inv, TypeOK, ThreadState, InFlight, ThreadNamesOps, AnswersAreTrue
<1>4. /\ p \in PushState
      /\ p.phase = "reading" /\ p.todo = push[d].todo /\ p.batch = push[d].batch
      /\ p.answers = thread[h].answers
  BY <1>3, AtPush DEF PushState, Phase
<1>5. Free.phase = "free" /\ Free.todo = {}
  BY DEF Free
<1>6. push' \in [Device -> PushState] /\ \A e \in Device : push'[e] = IF e = d THEN p ELSE push[e]
  BY <1>1, <1>4, PushSet DEF Inv
<1>7. /\ thread' \in [Handler -> ThreadState]
      /\ \A g \in Handler : thread'[g] = IF g = h THEN Free ELSE thread[g]
  BY <1>1, <1>2, FreeTyped, ThreadSet DEF Inv
<1>8. outbox' = outbox /\ form' = form /\ \A e \in Device : Recorded(e)' = Recorded(e)
  BY <1>1 DEF Recorded
<1> HIDE DEF p, h
<1>9. TypeOK'
  BY <1>1, <1>6, <1>7 DEF Inv, TypeOK
<1>10. FormNamesOp'
  BY <1>8 DEF Inv, InFlight, FormNamesOp
<1>11. PushNamesOps'
  BY <1>3, <1>4, <1>6, <1>8 DEF Inv, InFlight, PushNamesOps, AnswersNameOps
<1>12. ThreadNamesOps'
  BY <1>5, <1>7, <1>8 DEF Inv, InFlight, ThreadNamesOps, AnswersNameOps
<1>13. WaitsOnItsThread'
  <2>1. ASSUME NEW e \in Device, push'[e].phase = "waiting"
        PROVE  push'[e].on # h /\ push'[e] = push[e]
    <3>1. e # d /\ push'[e] = push[e]
      BY <1>4, <1>6, <2>1
    <3>2. thread[push[e].on].dev = e
      BY <2>1, <3>1 DEF Inv, InFlight, WaitsOnItsThread
    <3>. QED BY <1>2, <3>1, <3>2
  <2>. QED BY <1>7, <2>1 DEF Inv, InFlight, WaitsOnItsThread
<1>14. AnswersAreTrue'
  <2>1. \A g \in Handler : thread'[g].phase # "free" =>
            \A a \in thread'[g].answers : TrueOf(thread'[g].dev, a)
    BY <1>5, <1>7 DEF Inv, AnswersAreTrue
  <2>2. \A e \in Device : \A a \in push'[e].answers : TrueOf(e, a)
    BY <1>3, <1>4, <1>6 DEF Inv, AnswersAreTrue
  <2>. QED BY <1>1, <1>8, <2>1, <2>2 DEF Inv, AnswersAreTrue, TrueOf
<1>15. AppliedOnce'
  BY <1>1 DEF Inv, AppliedOnce, WrittenBy
<1>. QED BY <1>9, <1>10, <1>11, <1>12, <1>13, <1>14, <1>15 DEF Inv, InFlight

(* One answer is read, and marks its op. *)
LEMMA ReadAnswerStep ==
    ASSUME Inv, NEW d \in Device, NEW a \in push[d].answers, ReadAnswer(d, a)
    PROVE  Inv'
<1> DEFINE failed == Broken(push[d].failed, outbox[d][a.op], a.verdict)
           phase == IF a.verdict = "conflict" THEN "overwriting" ELSE push[d].phase
           answers == IF a.verdict = "conflict" THEN push[d].answers ELSE push[d].answers \ {a}
           p == [push[d] EXCEPT !.failed = failed, !.phase = phase, !.answers = answers]
           status == IF a.verdict = "applied" THEN "acked" ELSE a.verdict
<1>1. /\ push[d].phase = "reading" /\ SetPush(d, p)
      /\ IF a.verdict = "retry" THEN UNCHANGED outbox ELSE SetStatus(d, a.op, status)
      /\ UNCHANGED <<local, form, cursor, store, feed, processed, thread, faults>>
  BY DEF ReadAnswer, serverVars
<1>2. /\ a \in Answer /\ a.op \in Recorded(d) /\ outbox[d][a.op] \in Op
      /\ push[d] \in PushState
      /\ push[d].todo \cup push[d].batch \subseteq Recorded(d)
  BY AtPush
<1>3. a.verdict \in Verdict
  BY <1>2 DEF Answer
<1>4. failed \in Chain
  BY <1>2, <1>3, BrokenTyped DEF PushState
<1>5. phase \in {"reading", "overwriting"} /\ answers \subseteq push[d].answers
  BY <1>1
<1> HIDE DEF failed, phase, answers
<1>6. /\ p \in PushState
      /\ p.phase # "waiting" /\ p.answers \subseteq push[d].answers
      /\ p.todo \cup p.batch \subseteq Recorded(d)
  BY <1>2, <1>4, <1>5 DEF PushState, Phase
<1> HIDE DEF p
<1>7. CASE a.verdict = "retry"
  <2>1. UNCHANGED outbox
    BY <1>1, <1>7
  <2>2. /\ local' \in [Device -> [Row -> View]] /\ cursor' \in [Device -> Nat]
        /\ faults' \in Faults
    BY <1>1 DEF Inv, TypeOK
  <2>. QED BY <1>1, <1>6, <2>1, <2>2, PushQuietly
<1>8. CASE a.verdict # "retry"
  <2>1. SetStatus(d, a.op, status)
    BY <1>1, <1>8
  <2>2. status \in Status
    BY <1>3, <1>8 DEF Verdict, Outcome, Failure, Status
  <2>3. status = "acked" => a.verdict = "applied"
    BY <1>3, <1>8 DEF Verdict, Outcome, Failure
  <2>4. status = "acked" => processed[<<d, a.op>>] = "applied"
    BY <2>3 DEF Inv, AnswersAreTrue, TrueOf
  <2> HIDE DEF status
  <2>. QED BY <1>1, <1>2, <1>6, <2>1, <2>2, <2>4, PushMarking
<1>. QED BY <1>7, <1>8

(* Every step of a sync preserves the invariant. *)
LEMMA SyncSteps ==
    ASSUME Inv, NEW d \in Device, SyncStep(d)
    PROVE  Inv'
<1>1. /\ push[d] \in PushState
      /\ push[d].todo \cup push[d].batch \subseteq Recorded(d)
      /\ local \in [Device -> [Row -> View]] /\ cursor \in [Device -> Nat]
      /\ faults \in Faults
  BY AtPush DEF Inv, TypeOK
<1>2. ASSUME EndPush(d)
      PROVE  Inv'
  <2> DEFINE p == [Idle EXCEPT !.phase = "pulling"]
  <2>1. SetPush(d, p) /\ UNCHANGED <<outbox, local, form, cursor, serverVars, faults>>
    BY <1>2 DEF EndPush
  <2>2. p \in PushState /\ p.phase = "pulling" /\ p.todo = {} /\ p.batch = {} /\ p.answers = {}
    BY IdleFields DEF PushState, Phase
  <2> HIDE DEF p
  <2>. QED BY <1>1, <2>1, <2>2, PushQuietly DEF serverVars
<1>3. ASSUME NEW a \in push[d].answers, Overwrite(d, a)
      PROVE  Inv'
  <2> DEFINE p == [push[d] EXCEPT !.phase = "reading", !.answers = @ \ {a}]
             r == outbox[d][a.op].row
  <2>1. /\ SetPush(d, p) /\ local' = [local EXCEPT ![d][r] = a.current]
        /\ UNCHANGED <<outbox, form, cursor, serverVars, faults>>
    BY <1>3 DEF Overwrite
  <2>2. r \in Row /\ a.current \in View
    BY AtPush DEF Op, Answer
  <2>3. local' \in [Device -> [Row -> View]]
    BY <1>1, <2>1, <2>2
  <2>4. /\ p \in PushState
        /\ p.phase = "reading" /\ p.todo = push[d].todo /\ p.batch = push[d].batch
        /\ p.answers = push[d].answers \ {a}
    BY <1>1 DEF PushState, Phase
  <2> HIDE DEF p
  <2>. QED BY <1>1, <2>1, <2>3, <2>4, PushQuietly DEF serverVars
<1>4. ASSUME NextBatch(d)
      PROVE  Inv'
  <2> DEFINE p == [push[d] EXCEPT !.phase = "pushing"]
  <2>1. SetPush(d, p) /\ UNCHANGED <<outbox, local, form, cursor, serverVars, faults>>
    BY <1>4 DEF NextBatch
  <2>2. /\ p \in PushState
        /\ p.phase = "pushing" /\ p.todo = push[d].todo /\ p.batch = push[d].batch
        /\ p.answers = push[d].answers
    BY <1>1 DEF PushState, Phase
  <2> HIDE DEF p
  <2>. QED BY <1>1, <2>1, <2>2, PushQuietly DEF serverVars
<1>5. ASSUME PullChange(d)
      PROVE  Inv'
  <2> DEFINE c == feed[cursor[d] + 1]
             image == IF local[d][c.row].version > c.version THEN local[d][c.row]
                      ELSE [version |-> c.version, by |-> c.by]
  <2>1. /\ push[d].phase = "pulling" /\ cursor[d] < Len(feed)
        /\ local' = [local EXCEPT ![d][c.row] = image]
        /\ cursor' = [cursor EXCEPT ![d] = @ + 1]
        /\ UNCHANGED <<outbox, form, push, serverVars, faults>>
    BY <1>5 DEF PullChange
  <2>2. c \in Change
    <3>1. feed \in Seq(Change) /\ cursor[d] + 1 \in 1..Len(feed)
      BY <1>1, <2>1 DEF Inv, TypeOK
    <3>. QED BY <3>1, ElementOfSeq
  <2>3. image \in View
    BY <1>1, <2>2 DEF Change, View
  <2> HIDE DEF image
  <2>4. local' \in [Device -> [Row -> View]] /\ cursor' \in [Device -> Nat]
    BY <1>1, <2>1, <2>2, <2>3 DEF Change
  <2>5. SetPush(d, push[d])
    BY <2>1 DEF SetPush, Inv, TypeOK
  <2>6. push[d].phase # "waiting"
    BY <2>1
  <2>. QED BY <1>1, <2>1, <2>4, <2>5, <2>6, PushQuietly DEF serverVars
<1>6. ASSUME EndSync(d)
      PROVE  Inv'
  BY <1>1, <1>6, StoppedSync DEF EndSync, serverVars
<1>. QED BY <1>2, <1>3, <1>4, <1>5, <1>6, FillBatchStep, SendBatchStep, ReceiveAnswersStep,
            ReadAnswerStep DEF SyncStep

-----------------------------------------------------------------------------
(* A write through the REST API preserves the invariant. *)
LEMMA RestEditStep ==
    ASSUME Inv, NEW r \in Row, RestEdit(r)
    PROVE  Inv'
<1> DEFINE w == <<Rest, faults.rest + 1>>
<1>1. /\ faults.rest < MaxRest
      /\ faults' = [faults EXCEPT !.rest = @ + 1]
      /\ Write(r, w)
      /\ UNCHANGED <<outbox, local, form, push, cursor, processed, thread>>
  BY DEF RestEdit, clientVars
<1>2. faults \in Faults
  BY DEF Inv, TypeOK
<1>3. faults.rest + 1 \in 0..MaxRest
  BY <1>1, <1>2, CountsAssumption DEF Faults
<1>4. w \in Writer /\ w \notin OpId
  BY <1>3, SetsAssumption DEF Writer, OpId
<1>5. /\ store' \in [Row -> View]
      /\ feed' \in Seq(Change)
      /\ \A o \in OpId \ {w} : WrittenBy(o)' = WrittenBy(o)
  BY <1>1, <1>4, Writing DEF Inv
<1>6. TypeOK'
  BY <1>1, <1>2, <1>3, <1>5 DEF Inv, TypeOK, Faults
<1>7. OutboxGrows
  <2>1. \A d \in Device : Len(outbox[d]) \in Nat
    BY DEF Inv, TypeOK
  <2>. QED BY <1>1, <2>1 DEF OutboxGrows
<1>8. InFlight'
  <2>1. FormNamesOp'
    BY <1>1 DEF Inv, InFlight, FormNamesOp, Recorded
  <2>. QED BY <1>1, <1>6, <1>7, <2>1, OutboxMoves DEF Inv, InFlight
<1>9. AnswersAreTrue'
  BY <1>1, NothingAcked DEF Recorded
<1>10. AppliedOnce'
  BY <1>1, <1>4, <1>5 DEF Inv, AppliedOnce
<1>. QED BY <1>6, <1>8, <1>9, <1>10 DEF Inv

(* The invariant holds at the start. *)
LEMMA Initially == Init => Inv
<1> SUFFICES ASSUME Init PROVE Inv
  OBVIOUS
<1>1. Origin \in Writer
  BY CountsAssumption DEF Origin, Writer
<1>2. \A r \in Row : Seeded(r) \in View
  BY <1>1 DEF Seeded, View, Absent
<1>3. TypeOK
  BY <1>2, IdleTyped, FreeTyped, CountsAssumption DEF Init, TypeOK, Faults
<1>4. InFlight
  BY DEF Init, InFlight, FormNamesOp, PushNamesOps, ThreadNamesOps, WaitsOnItsThread,
         AnswersNameOps, Idle, Free
<1>5. AnswersAreTrue
  BY DEF Init, AnswersAreTrue, Recorded, Idle, Free
<1>6. AppliedOnce
  BY DEF Init, AppliedOnce, WrittenBy
<1>. QED BY <1>3, <1>4, <1>5, <1>6 DEF Inv

(* The invariant names only the variables of the specification. *)
LEMMA Stuttering == ASSUME Inv, UNCHANGED vars PROVE Inv'
<1>. USE DEF vars
<1>1. TypeOK'
  BY DEF Inv, TypeOK
<1>2. InFlight'
  BY DEF Inv, InFlight, FormNamesOp, PushNamesOps, ThreadNamesOps, WaitsOnItsThread,
         AnswersNameOps, Recorded
<1>3. AnswersAreTrue'
  BY DEF Inv, AnswersAreTrue, TrueOf, Recorded
<1>4. AppliedOnce'
  BY DEF Inv, AppliedOnce, WrittenBy
<1>. QED BY <1>1, <1>2, <1>3, <1>4 DEF Inv

(* The inductive invariant holds in every state a device, its users and the  *)
(* server can reach (the push of sync_service.dart and sync_service.py).     *)
THEOREM Invariant == Spec => []Inv
<1>1. Init => Inv
  BY Initially
<1>2. Inv /\ [Next]_vars => Inv'
  <2> SUFFICES ASSUME Inv, [Next]_vars PROVE Inv'
    OBVIOUS
  <2>1. CASE UNCHANGED vars
    BY <2>1, Stuttering
  <2>2. CASE Next
    BY <2>2, UserSteps, SyncSteps, OtherSteps, ServerSteps, RestEditStep DEF Next
  <2>. QED BY <2>1, <2>2
<1>. QED BY <1>1, <1>2, PTL DEF Spec

-----------------------------------------------------------------------------
(* Every reachable state has the types of the code's tables, maps and queues. *)
THEOREM TypeInvariant == Spec => []TypeOK
<1>1. Inv => TypeOK
  BY DEF Inv
<1>. QED BY <1>1, Invariant, PTL

(* Exactly once: for any number of devices, ops, threads, lost answers, killed *)
(* apps and repeated requests, the feed holds at most one write of an op, and  *)
(* just when processed_ops says it was applied (_push_one, _settle).           *)
THEOREM ExactlyOnce == Spec => []AppliedOnce
<1>1. Inv => AppliedOnce
  BY DEF Inv
<1>. QED BY <1>1, Invariant, PTL

(* An op the device shows as synced has been written (pushPending, markAcked). *)
THEOREM SyncedWasWritten == Spec => []SyncedIsWritten
<1>1. Inv => SyncedIsWritten
  <2> SUFFICES ASSUME Inv, NEW d \in Device, NEW i \in DOMAIN outbox[d],
                      outbox[d][i].status = "acked"
               PROVE  WrittenBy(<<d, i>>) # {}
    BY DEF SyncedIsWritten
  <2>1. i \in Recorded(d)
    BY DEF Inv, TypeOK, Recorded
  <2>2. processed[<<d, i>>] = "applied"
    BY <2>1 DEF Inv, AnswersAreTrue
  <2>3. <<d, i>> \in OpId
    BY <2>1, RecordedInRange DEF Inv, OpId
  <2>. QED BY <2>2, <2>3 DEF Inv, AppliedOnce
<1>. QED BY <1>1, Invariant, PTL
-----------------------------------------------------------------------------
(***************************************************************************)
(* The other half of StatusIsTrue: an op in the review list never took     *)
(* effect.  An op is put there unsent when an earlier one of its row has   *)
(* failed in the same push, and that is true as long as no thread can      *)
(* still write it.  It needs HeldBack, a condition on refusals for now: an *)
(* op refused for now has nothing of its author behind it on its row, or   *)
(* the row never comes.                                                    *)
(***************************************************************************)

(* Op j is an earlier one of i's row, by i's author. *)
Before(d, j, i) ==
    /\ j \in Recorded(d) /\ i \in Recorded(d) /\ j < i
    /\ outbox[d][j].row = outbox[d][i].row
    /\ outbox[d][j].actor = outbox[d][i].actor

(* A row whose insert was refused for good: it never comes. *)
Dead(r) ==
    /\ store[r].version = 0
    /\ \E d \in Device : \E k \in Recorded(d) :
          /\ outbox[d][k].row = r
          /\ outbox[d][k].kind = "insert"
          /\ processed[<<d, k>>] = "rejected"

HeldBack ==
    \A h \in Handler : \A i \in thread[h].todo :
        RefuseForNow(h, i) \/ NotThereYet(h, i) =>
            \A k \in Recorded(thread[h].dev) : Before(thread[h].dev, i, k) => Dead(OpOf(h, i).row)

Waits(d, i) == outbox[d][i].status = "pending"
BrokeChain(d, j) == BreaksChain(outbox[d][j].kind, processed[<<d, j>>])
Passed(d, j) == processed[<<d, j>>] # "none" /\ ~BrokeChain(d, j)
Broke(h, r) == thread[h].failed[r] # "none"
WorksAt(h, d, i) == thread[h].phase # "free" /\ thread[h].dev = d /\ i \in thread[h].todo

(* An insert is the first op of its row, and no other device inserts it. *)
InsertIsFirst ==
    \A d, e \in Device : \A k \in Recorded(d), j \in Recorded(e) :
        /\ outbox[d][k].kind = "insert"
        /\ outbox[e][j].row = outbox[d][k].row
        /\ <<e, j>> # <<d, k>>
        => outbox[e][j].kind = "update" /\ (e = d => k < j)

OutcomesOfRecorded ==
    \A d \in Device : \A i \in 1..MaxOps : processed[<<d, i>>] # "none" => i \in Recorded(d)

(* An op is with a thread or in its answers, once. *)
OneEach(answers) == \A a, b \in answers : a.op = b.op => a = b

ThreadTidy ==
    \A h \in Handler :
        /\ OneEach(thread[h].answers)
        /\ \A a \in thread[h].answers : a.op \notin thread[h].todo
        /\ thread[h].phase = "done" => thread[h].todo = {}

(* A thread does not write an op of a row it saw broken. *)
NotBroke ==
    \A h \in Handler : thread[h].phase = "apply" =>
        \A i \in thread[h].todo : First(i, thread[h].todo) => ~Broke(h, OpOf(h, i).row)

(* Of two ops that wait, a thread comes to the second past the first, and the *)
(* second is written only if the first did not break the row.                 *)
InTurn ==
    \A d \in Device : \A j, i \in Recorded(d) :
        Before(d, j, i) /\ Waits(d, j) /\ Waits(d, i) =>
            /\ \A h \in Handler : WorksAt(h, d, i) =>
                  \/ j \in thread[h].todo
                  \/ Passed(d, j)
                  \/ Broke(h, outbox[d][i].row)
                  \/ Dead(outbox[d][i].row)
            /\ processed[<<d, i>>] = "applied" => Passed(d, j)

(* An op no thread will write: each that works on it finds its row broken. *)
Doomed(d, i) ==
    /\ processed[<<d, i>>] # "applied"
    /\ \A h \in Handler : WorksAt(h, d, i) =>
        \/ \E j \in thread[h].todo : Before(d, j, i) /\ BrokeChain(d, j)
        \/ Broke(h, outbox[d][i].row)
        \/ Dead(outbox[d][i].row)

NeverTaken(d, i) == processed[<<d, i>>] \in Failure \/ Doomed(d, i)

StatusesStand ==
    \A d \in Device : \A i \in Recorded(d) :
        outbox[d][i].status \in Failure \cup {"dismissed"} => NeverTaken(d, i)

RecordedFor(d, a) == a.verdict # "retry" => a.verdict = processed[<<d, a.op>>]

ThreadAnswersFinal ==
    \A h \in Handler : thread[h].phase # "free" =>
        \A a \in thread[h].answers : RecordedFor(thread[h].dev, a)

(* "Apply again" is for an op that failed. *)
FormStands ==
    \A d \in Device : form[d] # None /\ form[d].again # 0 =>
        outbox[d][form[d].again].status \in {"conflict", "dismissed"}

(* The ops a push has sent and not yet read an answer for, or is about to send. *)
OpsOf(answers) == {a.op : a \in answers}
Sent(d) ==
    IF push[d].phase = "waiting"
    THEN thread[push[d].on].todo \cup OpsOf(thread[push[d].on].answers)
    ELSE push[d].batch \cup OpsOf(push[d].answers)
Carried(d) == push[d].todo \cup Sent(d)
IsFirst(d, i) == \E a \in push[d].answers : FirstAnswer(a, push[d].answers) /\ a.op = i

PhaseTidy(d) ==
    /\ push[d].phase # "pushing" => push[d].batch = {}
    /\ push[d].phase \notin {"reading", "overwriting"} => push[d].answers = {}
    /\ push[d].phase \in {"idle", "pulling"} => push[d].todo = {}
    /\ OneEach(push[d].answers)

SentFirst(d) == \A i \in push[d].todo, j \in Sent(d) : j < i

OneAuthor(d) == \A i, j \in Carried(d) : outbox[d][i].actor = outbox[d][j].actor

CarriedWait(d) ==
    /\ \A i \in Carried(d) : Waits(d, i) \/ (push[d].phase = "overwriting" /\ IsFirst(d, i))
    /\ push[d].phase = "overwriting" => \A i \in Carried(d) : IsFirst(d, i) => ~Waits(d, i)

(* An earlier op of the row that waits goes out first. *)
GoesFirst(d) ==
    \A i \in push[d].todo \cup push[d].batch : \A j \in Recorded(d) :
        Before(d, j, i) /\ Waits(d, j) => j \in Carried(d) \/ Dead(outbox[d][i].row)

(* What was refused for now has nothing behind it in the push. *)
LastOf(d, answers) ==
    \A a \in answers : a.verdict = "retry" =>
        \A i \in push[d].todo : Before(d, a.op, i) => Dead(outbox[d][i].row)
RetryIsLast(d) ==
    /\ LastOf(d, push[d].answers)
    /\ push[d].phase = "waiting" => LastOf(d, thread[push[d].on].answers)

(* What is left on a row that failed will take its verdict. *)
RestDoomed(d) ==
    \A i \in push[d].todo : push[d].failed[outbox[d][i].row] # "none" => Doomed(d, i)

AnswersFinal(d) == \A a \in push[d].answers : RecordedFor(d, a)

PushOK(d) ==
    /\ PhaseTidy(d) /\ SentFirst(d) /\ OneAuthor(d) /\ CarriedWait(d)
    /\ GoesFirst(d) /\ RetryIsLast(d) /\ RestDoomed(d) /\ AnswersFinal(d)

ThreadsOK ==
    /\ InsertIsFirst /\ OutcomesOfRecorded /\ ThreadTidy /\ NotBroke /\ InTurn
    /\ StatusesStand /\ ThreadAnswersFinal

HeldInv == Inv /\ ThreadsOK /\ FormStands /\ \A d \in Device : PushOK(d)
-----------------------------------------------------------------------------
(* What the steps do to the outboxes. *)

(* Every op stays what it is; only its status changes, and never to pending. *)
KeepsOp(d, i) ==
    /\ i \in Recorded(d)'
    /\ outbox'[d][i].row = outbox[d][i].row
    /\ outbox'[d][i].kind = outbox[d][i].kind
    /\ outbox'[d][i].base = outbox[d][i].base
    /\ outbox'[d][i].parent = outbox[d][i].parent
    /\ outbox'[d][i].actor = outbox[d][i].actor
    /\ outbox'[d][i].status = "pending" => outbox[d][i].status = "pending"

SameOps == \A d \in Device : \A i \in Recorded(d) : KeepsOp(d, i)

(* SetStatus changes the status of one op. *)
LEMMA Marked ==
    ASSUME TypeOK, NEW d \in Device, NEW i \in Recorded(d), NEW s \in Status, SetStatus(d, i, s)
    PROVE  /\ \A e \in Device : Recorded(e)' = Recorded(e)
           /\ \A e \in Device : \A j \in Recorded(e) : outbox'[e][j] =
                 IF e = d /\ j = i THEN [outbox[d][i] EXCEPT !.status = s] ELSE outbox[e][j]
<1> DEFINE op == [outbox[d][i] EXCEPT !.status = s]
           seq == [outbox[d] EXCEPT ![i] = op]
<1>1. outbox \in [Device -> Seq(Op)] /\ outbox[d] \in Seq(Op) /\ i \in 1..Len(outbox[d])
  BY DEF TypeOK, Recorded
<1>2. outbox[d][i] \in Op
  BY <1>1, ElementOfSeq
<1>3. op \in Op
  BY <1>2 DEF Op
<1>4. outbox' = [outbox EXCEPT ![d] = seq]
  BY DEF SetStatus
<1> HIDE DEF op
<1>5. /\ seq \in Seq(Op) /\ Len(seq) = Len(outbox[d])
      /\ \A j \in 1..Len(outbox[d]) : seq[j] = IF j = i THEN op ELSE outbox[d][j]
  BY <1>1, <1>3, ExceptSeq
<1> HIDE DEF seq
<1>6. \A e \in Device : outbox'[e] = IF e = d THEN seq ELSE outbox[e]
  BY <1>1, <1>4
<1>7. \A e \in Device : Recorded(e)' = Recorded(e)
  BY <1>5, <1>6 DEF Recorded
<1>. QED BY <1>5, <1>6, <1>7 DEF Recorded, op

(* A failed status is never pending again. *)
LEMMA MarkedKeeps ==
    ASSUME TypeOK, NEW d \in Device, NEW i \in Recorded(d), NEW s \in Status, SetStatus(d, i, s),
           s # "pending"
    PROVE  SameOps
<1>1. \A e \in Device : \A j \in Recorded(e) : outbox[e][j] \in Op
  BY ElementOfSeq DEF TypeOK, Recorded
<1>2. /\ \A e \in Device : Recorded(e)' = Recorded(e)
      /\ \A e \in Device : \A j \in Recorded(e) : outbox'[e][j] =
            IF e = d /\ j = i THEN [outbox[d][i] EXCEPT !.status = s] ELSE outbox[e][j]
  BY Marked
<1>3. ASSUME NEW e \in Device, NEW j \in Recorded(e)
      PROVE  KeepsOp(e, j)
  <2>1. CASE e = d /\ j = i
    <3> DEFINE op == [outbox[d][i] EXCEPT !.status = s]
    <3>1. /\ op.row = outbox[d][i].row /\ op.kind = outbox[d][i].kind
          /\ op.base = outbox[d][i].base /\ op.parent = outbox[d][i].parent
          /\ op.actor = outbox[d][i].actor /\ op.status = s
      BY <1>1 DEF Op
    <3>2. outbox'[d][i] = op
      BY <1>2
    <3> HIDE DEF op
    <3>. QED BY <1>2, <2>1, <3>1, <3>2 DEF KeepsOp
  <2>2. CASE ~(e = d /\ j = i)
    BY <1>2, <2>2 DEF KeepsOp
  <2>. QED BY <2>1, <2>2
<1>. QED BY <1>3 DEF SameOps

(* An outbox that stays keeps its ops. *)
LEMMA OutboxSame ==
    ASSUME UNCHANGED outbox
    PROVE  /\ SameOps
           /\ \A d \in Device : Recorded(d)' = Recorded(d)
BY DEF SameOps, KeepsOp, Recorded

(* Record adds one op after the others. *)
LEMMA Appended ==
    ASSUME TypeOK, NEW d \in Device, NEW r \in Row, NEW k \in Kind, NEW b \in Nat,
           NEW p \in Writer, NEW u \in User, NextOp(d) <= MaxOps
    PROVE  LET recorded == Record(d, r, k, b, p, u) IN
           recorded[NextOp(d)] = [row |-> r, kind |-> k, base |-> b, parent |-> p, actor |-> u,
                                  status |-> "pending"]
<1>1. outbox[d] \in Seq(Op) /\ Len(outbox[d]) \in Nat
  BY DEF TypeOK
<1> DEFINE op == [row |-> r, kind |-> k, base |-> b, parent |-> p, actor |-> u,
                  status |-> "pending"]
<1> HIDE DEF op
<1>2. Append(outbox[d], op)[Len(outbox[d]) + 1] = op
  BY <1>1
<1>. QED BY <1>2 DEF Record, NextOp, op

(* What a step of the people at a till does to the ops: it adds at most one, at *)
(* the end, and sets aside failed ones.                                         *)
NewOp(d, i) ==
    /\ i = Len(outbox[d]) + 1
    /\ outbox'[d][i].status = "pending"
    /\ outbox'[d][i].kind \in Kind
    /\ outbox'[d][i].kind = "insert" =>
          \A e \in Device : \A j \in Recorded(e) : outbox[e][j].row # outbox'[d][i].row

SetAside(d, i) ==
    /\ outbox'[d][i].status = "dismissed"
    /\ outbox[d][i].status \in Failure \cup {"dismissed"}

UserEffect(d) ==
    /\ SameOps
    /\ \A e \in Device \ {d} : outbox'[e] = outbox[e]
    /\ \A i \in Recorded(d) : outbox'[d][i].status = outbox[d][i].status \/ SetAside(d, i)
    /\ \A i \in Recorded(d)' : i \in Recorded(d) \/ NewOp(d, i)
    /\ \A e \in Device : form'[e] # None =>
          \/ form'[e].again = 0
          \/ form'[e] = form[e]
          \/ form'[e].again \in Recorded(e) /\ outbox[e][form'[e].again].status = "conflict"

(* A new row: its insert comes last. *)
LEMMA CreateRowDoes ==
    ASSUME Inv, NEW d \in Device, NEW u \in User, NEW r \in Row, CreateRow(d, u, r)
    PROVE  LET n == Len(outbox[d]) + 1 IN
           /\ NextOp(d) = n /\ n \in 1..MaxOps /\ n \notin Recorded(d)
           /\ Recorded(d)' = Recorded(d) \cup {n}
           /\ \A e \in Device \ {d} : outbox'[e] = outbox[e]
           /\ \A i \in Recorded(d) : outbox'[d][i] = outbox[d][i]
           /\ outbox'[d][n] = [row |-> r, kind |-> "insert", base |-> 0, parent |-> Origin,
                               actor |-> u, status |-> "pending"]
<1> DEFINE s == Record(d, r, "insert", 0, Origin, u)
           n == Len(outbox[d]) + 1
<1>1. NextOp(d) <= MaxOps /\ outbox' = [outbox EXCEPT ![d] = s]
  BY DEF CreateRow
<1>2. "insert" \in Kind /\ 0 \in Nat /\ Origin \in Writer
  BY CountsAssumption DEF Kind, Origin, Writer
<1>3. /\ s \in Seq(Op) /\ Len(s) = n
      /\ \A j \in 1..Len(outbox[d]) : s[j] = outbox[d][j]
  BY ZenonT(60), <1>1, <1>2, Recording DEF Inv
<1>4. s[NextOp(d)] = [row |-> r, kind |-> "insert", base |-> 0, parent |-> Origin, actor |-> u,
                      status |-> "pending"]
  BY ZenonT(60), <1>1, <1>2, Appended DEF Inv
<1> HIDE DEF s
<1>5. \A e \in Device : outbox'[e] = IF e = d THEN s ELSE outbox[e]
  BY <1>1 DEF Inv, TypeOK
<1>6. Len(outbox[d]) \in Nat /\ NextOp(d) = n
  BY DEF Inv, TypeOK, NextOp
<1>7. Recorded(d)' = 1..n /\ Recorded(d) = 1..(n - 1)
  BY <1>3, <1>5, <1>6 DEF Recorded
<1>8. n \in 1..MaxOps /\ n \notin Recorded(d) /\ Recorded(d)' = Recorded(d) \cup {n}
  BY <1>1, <1>6, <1>7, CountsAssumption
<1>. QED BY <1>3, <1>4, <1>5, <1>6, <1>8 DEF Recorded

(* An edit: its op comes last, and the one applied again is set aside. *)
LEMMA SaveFormDoes ==
    ASSUME Inv, NEW d \in Device, NEW u \in User, SaveForm(d, u)
    PROVE  LET n == Len(outbox[d]) + 1
               f == form[d] IN
           /\ NextOp(d) = n /\ n \in 1..MaxOps /\ n \notin Recorded(d)
           /\ f \in Form /\ f.again \in {0} \cup Recorded(d)
           /\ Recorded(d)' = Recorded(d) \cup {n}
           /\ \A e \in Device \ {d} : outbox'[e] = outbox[e]
           /\ \A i \in Recorded(d) : outbox'[d][i] =
                 IF i = f.again THEN [outbox[d][i] EXCEPT !.status = "dismissed"] ELSE outbox[d][i]
           /\ outbox'[d][n] = [row |-> f.row, kind |-> "update", base |-> f.view.version,
                               parent |-> f.view.by, actor |-> u, status |-> "pending"]
<1> DEFINE f == form[d]
           n == Len(outbox[d]) + 1
           saved == Record(d, f.row, "update", f.view.version, f.view.by, u)
           op == [saved[f.again] EXCEPT !.status = "dismissed"]
           s == IF f.again = 0 THEN saved ELSE [saved EXCEPT ![f.again] = op]
<1>1. /\ f # None
      /\ NextOp(d) <= MaxOps
      /\ outbox' = [outbox EXCEPT ![d] = s]
  BY DEF SaveForm
<1>2. f \in Form /\ f.again \in {0} \cup Recorded(d)
  BY <1>1 DEF Inv, TypeOK, InFlight, FormNamesOp
<1>3. f.row \in Row /\ f.view.version \in Nat /\ f.view.by \in Writer /\ "update" \in Kind
  BY <1>2 DEF Form, View, Kind
<1>4. /\ saved \in Seq(Op) /\ Len(saved) = n
      /\ \A j \in 1..Len(outbox[d]) : saved[j] = outbox[d][j]
  BY ZenonT(60), <1>1, <1>3, Recording DEF Inv
<1>5. saved[NextOp(d)] = [row |-> f.row, kind |-> "update", base |-> f.view.version,
                          parent |-> f.view.by, actor |-> u, status |-> "pending"]
  <2> DEFINE r == f.row
             b == f.view.version
             p == f.view.by
             k == "update"
  <2>1. r \in Row /\ b \in Nat /\ p \in Writer /\ k \in Kind
    BY <1>3
  <2> HIDE DEF r, b, p, k
  <2>2. Record(d, r, k, b, p, u)[NextOp(d)] =
            [row |-> r, kind |-> k, base |-> b, parent |-> p, actor |-> u, status |-> "pending"]
    BY ZenonT(60), <1>1, <2>1, Appended DEF Inv
  <2>. QED BY <2>2 DEF r, b, p, k
<1>6. Len(outbox[d]) \in Nat /\ NextOp(d) = n /\ Recorded(d) = 1..(n - 1)
  BY DEF Inv, TypeOK, NextOp, Recorded
<1> HIDE DEF saved
<1>7. /\ s \in Seq(Op) /\ Len(s) = n
      /\ \A j \in Recorded(d) : s[j] =
            IF j = f.again THEN [outbox[d][j] EXCEPT !.status = "dismissed"] ELSE outbox[d][j]
      /\ s[n] = saved[n]
  <2>1. CASE f.again = 0
    BY <1>4, <1>6, <2>1
  <2>2. CASE f.again # 0
    <3>1. f.again \in 1..Len(saved) /\ f.again \in 1..Len(outbox[d]) /\ f.again # n
      BY <1>2, <1>4, <1>6, <2>2
    <3>2. saved[f.again] \in Op
      BY <1>4, <3>1, ElementOfSeq
    <3>3. op \in Op
      BY <3>2 DEF Op, Status
    <3>4. op = [outbox[d][f.again] EXCEPT !.status = "dismissed"]
      BY <1>4, <3>1
    <3> HIDE DEF op
    <3>5. s = [saved EXCEPT ![f.again] = op]
      BY <2>2
    <3>6. /\ s \in Seq(Op) /\ Len(s) = Len(saved)
          /\ \A j \in 1..Len(saved) : s[j] = IF j = f.again THEN op ELSE saved[j]
      BY <1>4, <3>1, <3>3, <3>5, ExceptSeq
    <3> HIDE DEF s
    <3>7. n \in 1..Len(saved) /\ \A j \in Recorded(d) : j \in 1..Len(saved) /\ saved[j] = outbox[d][j]
      BY <1>4, <1>6
    <3>. QED BY <1>4, <3>1, <3>4, <3>6, <3>7
  <2>. QED BY <2>1, <2>2
<1> HIDE DEF s
<1>8. \A e \in Device : outbox'[e] = IF e = d THEN s ELSE outbox[e]
  BY <1>1 DEF Inv, TypeOK
<1>9. Recorded(d)' = 1..n
  BY <1>7, <1>8 DEF Recorded
<1>10. n \in 1..MaxOps /\ n \notin Recorded(d) /\ Recorded(d)' = Recorded(d) \cup {n}
  BY <1>1, <1>6, <1>9, CountsAssumption
<1>. QED BY <1>2, <1>5, <1>6, <1>7, <1>8, <1>10

(* The steps of the people at a till, in terms of what they leave alone. *)
LEMMA UserDoes ==
    ASSUME Inv, FormStands, NEW d \in Device, UserStep(d)
    PROVE  /\ UserEffect(d)
           /\ UNCHANGED <<push, cursor, store, feed, processed, thread, faults>>
<1>1. ASSUME NEW u \in User, NEW r \in Row, CreateRow(d, u, r)
      PROVE  UserEffect(d) /\ UNCHANGED <<push, cursor, store, feed, processed, thread, faults>>
  <2> PICK n : n = Len(outbox[d]) + 1
    OBVIOUS
  <2>1. /\ n \notin Recorded(d)
        /\ Recorded(d)' = Recorded(d) \cup {n}
        /\ \A e \in Device \ {d} : outbox'[e] = outbox[e]
        /\ \A i \in Recorded(d) : outbox'[d][i] = outbox[d][i]
        /\ outbox'[d][n] = [row |-> r, kind |-> "insert", base |-> 0, parent |-> Origin,
                            actor |-> u, status |-> "pending"]
    BY <1>1, CreateRowDoes
  <2>2. /\ \A e \in Device : \A i \in DOMAIN outbox[e] : outbox[e][i].row # r
        /\ UNCHANGED <<form, push, cursor, store, feed, processed, thread, faults>>
    BY <1>1 DEF CreateRow, serverVars
  <2>3. \A e \in Device : \A j \in Recorded(e) : outbox[e][j].row # r
    BY <2>2 DEF Recorded, Inv, TypeOK
  <2>4. NewOp(d, n)
    BY <2>1, <2>3 DEF NewOp, Kind
  <2>5. SameOps
    BY <2>1 DEF SameOps, KeepsOp, Recorded
  <2>. QED BY <2>1, <2>2, <2>4, <2>5 DEF UserEffect
<1>2. ASSUME NEW r \in Row, OpenForm(d, r)
      PROVE  UserEffect(d) /\ UNCHANGED <<push, cursor, store, feed, processed, thread, faults>>
  <2>1. /\ form' = [form EXCEPT ![d] = [row |-> r, view |-> local[d][r], again |-> 0]]
        /\ UNCHANGED <<outbox, push, cursor, store, feed, processed, thread, faults>>
    BY <1>2 DEF OpenForm, serverVars
  <2>2. \A e \in Device : form'[e] # None => form'[e].again = 0 \/ form'[e] = form[e]
    BY <2>1 DEF Inv, TypeOK
  <2>. QED BY <2>1, <2>2, OutboxSame DEF UserEffect, Recorded
<1>3. ASSUME NEW u \in User, SaveForm(d, u)
      PROVE  UserEffect(d) /\ UNCHANGED <<push, cursor, store, feed, processed, thread, faults>>
  <2> PICK n : n = Len(outbox[d]) + 1
    OBVIOUS
  <2>1. /\ form[d].again \in {0} \cup Recorded(d)
        /\ n \notin Recorded(d)
        /\ Recorded(d)' = Recorded(d) \cup {n}
        /\ \A e \in Device \ {d} : outbox'[e] = outbox[e]
        /\ \A i \in Recorded(d) : outbox'[d][i] =
              IF i = form[d].again THEN [outbox[d][i] EXCEPT !.status = "dismissed"]
              ELSE outbox[d][i]
        /\ outbox'[d][n] = [row |-> form[d].row, kind |-> "update",
                            base |-> form[d].view.version, parent |-> form[d].view.by,
                            actor |-> u, status |-> "pending"]
    BY <1>3, SaveFormDoes
  <2>2. /\ form[d] # None
        /\ form' = [form EXCEPT ![d] = None]
        /\ UNCHANGED <<push, cursor, store, feed, processed, thread, faults>>
    BY <1>3 DEF SaveForm, serverVars
  <2>3. NewOp(d, n)
    BY <2>1 DEF NewOp, Kind
  <2>4. \A i \in Recorded(d) : outbox[d][i] \in Op
    BY AtPush
  <2>5. ASSUME NEW i \in Recorded(d)
        PROVE  /\ KeepsOp(d, i)
               /\ outbox'[d][i].status = outbox[d][i].status \/ SetAside(d, i)
    <3>1. CASE i # form[d].again
      BY <2>1, <3>1 DEF KeepsOp
    <3>2. CASE i = form[d].again
      <4>1. outbox[d][i].status \in {"conflict", "dismissed"}
        <5>1. form[d].again # 0
          BY <3>2 DEF Recorded
        <5>. QED BY <2>2, <3>2, <5>1 DEF FormStands
      <4> DEFINE op == [outbox[d][i] EXCEPT !.status = "dismissed"]
      <4>2. /\ op.row = outbox[d][i].row /\ op.kind = outbox[d][i].kind
            /\ op.base = outbox[d][i].base /\ op.parent = outbox[d][i].parent
            /\ op.actor = outbox[d][i].actor /\ op.status = "dismissed"
        BY <2>4 DEF Op
      <4>3. outbox'[d][i] = op
        BY <2>1, <3>2
      <4> HIDE DEF op
      <4>. QED BY <2>1, <4>1, <4>2, <4>3 DEF KeepsOp, SetAside, Failure
    <3>. QED BY <3>1, <3>2
  <2>6. SameOps
    BY <2>1, <2>5 DEF SameOps, KeepsOp, Recorded
  <2>7. \A e \in Device : form'[e] # None => form'[e] = form[e]
    BY <2>2 DEF Inv, TypeOK
  <2>. QED BY <2>1, <2>2, <2>3, <2>5, <2>6, <2>7 DEF UserEffect
<1>4. ASSUME CancelForm(d)
      PROVE  UserEffect(d) /\ UNCHANGED <<push, cursor, store, feed, processed, thread, faults>>
  <2>1. /\ form' = [form EXCEPT ![d] = None]
        /\ UNCHANGED <<outbox, push, cursor, store, feed, processed, thread, faults>>
    BY <1>4 DEF CancelForm, serverVars
  <2>2. \A e \in Device : form'[e] # None => form'[e] = form[e]
    BY <2>1 DEF Inv, TypeOK
  <2>. QED BY <2>1, <2>2, OutboxSame DEF UserEffect, Recorded
<1>5. ASSUME NEW i \in DOMAIN outbox[d], RetryConflict(d, i)
      PROVE  UserEffect(d) /\ UNCHANGED <<push, cursor, store, feed, processed, thread, faults>>
  <2> DEFINE f == [row |-> outbox[d][i].row, view |-> local[d][outbox[d][i].row], again |-> i]
  <2>1. /\ outbox[d][i].status = "conflict"
        /\ form' = [form EXCEPT ![d] = f]
        /\ UNCHANGED <<outbox, push, cursor, store, feed, processed, thread, faults>>
    BY <1>5 DEF RetryConflict, serverVars
  <2>2. f.again = i
    OBVIOUS
  <2> HIDE DEF f
  <2>3. \A e \in Device : form'[e] # None =>
            \/ form'[e] = form[e]
            \/ form'[e].again \in Recorded(e) /\ outbox[e][form'[e].again].status = "conflict"
    BY <2>1, <2>2 DEF Inv, TypeOK, Recorded
  <2>. QED BY <2>1, <2>3, OutboxSame DEF UserEffect, Recorded
<1>6. ASSUME NEW i \in DOMAIN outbox[d], Dismiss(d, i)
      PROVE  UserEffect(d) /\ UNCHANGED <<push, cursor, store, feed, processed, thread, faults>>
  <2>1. /\ outbox[d][i].status \in Failure
        /\ SetStatus(d, i, "dismissed")
        /\ UNCHANGED <<form, push, cursor, store, feed, processed, thread, faults>>
    BY <1>6 DEF Dismiss, serverVars
  <2>2. i \in Recorded(d) /\ "dismissed" \in Status
    BY DEF Inv, TypeOK, Recorded, Status
  <2>3. \A j \in Recorded(d) : outbox[d][j] \in Op
    BY AtPush
  <2>4. /\ \A e \in Device : Recorded(e)' = Recorded(e)
        /\ \A e \in Device : \A j \in Recorded(e) : outbox'[e][j] =
              IF e = d /\ j = i THEN [outbox[d][i] EXCEPT !.status = "dismissed"]
              ELSE outbox[e][j]
    BY <2>1, <2>2, Marked DEF Inv
  <2>5. SameOps
    BY <2>1, <2>2, MarkedKeeps DEF Inv
  <2>6. \A e \in Device \ {d} : outbox'[e] = outbox[e]
    BY <2>1 DEF SetStatus, Inv, TypeOK
  <2>7. \A j \in Recorded(d) : outbox'[d][j].status = outbox[d][j].status \/ SetAside(d, j)
    <3> SUFFICES ASSUME NEW j \in Recorded(d), j = i PROVE SetAside(d, j)
      BY <2>4
    <3>1. [outbox[d][i] EXCEPT !.status = "dismissed"].status = "dismissed"
      BY <2>2, <2>3 DEF Op
    <3>. QED BY <2>1, <2>2, <2>4, <3>1 DEF SetAside
  <2>. QED BY <2>1, <2>4, <2>5, <2>6, <2>7 DEF UserEffect
<1>. QED BY <1>1, <1>2, <1>3, <1>4, <1>5, <1>6 DEF UserStep

-----------------------------------------------------------------------------
(* What the steps do to the pushes and the threads. *)

(* SetPush changes one push. *)
LEMMA PushIs ==
    ASSUME Inv, NEW d \in Device, NEW p, SetPush(d, p)
    PROVE  push'[d] = p /\ \A e \in Device \ {d} : push'[e] = push[e]
BY DEF SetPush, Inv, TypeOK

(* A sync begins with what its user has pending. *)
LEMMA StartSyncDoes ==
    ASSUME Inv, NEW d \in Device, NEW u \in User, StartSync(d, u)
    PROVE  /\ push[d].phase = "idle"
           /\ push'[d].phase = "pushing" /\ push'[d].todo = Pending(d, u)
           /\ push'[d].batch = {} /\ push'[d].answers = {} /\ push'[d].failed = Unbroken
           /\ \A e \in Device \ {d} : push'[e] = push[e]
           /\ UNCHANGED <<outbox, local, form, cursor, store, feed, processed, thread, faults>>
<1> DEFINE p == [Idle EXCEPT !.phase = "pushing", !.todo = Pending(d, u)]
<1>1. /\ SetPush(d, p) /\ push[d].phase = "idle"
      /\ UNCHANGED <<outbox, local, form, cursor, store, feed, processed, thread, faults>>
  BY DEF StartSync, Syncing, serverVars
<1>2. /\ p.phase = "pushing" /\ p.todo = Pending(d, u) /\ p.batch = {} /\ p.answers = {}
      /\ p.failed = Unbroken
  BY DEF Idle
<1> HIDE DEF p
<1>. QED BY <1>1, <1>2, PushIs

(* An op goes into the request, or is marked with the verdict of its row. *)
LEMMA FillBatchDoes ==
    ASSUME Inv, NEW d \in Device, NEW i \in push[d].todo, FillBatch(d, i)
    PROVE  LET verdict == push[d].failed[outbox[d][i].row] IN
           /\ First(i, push[d].todo)
           /\ push[d].phase = "pushing" /\ push'[d].phase = "pushing"
           /\ push'[d].todo = push[d].todo \ {i}
           /\ push'[d].answers = push[d].answers
           /\ push'[d].failed = push[d].failed
           /\ \/ /\ verdict = "none"
                 /\ push'[d].batch = push[d].batch \cup {i}
                 /\ UNCHANGED outbox
              \/ /\ verdict # "none" /\ verdict \in Failure
                 /\ push'[d].batch = push[d].batch
                 /\ SetStatus(d, i, verdict)
           /\ \A e \in Device \ {d} : push'[e] = push[e]
           /\ UNCHANGED <<local, form, cursor, store, feed, processed, thread, faults>>
<1> DEFINE verdict == push[d].failed[outbox[d][i].row]
           p == [push[d] EXCEPT !.todo = @ \ {i}, !.batch = @ \cup {i}]
           q == [push[d] EXCEPT !.todo = @ \ {i}]
<1>1. /\ First(i, push[d].todo) /\ push[d].phase = "pushing"
      /\ UNCHANGED <<local, form, cursor, store, feed, processed, thread, faults>>
      /\ \/ verdict = "none" /\ SetPush(d, p) /\ UNCHANGED outbox
         \/ verdict # "none" /\ SetPush(d, q) /\ SetStatus(d, i, verdict)
  BY DEF FillBatch, serverVars
<1>2. push[d] \in PushState
  BY AtPush
<1>3. /\ p.phase = push[d].phase /\ p.todo = push[d].todo \ {i} /\ p.batch = push[d].batch \cup {i}
      /\ p.answers = push[d].answers /\ p.failed = push[d].failed
  BY <1>2 DEF PushState
<1>4. /\ q.phase = push[d].phase /\ q.todo = push[d].todo \ {i} /\ q.batch = push[d].batch
      /\ q.answers = push[d].answers /\ q.failed = push[d].failed
  BY <1>2 DEF PushState
<1>5. verdict \in {"none"} \cup Failure
  BY <1>2, AtPush DEF PushState, Chain, Op
<1> HIDE DEF p, q, verdict
<1>6. CASE verdict = "none" /\ SetPush(d, p) /\ UNCHANGED outbox
  BY <1>1, <1>3, <1>6, PushIs DEF verdict
<1>7. CASE verdict # "none" /\ SetPush(d, q) /\ SetStatus(d, i, verdict)
  BY <1>1, <1>4, <1>5, <1>7, PushIs DEF verdict
<1>. QED BY <1>1, <1>6, <1>7

(* The request becomes the work of a free thread. *)
LEMMA SendBatchDoes ==
    ASSUME Inv, NEW d \in Device, NEW h \in Handler, SendBatch(d, h)
    PROVE  /\ push[d].phase = "pushing" /\ BatchReady(push[d]) /\ push[d].batch # {}
           /\ push'[d].phase = "waiting" /\ push'[d].on = h
           /\ push'[d].todo = push[d].todo /\ push'[d].batch = {}
           /\ push'[d].answers = push[d].answers /\ push'[d].failed = push[d].failed
           /\ \A e \in Device \ {d} : push'[e] = push[e]
           /\ thread[h] = Free
           /\ thread'[h].phase = "lookup" /\ thread'[h].dev = d
           /\ thread'[h].todo = push[d].batch /\ thread'[h].answers = {}
           /\ thread'[h].failed = Unbroken /\ thread'[h].verdict = "none"
           /\ \A g \in Handler \ {h} : thread'[g] = thread[g]
           /\ UNCHANGED <<outbox, local, form, cursor, store, feed, processed, faults>>
<1> DEFINE p == [push[d] EXCEPT !.phase = "waiting", !.batch = {}, !.on = h]
           t == [Free EXCEPT !.phase = "lookup", !.dev = d, !.todo = push[d].batch]
<1>1. /\ thread[h] = Free /\ SetPush(d, p) /\ SetThread(h, t)
      /\ push[d].phase = "pushing" /\ BatchReady(push[d]) /\ push[d].batch # {}
      /\ UNCHANGED <<outbox, local, form, cursor, store, feed, processed, faults>>
  BY DEF SendBatch
<1>2. /\ p.phase = "waiting" /\ p.on = h /\ p.todo = push[d].todo /\ p.batch = {}
      /\ p.answers = push[d].answers /\ p.failed = push[d].failed
  BY AtPush DEF PushState
<1>3. /\ t.phase = "lookup" /\ t.dev = d /\ t.todo = push[d].batch /\ t.answers = {}
      /\ t.failed = Unbroken /\ t.verdict = "none"
  BY DEF Free
<1> HIDE DEF p, t
<1>4. thread'[h] = t /\ \A g \in Handler \ {h} : thread'[g] = thread[g]
  BY <1>1 DEF SetThread, Inv, TypeOK
<1>. QED BY <1>1, <1>2, <1>3, <1>4, PushIs

(* The thread's answers become the device's. *)
LEMMA ReceiveAnswersDoes ==
    ASSUME Inv, NEW d \in Device, ReceiveAnswers(d)
    PROVE  /\ push[d].phase = "waiting" /\ push'[d].phase = "reading"
           /\ push'[d].todo = push[d].todo /\ push'[d].batch = push[d].batch
           /\ push'[d].failed = push[d].failed
           /\ push'[d].answers = thread[push[d].on].answers
           /\ \A e \in Device \ {d} : push'[e] = push[e]
           /\ push[d].on \in Handler /\ thread[push[d].on].dev = d
           /\ thread[push[d].on].phase = "done" /\ thread'[push[d].on] = Free
           /\ \A g \in Handler \ {push[d].on} : thread'[g] = thread[g]
           /\ UNCHANGED <<outbox, local, form, cursor, store, feed, processed, faults>>
<1> DEFINE h == push[d].on
           p == [push[d] EXCEPT !.phase = "reading", !.on = None, !.answers = thread[h].answers]
<1>1. /\ push[d].phase = "waiting" /\ SetPush(d, p) /\ SetThread(h, Free)
      /\ thread[h].phase = "done"
      /\ UNCHANGED <<outbox, local, form, cursor, store, feed, processed, faults>>
  BY DEF ReceiveAnswers
<1>2. h \in Handler /\ thread[h].dev = d
  BY <1>1 DEF Inv, InFlight, WaitsOnItsThread
<1>3. /\ p.phase = "reading" /\ p.todo = push[d].todo /\ p.batch = push[d].batch
      /\ p.failed = push[d].failed /\ p.answers = thread[h].answers
  BY AtPush DEF PushState
<1> HIDE DEF p, h
<1>4. thread'[h] = Free /\ \A g \in Handler \ {h} : thread'[g] = thread[g]
  BY <1>1, <1>2 DEF SetThread, Inv, TypeOK
<1>5. push'[d] = p /\ \A e \in Device \ {d} : push'[e] = push[e]
  BY <1>1, PushIs
<1>. QED BY <1>1, <1>2, <1>3, <1>4, <1>5 DEF h

(* An answer marks its op; a conflict stays to be overwritten. *)
LEMMA ReadAnswerDoes ==
    ASSUME Inv, NEW d \in Device, NEW a \in push[d].answers, ReadAnswer(d, a)
    PROVE  /\ FirstAnswer(a, push[d].answers)
           /\ push[d].phase = "reading"
           /\ push'[d].todo = push[d].todo /\ push'[d].batch = push[d].batch
           /\ push'[d].failed = Broken(push[d].failed, outbox[d][a.op], a.verdict)
           /\ \/ /\ a.verdict = "retry" /\ UNCHANGED outbox
                 /\ push'[d].phase = "reading" /\ push'[d].answers = push[d].answers \ {a}
              \/ /\ a.verdict = "applied" /\ SetStatus(d, a.op, "acked")
                 /\ push'[d].phase = "reading" /\ push'[d].answers = push[d].answers \ {a}
              \/ /\ a.verdict = "rejected" /\ SetStatus(d, a.op, "rejected")
                 /\ push'[d].phase = "reading" /\ push'[d].answers = push[d].answers \ {a}
              \/ /\ a.verdict = "conflict" /\ SetStatus(d, a.op, "conflict")
                 /\ push'[d].phase = "overwriting" /\ push'[d].answers = push[d].answers
           /\ \A e \in Device \ {d} : push'[e] = push[e]
           /\ UNCHANGED <<local, form, cursor, store, feed, processed, thread, faults>>
<1> DEFINE failed == Broken(push[d].failed, outbox[d][a.op], a.verdict)
           phase == IF a.verdict = "conflict" THEN "overwriting" ELSE push[d].phase
           answers == IF a.verdict = "conflict" THEN push[d].answers ELSE push[d].answers \ {a}
           p == [push[d] EXCEPT !.failed = failed, !.phase = phase, !.answers = answers]
           status == IF a.verdict = "applied" THEN "acked" ELSE a.verdict
<1>1. /\ push[d].phase = "reading" /\ SetPush(d, p) /\ FirstAnswer(a, push[d].answers)
      /\ IF a.verdict = "retry" THEN UNCHANGED outbox ELSE SetStatus(d, a.op, status)
      /\ UNCHANGED <<local, form, cursor, store, feed, processed, thread, faults>>
  BY DEF ReadAnswer, serverVars
<1>2. a.verdict \in {"applied", "conflict", "rejected", "retry"}
  BY AtPush DEF Answer, Verdict, Outcome, Failure
<1> HIDE DEF failed
<1>3. /\ p.phase = phase /\ p.todo = push[d].todo /\ p.batch = push[d].batch
      /\ p.failed = failed /\ p.answers = answers
  BY AtPush DEF PushState
<1> HIDE DEF p
<1>4. push'[d] = p /\ \A e \in Device \ {d} : push'[e] = push[e]
  BY <1>1, PushIs
<1>5. \/ /\ a.verdict = "retry" /\ UNCHANGED outbox
         /\ push'[d].phase = "reading" /\ push'[d].answers = push[d].answers \ {a}
      \/ /\ a.verdict = "applied" /\ SetStatus(d, a.op, "acked")
         /\ push'[d].phase = "reading" /\ push'[d].answers = push[d].answers \ {a}
      \/ /\ a.verdict = "rejected" /\ SetStatus(d, a.op, "rejected")
         /\ push'[d].phase = "reading" /\ push'[d].answers = push[d].answers \ {a}
      \/ /\ a.verdict = "conflict" /\ SetStatus(d, a.op, "conflict")
         /\ push'[d].phase = "overwriting" /\ push'[d].answers = push[d].answers
  BY <1>1, <1>2, <1>3, <1>4
<1>. QED BY <1>1, <1>3, <1>4, <1>5 DEF failed

(* The server's row replaces the local one. *)
LEMMA OverwriteDoes ==
    ASSUME Inv, NEW d \in Device, NEW a \in push[d].answers, Overwrite(d, a)
    PROVE  /\ FirstAnswer(a, push[d].answers)
           /\ push[d].phase = "overwriting" /\ push'[d].phase = "reading"
           /\ push'[d].todo = push[d].todo /\ push'[d].batch = push[d].batch
           /\ push'[d].failed = push[d].failed
           /\ push'[d].answers = push[d].answers \ {a}
           /\ \A e \in Device \ {d} : push'[e] = push[e]
           /\ outbox[d][a.op].row \in Row
           /\ \A e \in Device, r \in Row : local'[e][r] =
                 IF e = d /\ r = outbox[d][a.op].row THEN a.current ELSE local[e][r]
           /\ UNCHANGED <<outbox, form, cursor, store, feed, processed, thread, faults>>
<1> DEFINE p == [push[d] EXCEPT !.phase = "reading", !.answers = @ \ {a}]
           q == outbox[d][a.op].row
<1>1. /\ push[d].phase = "overwriting" /\ SetPush(d, p) /\ FirstAnswer(a, push[d].answers)
      /\ local' = [local EXCEPT ![d][q] = a.current]
      /\ UNCHANGED <<outbox, form, cursor, store, feed, processed, thread, faults>>
  BY DEF Overwrite, serverVars
<1>2. /\ p.phase = "reading" /\ p.todo = push[d].todo /\ p.batch = push[d].batch
      /\ p.failed = push[d].failed /\ p.answers = push[d].answers \ {a}
  BY AtPush DEF PushState
<1>3. q \in Row
  BY AtPush DEF Op
<1> HIDE DEF p, q
<1>4. \A e \in Device, r \in Row : local'[e][r] =
          IF e = d /\ r = q THEN a.current ELSE local[e][r]
  BY <1>1, <1>3 DEF Inv, TypeOK
<1>5. push'[d] = p /\ \A e \in Device \ {d} : push'[e] = push[e]
  BY <1>1, PushIs
<1>. QED BY <1>1, <1>2, <1>3, <1>4, <1>5 DEF q

(* All answers are read. *)
LEMMA NextBatchDoes ==
    ASSUME Inv, NEW d \in Device, NextBatch(d)
    PROVE  /\ push[d].phase = "reading" /\ push[d].answers = {}
           /\ push'[d].phase = "pushing"
           /\ push'[d].todo = push[d].todo /\ push'[d].batch = push[d].batch
           /\ push'[d].failed = push[d].failed
           /\ push'[d].answers = push[d].answers
           /\ \A e \in Device \ {d} : push'[e] = push[e]
           /\ UNCHANGED <<outbox, local, form, cursor, store, feed, processed, thread, faults>>
<1> DEFINE p == [push[d] EXCEPT !.phase = "pushing"]
<1>1. /\ push[d].phase = "reading" /\ push[d].answers = {} /\ SetPush(d, p)
      /\ UNCHANGED <<outbox, local, form, cursor, store, feed, processed, thread, faults>>
  BY DEF NextBatch, serverVars
<1>2. /\ p.phase = "pushing" /\ p.todo = push[d].todo /\ p.batch = push[d].batch
      /\ p.failed = push[d].failed /\ p.answers = push[d].answers
  BY AtPush DEF PushState
<1> HIDE DEF p
<1>. QED BY <1>1, <1>2, PushIs

(* A push that is over, at its end or before. *)
LEMMA OverDoes ==
    ASSUME Inv, NEW d \in Device, EndPush(d) \/ EndSync(d) \/ LoseConnection(d) \/ KillApp(d)
    PROVE  /\ push'[d].phase \in {"idle", "pulling"}
           /\ EndPush(d) => push[d].phase = "pushing" /\ push[d].todo = {} /\ push[d].batch = {}
           /\ push'[d].phase = "pulling" => EndPush(d)
           /\ push'[d].todo = {} /\ push'[d].batch = {} /\ push'[d].answers = {}
           /\ push'[d].failed = Unbroken
           /\ \A e \in Device \ {d} : push'[e] = push[e]
           /\ form' = form \/ form' = [form EXCEPT ![d] = None]
           /\ UNCHANGED <<outbox, local, cursor, store, feed, processed, thread>>
<1>1. /\ Idle.phase = "idle" /\ Idle.todo = {} /\ Idle.batch = {} /\ Idle.answers = {}
      /\ Idle.failed = Unbroken
  BY DEF Idle
<1>2. CASE EndPush(d)
  <2> DEFINE p == [Idle EXCEPT !.phase = "pulling"]
  <2>1. /\ SetPush(d, p) /\ push[d].phase = "pushing" /\ push[d].todo = {} /\ push[d].batch = {}
        /\ UNCHANGED <<outbox, local, form, cursor, store, feed, processed, thread>>
    BY <1>2 DEF EndPush, serverVars
  <2>2. /\ p.phase = "pulling" /\ p.todo = {} /\ p.batch = {} /\ p.answers = {}
        /\ p.failed = Unbroken
    BY DEF Idle
  <2> HIDE DEF p
  <2>. QED BY <1>2, <2>1, <2>2, PushIs
<1>3. CASE ~EndPush(d)
  <2>1. /\ SetPush(d, Idle)
        /\ form' = form \/ form' = [form EXCEPT ![d] = None]
        /\ UNCHANGED <<outbox, local, cursor, store, feed, processed, thread>>
    BY <1>3 DEF EndSync, LoseConnection, KillApp, serverVars
  <2>. QED BY <1>1, <1>3, <2>1, PushIs
<1>. QED BY <1>2, <1>3

(* A change of the feed replaces a local row that is not newer. *)
LEMMA PullChangeDoes ==
    ASSUME Inv, NEW d \in Device, PullChange(d)
    PROVE  LET n == cursor[d] + 1
               c == feed[n] IN
           /\ push[d].phase = "pulling"
           /\ n \in DOMAIN feed
           /\ cursor'[d] = n /\ \A e \in Device \ {d} : cursor'[e] = cursor[e]
           /\ \A e \in Device, r \in Row : local'[e][r] =
                 IF e = d /\ r = c.row /\ ~(local[d][r].version > c.version)
                 THEN [version |-> c.version, by |-> c.by] ELSE local[e][r]
           /\ UNCHANGED <<outbox, form, push, store, feed, processed, thread, faults>>
<1> DEFINE n == cursor[d] + 1
           c == feed[n]
           image == IF local[d][c.row].version > c.version THEN local[d][c.row]
                    ELSE [version |-> c.version, by |-> c.by]
<1>1. /\ push[d].phase = "pulling" /\ cursor[d] < Len(feed)
      /\ local' = [local EXCEPT ![d][c.row] = image]
      /\ cursor' = [cursor EXCEPT ![d] = @ + 1]
      /\ UNCHANGED <<outbox, form, push, store, feed, processed, thread, faults>>
  BY DEF PullChange, serverVars
<1>2. feed \in Seq(Change) /\ n \in 1..Len(feed) /\ n \in DOMAIN feed
  BY <1>1 DEF Inv, TypeOK
<1>3. cursor'[d] = n /\ \A e \in Device \ {d} : cursor'[e] = cursor[e]
  BY <1>1 DEF Inv, TypeOK
<1>4. c.row \in Row
  <2>1. c \in Change
    BY <1>2, ElementOfSeq
  <2>. QED BY <2>1 DEF Change
<1> HIDE DEF n
<1>5. \A e \in Device, r \in Row : local'[e][r] =
          IF e = d /\ r = c.row THEN image ELSE local[e][r]
  BY <1>1, <1>4 DEF Inv, TypeOK
<1>. QED BY <1>1, <1>2, <1>3, <1>5 DEF n

(* A step of a thread: it turns to deciding or settling its op, answers the op, *)
(* or ends.                                                                     *)
TurnsTo(h) ==
    /\ thread'[h].dev = thread[h].dev /\ thread'[h].todo = thread[h].todo
    /\ thread'[h].failed = thread[h].failed /\ thread'[h].answers = thread[h].answers
    /\ \E i \in thread[h].todo :
          /\ First(i, thread[h].todo)
          /\ \/ thread'[h].phase = "apply" /\ ~Broke(h, OpOf(h, i).row)
             \/ /\ thread'[h].phase = "settle"
                /\ \/ /\ Broke(h, OpOf(h, i).row)
                      /\ thread'[h].verdict = thread[h].failed[OpOf(h, i).row]
                   \/ thread'[h].verdict = "rejected" /\ OpOf(h, i).kind \in FinalRefusals
                   \/ thread'[h].verdict = "conflict" /\ Loses(OpOf(h, i))
    /\ UNCHANGED <<store, feed, processed>>

Records(h, i, v) ==
    \/ /\ v = "retry"
       /\ RefuseForNow(h, i) \/ NotThereYet(h, i)
       /\ UNCHANGED <<store, feed, processed>>
    \/ /\ v \in Outcome /\ processed[IdOf(h, i)] = v
       /\ UNCHANGED <<store, feed, processed>>
    \/ /\ v \in Failure /\ processed[IdOf(h, i)] = "none"
       /\ thread[h].phase = "settle" /\ v = thread[h].verdict
       /\ processed' = [processed EXCEPT ![IdOf(h, i)] = v]
       /\ UNCHANGED <<store, feed>>
    \/ /\ v = "applied" /\ processed[IdOf(h, i)] = "none"
       /\ thread[h].phase = "apply" /\ Fits(OpOf(h, i))
       /\ processed' = [processed EXCEPT ![IdOf(h, i)] = v]
       /\ Write(OpOf(h, i).row, IdOf(h, i))

AnswersOp(h, i, v, a) ==
    /\ First(i, thread[h].todo)
    /\ a.op = i /\ a.verdict = v /\ a.current = store'[OpOf(h, i).row]
    /\ thread'[h].phase = IF thread[h].todo \ {i} = {} THEN "done" ELSE "lookup"
    /\ thread'[h].dev = thread[h].dev /\ thread'[h].todo = thread[h].todo \ {i}
    /\ thread'[h].failed = Broken(thread[h].failed, OpOf(h, i), v)
    /\ thread'[h].answers = thread[h].answers \cup {a}
    /\ Records(h, i, v)

ThreadEnds(h) ==
    /\ thread'[h] = Free
    /\ \A d \in Device : push[d].on # h
    /\ UNCHANGED <<store, feed, processed>>

ThreadEffect(h) ==
    \/ TurnsTo(h)
    \/ \E i \in thread[h].todo, v \in Verdict, a \in Answer : AnswersOp(h, i, v, a)
    \/ ThreadEnds(h)

(* SetThread changes one thread. *)
LEMMA ThreadIs ==
    ASSUME Inv, NEW h \in Handler, NEW t, SetThread(h, t)
    PROVE  thread'[h] = t /\ \A g \in Handler \ {h} : thread'[g] = thread[g]
BY DEF SetThread, Inv, TypeOK

(* Reply answers the op. *)
LEMMA ReplyDoes ==
    ASSUME Inv, NEW h \in Handler, NEW i \in thread[h].todo, NEW v \in Verdict,
           First(i, thread[h].todo), store'[OpOf(h, i).row] \in View,
           Reply(h, i, v, store'[OpOf(h, i).row]), Records(h, i, v)
    PROVE  /\ \E a \in Answer : AnswersOp(h, i, v, a)
           /\ \A g \in Handler \ {h} : thread'[g] = thread[g]
<1> PICK c \in View : c = store'[OpOf(h, i).row]
  OBVIOUS
<1> DEFINE failed == Broken(thread[h].failed, OpOf(h, i), v)
           a == [op |-> i, verdict |-> v, current |-> c]
           phase == IF thread[h].todo \ {i} = {} THEN "done" ELSE "lookup"
           t == [thread[h] EXCEPT !.phase = phase, !.todo = thread[h].todo \ {i},
                    !.verdict = "none", !.failed = failed, !.answers = @ \cup {a}]
<1>1. thread[h] \in ThreadState
  BY DEF Inv, TypeOK
<1>2. a \in Answer /\ a.op = i /\ a.verdict = v /\ a.current = c
  BY <1>1 DEF Answer, ThreadState
<1>3. SetThread(h, t)
  BY DEF Reply
<1> HIDE DEF failed, a, phase
<1>4. /\ t.phase = phase /\ t.dev = thread[h].dev /\ t.todo = thread[h].todo \ {i}
      /\ t.failed = failed /\ t.answers = thread[h].answers \cup {a}
  BY <1>1 DEF ThreadState
<1> HIDE DEF t
<1>5. thread'[h] = t /\ \A g \in Handler \ {h} : thread'[g] = thread[g]
  BY <1>3, ThreadIs
<1>6. AnswersOp(h, i, v, a)
  BY <1>2, <1>4, <1>5 DEF AnswersOp, failed, phase
<1>. QED BY <1>2, <1>5, <1>6

(* Every step of a thread has one of these effects. *)
LEMMA ServerDoes ==
    ASSUME Inv, NEW h \in Handler, ServerStep(h)
    PROVE  /\ ThreadEffect(h)
           /\ \A g \in Handler \ {h} : thread'[g] = thread[g]
           /\ UNCHANGED <<outbox, local, form, push, cursor>>
<1> DEFINE Others == /\ \A g \in Handler \ {h} : thread'[g] = thread[g]
                     /\ UNCHANGED <<outbox, local, form, push, cursor>>
<1>0. \A i \in thread[h].todo : /\ thread[h] \in ThreadState
                                /\ IdOf(h, i) \in OpId
                                /\ OpOf(h, i) \in Op
                                /\ store[OpOf(h, i).row] \in View
  BY AtWork DEF Inv
<1>1. ASSUME NEW i \in thread[h].todo, First(i, thread[h].todo), processed[IdOf(h, i)] # "none",
             Replay(h, i), UNCHANGED <<clientVars, store, feed, processed>>
      PROVE  ThreadEffect(h) /\ Others
  <2> PICK v : v = processed[IdOf(h, i)]
    OBVIOUS
  <2>1. v \in Outcome /\ v \in Verdict
    BY <1>0, <1>1 DEF Inv, TypeOK, Verdict
  <2>2. /\ store'[OpOf(h, i).row] \in View
        /\ Reply(h, i, v, store'[OpOf(h, i).row])
        /\ UNCHANGED <<outbox, local, form, push, cursor>>
    BY <1>0, <1>1 DEF Replay, clientVars
  <2>3. Records(h, i, v)
    BY <1>1, <2>1 DEF Records
  <2>4. /\ \E a \in Answer : AnswersOp(h, i, v, a)
        /\ \A g \in Handler \ {h} : thread'[g] = thread[g]
    BY <1>1, <2>1, <2>2, <2>3, ReplyDoes
  <2>. QED BY <2>1, <2>2, <2>4 DEF ThreadEffect
<1>2. ASSUME NEW i \in thread[h].todo, First(i, thread[h].todo), NEW phase, NEW v,
             SetThread(h, [thread[h] EXCEPT !.phase = phase, !.verdict = v]),
             UNCHANGED <<clientVars, store, feed, processed>>,
             \/ phase = "apply" /\ ~Broke(h, OpOf(h, i).row)
             \/ /\ phase = "settle"
                /\ \/ /\ Broke(h, OpOf(h, i).row)
                      /\ v = thread[h].failed[OpOf(h, i).row]
                   \/ v = "rejected" /\ OpOf(h, i).kind \in FinalRefusals
                   \/ v = "conflict" /\ Loses(OpOf(h, i))
      PROVE  ThreadEffect(h) /\ Others
  <2> DEFINE t == [thread[h] EXCEPT !.phase = phase, !.verdict = v]
  <2>1. /\ t.phase = phase /\ t.verdict = v /\ t.dev = thread[h].dev /\ t.todo = thread[h].todo
        /\ t.failed = thread[h].failed /\ t.answers = thread[h].answers
    BY <1>0 DEF ThreadState
  <2>2. SetThread(h, t)
    BY <1>2
  <2> HIDE DEF t
  <2>3. thread'[h] = t /\ \A g \in Handler \ {h} : thread'[g] = thread[g]
    BY <2>2, ThreadIs
  <2>4. TurnsTo(h)
    BY <1>2, <2>1, <2>3 DEF TurnsTo
  <2>. QED BY <1>2, <2>3, <2>4 DEF ThreadEffect, clientVars
<1>3. ASSUME NEW i \in thread[h].todo, LookUp(h, i)
      PROVE  ThreadEffect(h) /\ Others
  <2>1. First(i, thread[h].todo) /\ UNCHANGED <<clientVars, store, feed, processed>>
    BY <1>3 DEF LookUp, At
  <2>2. CASE processed[IdOf(h, i)] # "none"
    BY <1>1, <1>3, <2>1, <2>2 DEF LookUp
  <2>3. CASE processed[IdOf(h, i)] = "none"
    <3> DEFINE earlier == thread[h].failed[OpOf(h, i).row]
               phase == IF earlier = "none" THEN "apply" ELSE "settle"
    <3>1. SetThread(h, [thread[h] EXCEPT !.phase = phase, !.verdict = earlier])
      BY <1>3, <2>3 DEF LookUp
    <3>2. \/ phase = "apply" /\ ~Broke(h, OpOf(h, i).row)
          \/ phase = "settle" /\ Broke(h, OpOf(h, i).row)
      BY DEF Broke
    <3>3. earlier = thread[h].failed[OpOf(h, i).row]
      OBVIOUS
    <3> HIDE DEF earlier, phase
    <3>. QED BY <1>2, <2>1, <3>1, <3>2, <3>3
  <2>. QED BY <2>2, <2>3
<1>4. ASSUME NEW i \in thread[h].todo, RefuseForNow(h, i) \/ NotThereYet(h, i)
      PROVE  ThreadEffect(h) /\ Others
  <2>1. /\ First(i, thread[h].todo)
        /\ Reply(h, i, "retry", store[OpOf(h, i).row])
        /\ UNCHANGED <<clientVars, store, feed, processed>>
    BY <1>4 DEF RefuseForNow, NotThereYet, At
  <2>2. /\ store'[OpOf(h, i).row] \in View
        /\ Reply(h, i, "retry", store'[OpOf(h, i).row])
        /\ UNCHANGED <<outbox, local, form, push, cursor>>
    BY <1>0, <2>1 DEF clientVars
  <2>3. Records(h, i, "retry") /\ "retry" \in Verdict
    BY <1>4, <2>1 DEF Records, Verdict
  <2>4. /\ \E a \in Answer : AnswersOp(h, i, "retry", a)
        /\ \A g \in Handler \ {h} : thread'[g] = thread[g]
    BY <2>1, <2>2, <2>3, ReplyDoes
  <2>. QED BY <2>2, <2>3, <2>4 DEF ThreadEffect
<1>5. ASSUME NEW i \in thread[h].todo, RefuseForGood(h, i)
      PROVE  ThreadEffect(h) /\ Others
  BY <1>2, <1>5 DEF RefuseForGood, At, ToSettle
<1>6. ASSUME NEW i \in thread[h].todo, LoseCompareAndSet(h, i)
      PROVE  ThreadEffect(h) /\ Others
  BY <1>2, <1>6 DEF LoseCompareAndSet, At, ToSettle
<1>7. ASSUME NEW i \in thread[h].todo, ApplyOp(h, i)
      PROVE  ThreadEffect(h) /\ Others
  <2>1. First(i, thread[h].todo) /\ thread[h].phase = "apply" /\ Fits(OpOf(h, i))
    BY <1>7 DEF ApplyOp, At
  <2>2. CASE processed[IdOf(h, i)] # "none"
    BY <1>1, <1>7, <2>1, <2>2 DEF ApplyOp
  <2>3. CASE processed[IdOf(h, i)] = "none"
    <3> DEFINE row == OpOf(h, i).row
               id == IdOf(h, i)
    <3>1. /\ Write(row, id)
          /\ processed' = [processed EXCEPT ![id] = "applied"]
          /\ Reply(h, i, "applied", store'[row])
          /\ UNCHANGED <<outbox, local, form, push, cursor>>
      BY <1>7, <2>3 DEF ApplyOp, clientVars
    <3>2. row \in Row /\ id \in Writer
      BY <1>0 DEF Op, Writer
    <3>3. store' \in [Row -> View]
      BY <3>1, <3>2, Writing DEF Inv
    <3>4. store'[row] \in View
      BY <3>2, <3>3
    <3>5. Records(h, i, "applied") /\ "applied" \in Verdict
      BY <2>1, <2>3, <3>1 DEF Records, Verdict, Outcome
    <3>6. /\ \E a \in Answer : AnswersOp(h, i, "applied", a)
          /\ \A g \in Handler \ {h} : thread'[g] = thread[g]
      BY <2>1, <3>1, <3>4, <3>5, ReplyDoes
    <3>. QED BY <3>1, <3>5, <3>6 DEF ThreadEffect
  <2>. QED BY <2>2, <2>3
<1>8. ASSUME NEW i \in thread[h].todo, Settle(h, i)
      PROVE  ThreadEffect(h) /\ Others
  <2>1. First(i, thread[h].todo) /\ thread[h].phase = "settle"
    BY <1>8 DEF Settle, At
  <2>2. CASE processed[IdOf(h, i)] # "none"
    BY <1>1, <1>8, <2>1, <2>2 DEF Settle
  <2>3. CASE processed[IdOf(h, i)] = "none"
    <3> PICK v : v = thread[h].verdict
      OBVIOUS
    <3>1. /\ processed' = [processed EXCEPT ![IdOf(h, i)] = v]
          /\ Reply(h, i, v, store[OpOf(h, i).row])
          /\ UNCHANGED <<outbox, local, form, push, cursor, store, feed>>
      BY <1>8, <2>3 DEF Settle, clientVars
    <3>2. v \in Failure /\ v \in Verdict
      BY <1>0, <2>1 DEF Inv, InFlight, ThreadNamesOps, ThreadState, Verdict, Outcome
    <3>3. Records(h, i, v)
      BY <2>1, <2>3, <3>1, <3>2 DEF Records
    <3>4. store'[OpOf(h, i).row] \in View /\ Reply(h, i, v, store'[OpOf(h, i).row])
      BY <1>0, <3>1
    <3>5. /\ \E a \in Answer : AnswersOp(h, i, v, a)
          /\ \A g \in Handler \ {h} : thread'[g] = thread[g]
      BY <2>1, <3>2, <3>3, <3>4, ReplyDoes
    <3>. QED BY <3>1, <3>2, <3>5 DEF ThreadEffect
  <2>. QED BY <2>2, <2>3
<1>9. ASSUME EndUnheard(h)
      PROVE  ThreadEffect(h) /\ Others
  <2>1. SetThread(h, Free) /\ (\A d \in Device : push[d].on # h)
        /\ UNCHANGED <<clientVars, store, feed, processed>>
    BY <1>9 DEF EndUnheard
  <2>2. thread'[h] = Free /\ \A g \in Handler \ {h} : thread'[g] = thread[g]
    BY <2>1, ThreadIs
  <2>. QED BY <2>1, <2>2 DEF ThreadEffect, ThreadEnds, clientVars
<1> HIDE DEF Others
<1>10. ThreadEffect(h) /\ Others
  BY <1>3, <1>4, <1>5, <1>6, <1>7, <1>8, <1>9 DEF ServerStep
<1>. QED BY <1>10 DEF Others

-----------------------------------------------------------------------------
(* What stays: outcomes, dead rows, doomed ops. *)

OutcomesAreFinal == \A o \in OpId : processed[o] # "none" => processed'[o] = processed[o]

DeadStays == \A r \in Row : Dead(r) => Dead(r)'

Keeps == SameOps /\ OutcomesAreFinal /\ DeadStays

DoomedStays(d, i) == Doomed(d, i) => Doomed(d, i)'

(* An op's id is one of OpId, its row one of Row. *)
LEMMA OpTyped ==
    ASSUME Inv, NEW d \in Device, NEW i \in Recorded(d)
    PROVE  /\ i \in 1..MaxOps /\ <<d, i>> \in OpId
           /\ outbox[d][i] \in Op /\ outbox[d][i].row \in Row
<1>1. i \in 1..MaxOps
  BY RecordedInRange DEF Inv
<1>2. outbox[d][i] \in Op
  BY AtPush
<1>. QED BY <1>1, <1>2 DEF OpId, Op

(* A dead row stays dead if nobody writes it. *)
LEMMA DeadKept ==
    ASSUME Inv, SameOps, OutcomesAreFinal,
           \A r \in Row : Dead(r) => store'[r].version = 0
    PROVE  DeadStays
<1> SUFFICES ASSUME NEW r \in Row, Dead(r) PROVE Dead(r)'
  BY DEF DeadStays
<1>1. PICK d \in Device : \E k \in Recorded(d) :
          /\ outbox[d][k].row = r
          /\ outbox[d][k].kind = "insert"
          /\ processed[<<d, k>>] = "rejected"
  BY DEF Dead
<1>5. PICK k \in Recorded(d) :
          /\ outbox[d][k].row = r
          /\ outbox[d][k].kind = "insert"
          /\ processed[<<d, k>>] = "rejected"
  BY <1>1
<1>2. <<d, k>> \in OpId
  BY OpTyped
<1>3. processed'[<<d, k>>] = "rejected"
  BY <1>2, <1>5 DEF OutcomesAreFinal
<1>4. KeepsOp(d, k)
  BY DEF SameOps
<1>. QED BY <1>3, <1>4, <1>5 DEF Dead, KeepsOp

(* A step that leaves the server's rows and outcomes alone. *)
LEMMA QuietKeeps ==
    ASSUME Inv, SameOps, UNCHANGED <<store, processed>>
    PROVE  Keeps
<1>1. OutcomesAreFinal
  BY DEF OutcomesAreFinal
<1>2. \A r \in Row : Dead(r) => store'[r].version = 0
  BY DEF Dead
<1>. QED BY <1>1, <1>2, DeadKept DEF Keeps

(* A broken row stays broken, and what a chain broke with. *)
LEMMA BrokenMore ==
    ASSUME NEW failed \in Chain, NEW op \in Op, NEW v
    PROVE  /\ \A r \in Row : failed[r] # "none" => Broken(failed, op, v)[r] # "none"
           /\ BreaksChain(op.kind, v) => Broken(failed, op, v)[op.row] = v /\ v \in Failure
           /\ \A r \in Row : ~(BreaksChain(op.kind, v) /\ r = op.row) =>
                 Broken(failed, op, v)[r] = failed[r]
<1>1. CASE BreaksChain(op.kind, v)
  <2>1. v \in Failure /\ v # "none"
    BY <1>1 DEF BreaksChain, Failure
  <2>2. Broken(failed, op, v) = [failed EXCEPT ![op.row] = v]
    BY <1>1 DEF Broken
  <2>. QED BY <1>1, <2>1, <2>2 DEF Chain, Op
<1>2. CASE ~BreaksChain(op.kind, v)
  BY <1>2 DEF Broken
<1>. QED BY <1>1, <1>2

(* Before goes by what ops keep. *)
LEMMA BeforeKept ==
    ASSUME SameOps, NEW d \in Device, NEW j \in Recorded(d), NEW i \in Recorded(d)
    PROVE  Before(d, j, i)' <=> Before(d, j, i)
BY DEF SameOps, KeepsOp, Before

(* What an outcome means for the chain stays. *)
LEMMA BrokeChainKept ==
    ASSUME Inv, SameOps, OutcomesAreFinal, NEW d \in Device, NEW j \in Recorded(d)
    PROVE  /\ BrokeChain(d, j) => BrokeChain(d, j)'
           /\ Passed(d, j) => Passed(d, j)'
<1>1. <<d, j>> \in OpId
  BY OpTyped
<1>2. KeepsOp(d, j)
  BY DEF SameOps
<1>3. processed[<<d, j>>] # "none" => processed'[<<d, j>>] = processed[<<d, j>>]
  BY <1>1 DEF OutcomesAreFinal
<1>4. BrokeChain(d, j) => processed[<<d, j>>] # "none"
  BY DEF BrokeChain, BreaksChain
<1>. QED BY <1>2, <1>3, <1>4 DEF BrokeChain, Passed, KeepsOp

(* An op stays doomed if no thread writes it, none comes to it anew, and each *)
(* thread at work still finds its row broken.                                 *)
LEMMA DoomKept ==
    ASSUME Inv, Keeps, NEW d \in Device, NEW i \in Recorded(d), Doomed(d, i),
           processed'[<<d, i>>] # "applied",
           \A h \in Handler : WorksAt(h, d, i)' =>
               /\ WorksAt(h, d, i)
               /\ Broke(h, outbox[d][i].row) => Broke(h, outbox[d][i].row)'
               /\ \A j \in thread[h].todo : Before(d, j, i) /\ BrokeChain(d, j) =>
                     \/ j \in thread'[h].todo
                     \/ thread'[h].failed[outbox[d][i].row] # "none"
                     \/ Dead(outbox[d][i].row)
    PROVE  Doomed(d, i)'
<1> PICK r \in Row : r = outbox[d][i].row
  BY OpTyped
<1>1. outbox'[d][i].row = r
  BY DEF Keeps, SameOps, KeepsOp
<1>2. ASSUME NEW h \in Handler, WorksAt(h, d, i)'
      PROVE  \/ \E j \in thread'[h].todo : Before(d, j, i)' /\ BrokeChain(d, j)'
             \/ Broke(h, r)'
             \/ Dead(r)'
  <2>1. CASE Broke(h, r)
    BY <1>1, <1>2, <2>1 DEF Broke
  <2>2. CASE Dead(r)
    BY <2>2 DEF Keeps, DeadStays
  <2>3. CASE \E j \in thread[h].todo : Before(d, j, i) /\ BrokeChain(d, j)
    <3>1. PICK j \in thread[h].todo : Before(d, j, i) /\ BrokeChain(d, j)
      BY <2>3
    <3>2. j \in Recorded(d)
      BY <3>1 DEF Before
    <3>3. Before(d, j, i)' /\ BrokeChain(d, j)'
      BY <3>1, <3>2, BeforeKept, BrokeChainKept DEF Keeps
    <3>4. j \in thread'[h].todo \/ Broke(h, r)' \/ Dead(r)
      BY <1>2, <3>1 DEF Broke
    <3>. QED BY <2>2, <3>3, <3>4
  <2>. QED BY <1>2, <2>1, <2>2, <2>3 DEF Doomed
<1>. QED BY <1>1, <1>2 DEF Doomed

-----------------------------------------------------------------------------
(* The threads' part of the invariant, step by step. *)

(* Only device d may have a new op. *)
OpsBy(d) ==
    /\ SameOps
    /\ \A e \in Device \ {d} : Recorded(e)' = Recorded(e)
    /\ d \in Device => \A i \in Recorded(d)' : i \in Recorded(d) \/ NewOp(d, i)

NothingNew == SameOps /\ \A d \in Device : Recorded(d)' = Recorded(d)

(* A step without a new op. *)
LEMMA NothingNewBy ==
    ASSUME NothingNew, NEW d PROVE OpsBy(d)
BY DEF NothingNew, OpsBy

(* An op is an old one or the last. *)
LEMMA OpsFresh ==
    ASSUME Inv, Inv', NEW d, OpsBy(d), NEW e \in Device, NEW i \in Recorded(e)'
    PROVE  \/ i \in Recorded(e)
           \/ e = d /\ NewOp(d, i) /\ \A j \in Recorded(e) : j < i
<1>1. d \in Device => Len(outbox[d]) \in Nat
  BY DEF Inv, TypeOK
<1>. QED BY <1>1 DEF OpsBy, NewOp, Recorded

(* An insert stays the first op of its row. *)
LEMMA InsertStaysFirst ==
    ASSUME Inv, Inv', InsertIsFirst, NEW d, OpsBy(d)
    PROVE  InsertIsFirst'
<1> SUFFICES ASSUME NEW e \in Device, NEW f \in Device,
                    NEW k \in Recorded(e)', NEW j \in Recorded(f)',
                    outbox'[e][k].kind = "insert", outbox'[f][j].row = outbox'[e][k].row,
                    <<f, j>> # <<e, k>>
             PROVE  outbox'[f][j].kind = "update" /\ (f = e => k < j)
  BY DEF InsertIsFirst
<1>1. CASE k \in Recorded(e) /\ j \in Recorded(f)
  <2>1. KeepsOp(e, k) /\ KeepsOp(f, j)
    BY <1>1 DEF OpsBy, SameOps
  <2>. QED BY <1>1, <2>1 DEF InsertIsFirst, KeepsOp
<1>2. CASE k \notin Recorded(e)
  <2>1. e = d /\ NewOp(d, k)
    BY <1>2, OpsFresh
  <2>2. CASE j \in Recorded(f)
    <3>1. KeepsOp(f, j)
      BY <2>2 DEF OpsBy, SameOps
    <3>. QED BY <2>1, <2>2, <3>1 DEF NewOp, KeepsOp
  <2>3. CASE j \notin Recorded(f)
    <3>1. f = d /\ NewOp(d, j)
      BY <2>3, OpsFresh
    <3>. QED BY <2>1, <3>1 DEF NewOp
  <2>. QED BY <2>2, <2>3
<1>3. CASE k \in Recorded(e) /\ j \notin Recorded(f)
  <2>1. f = d /\ NewOp(d, j) /\ \A m \in Recorded(f) : m < j
    BY <1>3, OpsFresh
  <2>2. KeepsOp(e, k)
    BY <1>3 DEF OpsBy, SameOps
  <2>3. outbox'[f][j].kind # "insert"
    BY <1>3, <2>1, <2>2 DEF NewOp, KeepsOp
  <2>. QED BY <1>3, <2>1, <2>3 DEF NewOp, Kind
<1>. QED BY <1>1, <1>2, <1>3

(* A step of a device that sends nothing: threads stay or end. *)
LEMMA QuietThreads ==
    ASSUME Inv, ThreadsOK, Inv', NEW d, OpsBy(d), Keeps, UNCHANGED processed,
           \A h \in Handler : thread'[h] = thread[h] \/ thread'[h] = Free,
           \A e \in Device : \A i \in Recorded(e) :
               outbox'[e][i].status \in Failure \cup {"dismissed"} => NeverTaken(e, i)
    PROVE  /\ ThreadsOK'
           /\ \A e \in Device : \A i \in Recorded(e) : DoomedStays(e, i)
<1>1. Keeps
  OBVIOUS
<1>2. Free.phase = "free" /\ Free.todo = {} /\ Free.answers = {}
  BY DEF Free
<1>3. \A h \in Handler : thread'[h].phase # "free" => thread'[h] = thread[h]
  BY <1>2
<1>4. ASSUME NEW h \in Handler, NEW e \in Device, NEW i \in Recorded(e), WorksAt(h, e, i)'
      PROVE  WorksAt(h, e, i) /\ thread'[h] = thread[h]
  BY <1>3, <1>4 DEF WorksAt
<1>5. ASSUME NEW e \in Device, NEW i \in Recorded(e)
      PROVE  DoomedStays(e, i)
  <2> SUFFICES ASSUME Doomed(e, i) PROVE Doomed(e, i)'
    BY DEF DoomedStays
  <2>1. processed'[<<e, i>>] # "applied"
    BY DEF Doomed
  <2>2. outbox'[e][i].row = outbox[e][i].row
    BY DEF OpsBy, SameOps, KeepsOp
  <2>3. \A h \in Handler : WorksAt(h, e, i)' =>
               /\ WorksAt(h, e, i)
               /\ Broke(h, outbox[e][i].row) => Broke(h, outbox[e][i].row)'
               /\ \A j \in thread[h].todo : Before(e, j, i) /\ BrokeChain(e, j) =>
                     \/ j \in thread'[h].todo
                     \/ thread'[h].failed[outbox[e][i].row] # "none"
                     \/ Dead(outbox[e][i].row)
    BY <1>4, <2>2 DEF Broke
  <2>. QED BY <1>1, <2>1, <2>3, DoomKept
<1>6. InsertIsFirst'
  BY InsertStaysFirst DEF ThreadsOK
<1>7. OutcomesOfRecorded'
  BY <1>1 DEF ThreadsOK, OutcomesOfRecorded, Keeps, SameOps, KeepsOp
<1>8. ThreadTidy'
  BY <1>2 DEF ThreadsOK, ThreadTidy, OneEach
<1>9. ThreadAnswersFinal'
  BY <1>3 DEF ThreadsOK, ThreadAnswersFinal, RecordedFor
<1>10. NotBroke'
  <2> SUFFICES ASSUME NEW h \in Handler, thread'[h].phase = "apply", NEW i \in thread'[h].todo,
                      First(i, thread'[h].todo)
               PROVE  ~Broke(h, OpOf(h, i).row)'
    BY DEF NotBroke
  <2>1. thread'[h] = thread[h]
    BY <1>3
  <2>2. OpOf(h, i).row' = OpOf(h, i).row
    <3>1. thread[h].dev \in Device /\ i \in Recorded(thread[h].dev)
      BY <2>1 DEF Inv, InFlight, ThreadNamesOps
    <3>. QED BY <2>1, <3>1 DEF OpsBy, SameOps, KeepsOp, OpOf
  <2>. QED BY <2>1, <2>2 DEF ThreadsOK, NotBroke, Broke
<1>11. StatusesStand'
  <2> SUFFICES ASSUME NEW e \in Device, NEW i \in Recorded(e)',
                      outbox'[e][i].status \in Failure \cup {"dismissed"}
               PROVE  NeverTaken(e, i)'
    BY DEF StatusesStand
  <2>1. i \in Recorded(e)
    BY OpsFresh DEF NewOp, Failure
  <2>2. NeverTaken(e, i)
    BY <2>1
  <2>. QED BY <1>5, <2>1, <2>2 DEF NeverTaken, DoomedStays
<1>12. InTurn'
  <2> SUFFICES ASSUME NEW e \in Device, NEW j \in Recorded(e)', NEW i \in Recorded(e)',
                      Before(e, j, i)', Waits(e, j)', Waits(e, i)'
               PROVE  /\ \A h \in Handler : WorksAt(h, e, i)' =>
                            \/ j \in thread'[h].todo
                            \/ Passed(e, j)'
                            \/ Broke(h, outbox[e][i].row)'
                            \/ Dead(outbox[e][i].row)'
                      /\ processed'[<<e, i>>] = "applied" => Passed(e, j)'
    BY DEF InTurn
  <2>1. CASE i \notin Recorded(e)
    <3>1. \A h \in Handler : ~WorksAt(h, e, i)'
      BY <1>3, <2>1 DEF WorksAt, Inv, InFlight, ThreadNamesOps
    <3>2. i \in 1..MaxOps
      <4>1. Len(outbox'[e]) \in Nat /\ Len(outbox'[e]) <= MaxOps /\ MaxOps \in Nat
        BY CountsAssumption DEF Inv, TypeOK
      <4>. QED BY <4>1 DEF Recorded
    <3>3. processed'[<<e, i>>] # "applied"
      BY <2>1, <3>2 DEF ThreadsOK, OutcomesOfRecorded
    <3>. QED BY <3>1, <3>3
  <2>2. CASE i \in Recorded(e)
    <3>1. j < i
      BY DEF Before
    <3>2. j \in Recorded(e)
      BY <2>2, <3>1 DEF Recorded
    <3>3. Before(e, j, i) /\ Waits(e, j) /\ Waits(e, i)
      BY <2>2, <3>2, BeforeKept DEF OpsBy, SameOps, KeepsOp, Waits
    <3>4. Passed(e, j) => Passed(e, j)'
      BY <1>1, <3>2, BrokeChainKept DEF Keeps
    <3> PICK r \in Row : r = outbox[e][i].row
      BY <2>2, OpTyped
    <3>5. outbox'[e][i].row = r
      BY <2>2 DEF OpsBy, SameOps, KeepsOp
    <3>6. ASSUME NEW h \in Handler, WorksAt(h, e, i)'
          PROVE  j \in thread'[h].todo \/ Passed(e, j)' \/ Broke(h, r)' \/ Dead(r)'
      <4>1. WorksAt(h, e, i) /\ thread'[h] = thread[h]
        BY <1>4, <2>2, <3>6
      <4>2. j \in thread[h].todo \/ Passed(e, j) \/ Broke(h, r) \/ Dead(r)
        BY <2>2, <3>2, <3>3, <4>1 DEF ThreadsOK, InTurn
      <4>. QED BY <1>1, <3>4, <4>1, <4>2 DEF Broke, Keeps, DeadStays
    <3>7. processed'[<<e, i>>] = "applied" => Passed(e, j)'
      BY <2>2, <3>2, <3>3, <3>4 DEF ThreadsOK, InTurn
    <3>. QED BY <3>5, <3>6, <3>7
  <2>. QED BY <2>1, <2>2
<1>. QED BY <1>1, <1>5, <1>6, <1>7, <1>8, <1>9, <1>10, <1>11, <1>12 DEF ThreadsOK

(* A request that a thread takes: its ops come to the thread in their turn. *)
LEMMA SendThreads ==
    ASSUME Inv, ThreadsOK, Inv', NEW d \in Device, NEW h \in Handler, SendBatch(d, h), PushOK(d)
    PROVE  /\ ThreadsOK' /\ Keeps
           /\ \A e \in Device : \A i \in Recorded(e) :
                 ~(e = d /\ i \in push[d].batch) => DoomedStays(e, i)
<1>1. /\ push[d].phase = "pushing"
      /\ thread[h] = Free
      /\ thread'[h].phase = "lookup" /\ thread'[h].dev = d
      /\ thread'[h].todo = push[d].batch /\ thread'[h].answers = {}
      /\ \A g \in Handler \ {h} : thread'[g] = thread[g]
      /\ UNCHANGED <<outbox, store, processed>>
  BY SendBatchDoes
<1>2. SameOps /\ \A e \in Device : Recorded(e)' = Recorded(e)
  BY <1>1, OutboxSame
<1>3. Keeps
  BY <1>1, <1>2, QuietKeeps
<1>4. ASSUME NEW g \in Handler, NEW e \in Device, NEW i \in Recorded(e), WorksAt(g, e, i)'
      PROVE  \/ g # h /\ WorksAt(g, e, i) /\ thread'[g] = thread[g]
             \/ g = h /\ e = d /\ i \in push[d].batch
  BY <1>1, <1>4 DEF WorksAt
<1>5. ASSUME NEW e \in Device, NEW i \in Recorded(e), ~(e = d /\ i \in push[d].batch)
      PROVE  DoomedStays(e, i)
  <2> SUFFICES ASSUME Doomed(e, i) PROVE Doomed(e, i)'
    BY DEF DoomedStays
  <2>1. processed'[<<e, i>>] # "applied"
    BY <1>1 DEF Doomed
  <2>2. \A g \in Handler : WorksAt(g, e, i)' =>
               /\ WorksAt(g, e, i)
               /\ Broke(g, outbox[e][i].row) => Broke(g, outbox[e][i].row)'
               /\ \A j \in thread[g].todo : Before(e, j, i) /\ BrokeChain(e, j) =>
                     \/ j \in thread'[g].todo
                     \/ thread'[g].failed[outbox[e][i].row] # "none"
                     \/ Dead(outbox[e][i].row)
    BY <1>1, <1>4, <1>5 DEF Broke
  <2>. QED BY <1>3, <2>1, <2>2, DoomKept
<1>6. InsertIsFirst'
  BY <1>1, <1>2 DEF ThreadsOK, InsertIsFirst
<1>7. OutcomesOfRecorded'
  BY <1>1, <1>2 DEF ThreadsOK, OutcomesOfRecorded
<1>8. ThreadTidy'
  BY <1>1 DEF ThreadsOK, ThreadTidy, OneEach
<1>9. ThreadAnswersFinal'
  BY <1>1 DEF ThreadsOK, ThreadAnswersFinal, RecordedFor
<1>10. NotBroke'
  BY <1>1 DEF ThreadsOK, NotBroke, Broke, OpOf
<1>11. StatusesStand'
  <2> SUFFICES ASSUME NEW e \in Device, NEW i \in Recorded(e),
                      outbox[e][i].status \in Failure \cup {"dismissed"}
               PROVE  NeverTaken(e, i)'
    BY <1>1, <1>2 DEF StatusesStand
  <2>1. ~(e = d /\ i \in push[d].batch)
    <3>1. ~Waits(e, i)
      BY DEF Waits, Failure
    <3>. QED BY <1>1, <3>1 DEF PushOK, CarriedWait, Carried, Sent
  <2>. QED BY <1>1, <1>5, <2>1 DEF ThreadsOK, StatusesStand, NeverTaken, DoomedStays
<1>12. InTurn'
  <2> SUFFICES ASSUME NEW e \in Device, NEW j \in Recorded(e), NEW i \in Recorded(e),
                      Before(e, j, i)', Waits(e, j)', Waits(e, i)'
               PROVE  /\ \A g \in Handler : WorksAt(g, e, i)' =>
                            \/ j \in thread'[g].todo
                            \/ Passed(e, j)'
                            \/ Broke(g, outbox[e][i].row)'
                            \/ Dead(outbox[e][i].row)'
                      /\ processed'[<<e, i>>] = "applied" => Passed(e, j)'
    BY <1>2 DEF InTurn
  <2>1. Before(e, j, i) /\ Waits(e, j) /\ Waits(e, i)
    BY <1>1, <1>2, BeforeKept DEF Waits
  <2>2. Passed(e, j) => Passed(e, j)'
    BY <1>3, BrokeChainKept DEF Keeps
  <2> PICK r \in Row : r = outbox[e][i].row
    BY OpTyped
  <2>3. outbox'[e][i].row = r
    BY <1>1
  <2>4. Dead(r) => Dead(r)'
    BY <1>3 DEF Keeps, DeadStays
  <2>5. ASSUME NEW g \in Handler, WorksAt(g, e, i)'
        PROVE  j \in thread'[g].todo \/ Passed(e, j)' \/ Broke(g, r)' \/ Dead(r)'
    <3>1. CASE WorksAt(g, e, i) /\ thread'[g] = thread[g]
      <4>1. j \in thread[g].todo \/ Passed(e, j) \/ Broke(g, r) \/ Dead(r)
        BY <2>1, <3>1 DEF ThreadsOK, InTurn
      <4>. QED BY <2>2, <2>4, <3>1, <4>1 DEF Broke
    <3>2. CASE g = h /\ e = d /\ i \in push[d].batch
      <4>1. j \in Carried(d) \/ Dead(r)
        BY <2>1, <3>2 DEF PushOK, GoesFirst
      <4>2. Sent(d) = push[d].batch
        BY <1>1 DEF PushOK, PhaseTidy, Sent, OpsOf
      <4>3. j \notin push[d].todo
        <5>1. j < i /\ i \in Nat /\ j \in Nat
          BY <2>1 DEF Before, Recorded
        <5>2. j \in push[d].todo => i < j
          BY <3>2, <4>2 DEF PushOK, SentFirst
        <5>. QED BY <5>1, <5>2
      <4>. QED BY <1>1, <2>4, <3>2, <4>1, <4>2, <4>3 DEF Carried
    <3>. QED BY <1>4, <2>5, <3>1, <3>2
  <2>6. processed'[<<e, i>>] = "applied" => Passed(e, j)'
    BY <1>1, <2>1, <2>2 DEF ThreadsOK, InTurn
  <2>. QED BY <2>3, <2>5, <2>6
<1>. QED BY <1>3, <1>5, <1>6, <1>7, <1>8, <1>9, <1>10, <1>11, <1>12 DEF ThreadsOK

(* What a thread writes is not of a dead row. *)
LEMMA WrittenIsAlive ==
    ASSUME Inv, InsertIsFirst, NEW h \in Handler, NEW i \in thread[h].todo,
           processed[IdOf(h, i)] = "none", Fits(OpOf(h, i))
    PROVE  ~Dead(OpOf(h, i).row)
<1> SUFFICES ASSUME Dead(OpOf(h, i).row) PROVE FALSE
  OBVIOUS
<1> PICK e \in Device : e = thread[h].dev
  BY AtWork DEF Inv
<1>1. i \in Recorded(e) /\ OpOf(h, i) = outbox[e][i] /\ IdOf(h, i) = <<e, i>>
  BY AtWork DEF Inv, InFlight, ThreadNamesOps, OpOf, IdOf
<1>2. outbox[e][i].kind = "insert"
  BY <1>1 DEF Fits, Dead
<1>3. PICK d \in Device : \E k \in Recorded(d) :
          /\ outbox[d][k].row = outbox[e][i].row
          /\ outbox[d][k].kind = "insert"
          /\ processed[<<d, k>>] = "rejected"
  BY <1>1 DEF Dead
<1>4. PICK k \in Recorded(d) :
          /\ outbox[d][k].row = outbox[e][i].row
          /\ outbox[d][k].kind = "insert"
          /\ processed[<<d, k>>] = "rejected"
  BY <1>3
<1>5. <<d, k>> # <<e, i>>
  BY <1>1, <1>4
<1>. QED BY <1>1, <1>2, <1>4, <1>5 DEF InsertIsFirst

(* What a thread does to the outcomes and the rows. *)
LEMMA ServerKeeps ==
    ASSUME Inv, InsertIsFirst, NEW h \in Handler, ThreadEffect(h), UNCHANGED outbox
    PROVE  /\ Keeps
           /\ \A o \in OpId : processed'[o] = processed[o]
                 \/ \E i \in thread[h].todo, v \in Outcome, a \in Answer :
                       AnswersOp(h, i, v, a) /\ o = IdOf(h, i) /\ processed'[o] = v
<1>1. SameOps
  BY OutboxSame
<1>2. CASE UNCHANGED <<store, processed>>
  BY <1>1, <1>2, QuietKeeps
<1>3. CASE ~UNCHANGED <<store, processed>>
  <2>1. \E i \in thread[h].todo, v \in Verdict, a \in Answer : AnswersOp(h, i, v, a)
    BY <1>3 DEF ThreadEffect, TurnsTo, ThreadEnds
  <2>2. PICK i \in thread[h].todo, v \in Verdict, a \in Answer : AnswersOp(h, i, v, a)
    BY <2>1
  <2>3. Records(h, i, v)
    BY <2>2 DEF AnswersOp
  <2>4. IdOf(h, i) \in OpId /\ OpOf(h, i).row \in Row
    BY AtWork DEF Inv, Op
  <2>5. /\ v \in Outcome /\ processed[IdOf(h, i)] = "none"
        /\ processed' = [processed EXCEPT ![IdOf(h, i)] = v]
    BY <1>3, <2>3 DEF Records, Outcome
  <2>6. \A o \in OpId : processed'[o] = IF o = IdOf(h, i) THEN v ELSE processed[o]
    BY <2>4, <2>5 DEF Inv, TypeOK
  <2>7. OutcomesAreFinal
    BY <2>5, <2>6 DEF OutcomesAreFinal
  <2>8. \A r \in Row : Dead(r) => store'[r].version = 0
    <3> SUFFICES ASSUME NEW r \in Row, Dead(r) PROVE store'[r] = store[r]
      BY DEF Dead
    <3>1. CASE store' = store
      BY <3>1
    <3>2. CASE Fits(OpOf(h, i)) /\ Write(OpOf(h, i).row, IdOf(h, i))
      <4>1. r # OpOf(h, i).row
        BY <2>5, <3>2, WrittenIsAlive
      <4>. QED BY <3>2, <4>1 DEF Write, Inv, TypeOK
    <3>. QED BY <2>3, <3>1, <3>2 DEF Records
  <2>9. DeadStays
    BY <1>1, <2>7, <2>8, DeadKept
  <2>. QED BY <1>1, <2>2, <2>5, <2>6, <2>7, <2>9 DEF Keeps
<1>. QED BY <1>2, <1>3

(* An op a thread has newly written was its first, of a row neither broken nor dead. *)
LEMMA ServerWrites ==
    ASSUME Inv, InsertIsFirst, NotBroke, NEW h \in Handler, ThreadEffect(h), UNCHANGED outbox,
           NEW e \in Device, NEW i \in Recorded(e),
           processed'[<<e, i>>] = "applied", processed[<<e, i>>] # "applied"
    PROVE  /\ WorksAt(h, e, i) /\ First(i, thread[h].todo)
           /\ ~Broke(h, outbox[e][i].row) /\ ~Dead(outbox[e][i].row)
<1>1. <<e, i>> \in OpId
  BY OpTyped
<1>2. \E n \in thread[h].todo, v \in Outcome, a \in Answer :
          AnswersOp(h, n, v, a) /\ <<e, i>> = IdOf(h, n) /\ processed'[<<e, i>>] = v
  BY <1>1, ServerKeeps
<1>3. \E a \in Answer : i \in thread[h].todo /\ thread[h].dev = e /\ AnswersOp(h, i, "applied", a)
  BY <1>2 DEF IdOf
<1>4. First(i, thread[h].todo) /\ Records(h, i, "applied") /\ i \in thread[h].todo /\ thread[h].dev = e
  BY <1>3 DEF AnswersOp
<1>5. IdOf(h, i) = <<e, i>> /\ OpOf(h, i) = outbox[e][i] /\ thread[h].phase # "free"
  BY <1>4, AtWork DEF IdOf, OpOf, Inv
<1>6. processed[<<e, i>>] = "none" /\ thread[h].phase = "apply" /\ Fits(OpOf(h, i))
  BY <1>4, <1>5 DEF Records, Failure
<1>7. ~Dead(outbox[e][i].row)
  BY <1>4, <1>5, <1>6, WrittenIsAlive
<1>8. ~Broke(h, outbox[e][i].row)
  BY <1>4, <1>5, <1>6 DEF NotBroke
<1>. QED BY <1>4, <1>5, <1>7, <1>8 DEF WorksAt

(* What a thread works on it had before; a row it saw broken stays so. *)
LEMMA ServerGoesOn ==
    ASSUME Inv, NEW h \in Handler, ThreadEffect(h), NEW g \in Handler,
           g # h => thread'[g] = thread[g], NEW e \in Device, NEW i, WorksAt(g, e, i)'
    PROVE  /\ WorksAt(g, e, i)
           /\ \A r \in Row : Broke(g, r) => Broke(g, r)'
<1>1. CASE g # h
  BY <1>1 DEF WorksAt, Broke
<1>2. CASE g = h /\ ThreadEnds(h)
  BY <1>2 DEF ThreadEnds, Free, WorksAt
<1>3. CASE g = h /\ TurnsTo(h)
  <2>1. thread[h].phase # "free"
    BY <1>3, AtWork DEF TurnsTo, Inv
  <2>. QED BY <1>3, <2>1 DEF TurnsTo, WorksAt, Broke
<1>4. CASE g = h /\ \E n \in thread[h].todo, v \in Verdict, a \in Answer : AnswersOp(h, n, v, a)
  <2>1. PICK n \in thread[h].todo, v \in Verdict, a \in Answer : AnswersOp(h, n, v, a)
    BY <1>4
  <2>2. /\ thread'[h].dev = thread[h].dev /\ thread'[h].todo = thread[h].todo \ {n}
        /\ thread'[h].failed = Broken(thread[h].failed, OpOf(h, n), v)
    BY <2>1 DEF AnswersOp
  <2>3. thread[h].phase # "free" /\ thread[h].failed \in Chain /\ OpOf(h, n) \in Op
    BY AtWork DEF Inv, ThreadState
  <2>4. \A r \in Row : thread[h].failed[r] # "none" => thread'[h].failed[r] # "none"
    BY <2>2, <2>3, BrokenMore
  <2>. QED BY <1>4, <2>2, <2>3, <2>4 DEF WorksAt, Broke
<1>. QED BY <1>1, <1>2, <1>3, <1>4 DEF ThreadEffect

(* A thread passes an op only once it is decided, and if it broke the row, knows *)
(* that; an op refused for now has none behind it, or its row is dead.           *)
LEMMA ServerLeaves ==
    ASSUME Inv, InsertIsFirst, HeldBack, NEW h \in Handler, ThreadEffect(h), UNCHANGED outbox,
           NEW g \in Handler, g # h => thread'[g] = thread[g],
           NEW e \in Device, NEW j \in Recorded(e), NEW i \in Recorded(e),
           Before(e, j, i), WorksAt(g, e, i)', j \in thread[g].todo
    PROVE  \/ j \in thread'[g].todo
           \/ Passed(e, j)'
           \/ thread'[g].failed[outbox[e][i].row] # "none"
           \/ Dead(outbox[e][i].row)
<1>1. WorksAt(g, e, i)
  BY ServerGoesOn
<1> SUFFICES ASSUME j \notin thread'[g].todo
             PROVE  \/ Passed(e, j)'
                    \/ thread'[g].failed[outbox[e][i].row] # "none"
                    \/ Dead(outbox[e][i].row)
  OBVIOUS
<1>2. g = h /\ ~TurnsTo(h) /\ ~ThreadEnds(h)
  BY DEF TurnsTo, ThreadEnds, Free, WorksAt
<1>3. PICK n \in thread[h].todo, v \in Verdict, a \in Answer : AnswersOp(h, n, v, a)
  BY <1>2 DEF ThreadEffect
<1>4. /\ n = j /\ Records(h, j, v)
      /\ thread'[h].failed = Broken(thread[h].failed, OpOf(h, j), v)
  BY <1>2, <1>3 DEF AnswersOp
<1>5. /\ OpOf(h, j) = outbox[e][j] /\ IdOf(h, j) = <<e, j>> /\ OpOf(h, j) \in Op
      /\ thread[h].failed \in Chain /\ thread[h].dev = e
  BY <1>1, <1>2, AtWork DEF Inv, ThreadState, OpOf, IdOf, WorksAt
<1>6. outbox[e][j].row = outbox[e][i].row
  BY DEF Before
<1>7. CASE v = "retry"
  <2>1. RefuseForNow(h, j) \/ NotThereYet(h, j)
    BY <1>4, <1>7 DEF Records, Outcome, Failure
  <2>2. \A k \in Recorded(thread[h].dev) :
            Before(thread[h].dev, j, k) => Dead(OpOf(h, j).row)
    BY <1>2, <2>1 DEF HeldBack
  <2>. QED BY <1>5, <1>6, <2>2
<1>8. CASE v # "retry"
  <2>1. <<e, j>> \in OpId
    BY OpTyped
  <2>2. processed'[<<e, j>>] = v /\ v # "none"
    BY <1>4, <1>5, <1>8, <2>1 DEF Records, Outcome, Failure, Inv, TypeOK
  <2>3. CASE BreaksChain(outbox[e][j].kind, v)
    <3>1. thread'[h].failed[outbox[e][j].row] = v
      BY <1>4, <1>5, <2>3, BrokenMore
    <3>. QED BY <1>2, <1>6, <2>2, <3>1
  <2>4. CASE ~BreaksChain(outbox[e][j].kind, v)
    <3>1. outbox'[e][j].kind = outbox[e][j].kind
      OBVIOUS
    <3>. QED BY <2>2, <2>4, <3>1 DEF Passed, BrokeChain
  <2>. QED BY <2>3, <2>4
<1>. QED BY <1>7, <1>8

(* A thread's record of an answer that is not a refusal for now. *)
LEMMA AnswerRecorded ==
    ASSUME Inv, NEW h \in Handler, NEW i \in thread[h].todo, NEW v \in Verdict, NEW a \in Answer,
           AnswersOp(h, i, v, a)
    PROVE  /\ thread[h].dev \in Device /\ i \in Recorded(thread[h].dev)
           /\ RecordedFor(thread[h].dev, a)'
<1> PICK e \in Device : e = thread[h].dev
  BY AtWork DEF Inv
<1>1. i \in Recorded(e) /\ IdOf(h, i) = <<e, i>>
  BY AtWork DEF Inv, InFlight, ThreadNamesOps, IdOf
<1>2. <<e, i>> \in OpId
  BY <1>1, OpTyped
<1>3. v # "retry" => processed'[<<e, i>>] = v
  BY <1>1, <1>2 DEF AnswersOp, Records, Inv, TypeOK
<1>4. a.op = i /\ a.verdict = v /\ thread'[h].dev = e
  BY DEF AnswersOp
<1>. QED BY <1>1, <1>3, <1>4 DEF RecordedFor

(* What an answer says stays recorded. *)
LEMMA AnswerStands ==
    ASSUME Inv, OutcomesAreFinal, NEW d \in Device, NEW a \in Answer, a.op \in Recorded(d),
           RecordedFor(d, a)
    PROVE  RecordedFor(d, a)'
<1>1. <<d, a.op>> \in OpId
  BY OpTyped
<1>2. a.verdict # "none"
  BY DEF Answer, Verdict, Outcome, Failure
<1>. QED BY <1>1, <1>2 DEF RecordedFor, OutcomesAreFinal

(* A step of a thread. *)
LEMMA ServerThreads ==
    ASSUME Inv, ThreadsOK, Inv', HeldBack, NEW h \in Handler, ThreadEffect(h),
           \A g \in Handler \ {h} : thread'[g] = thread[g], UNCHANGED outbox
    PROVE  /\ ThreadsOK' /\ Keeps
           /\ \A e \in Device : \A i \in Recorded(e) : DoomedStays(e, i)
<1>0. InsertIsFirst /\ NotBroke
  BY DEF ThreadsOK
<1>1. /\ Keeps
      /\ \A o \in OpId : processed'[o] = processed[o]
            \/ \E i \in thread[h].todo, v \in Outcome, a \in Answer :
                  AnswersOp(h, i, v, a) /\ o = IdOf(h, i) /\ processed'[o] = v
  BY <1>0, ServerKeeps
<1>2. SameOps /\ \A d \in Device : Recorded(d)' = Recorded(d)
  BY OutboxSame
<1>3. \A g \in Handler : g # h => thread'[g] = thread[g]
  OBVIOUS
<1>4. ASSUME NEW e \in Device, NEW i \in Recorded(e)
      PROVE  DoomedStays(e, i)
  <2> SUFFICES ASSUME Doomed(e, i) PROVE Doomed(e, i)'
    BY DEF DoomedStays
  <2>1. processed'[<<e, i>>] # "applied"
    <3> SUFFICES ASSUME processed'[<<e, i>>] = "applied" PROVE FALSE
      OBVIOUS
    <3>1. /\ WorksAt(h, e, i) /\ First(i, thread[h].todo)
          /\ ~Broke(h, outbox[e][i].row) /\ ~Dead(outbox[e][i].row)
      BY <1>0, ServerWrites DEF Doomed
    <3>2. PICK j \in thread[h].todo : Before(e, j, i)
      BY <3>1 DEF Doomed
    <3>3. i <= j /\ j < i /\ i \in Nat /\ j \in Nat
      BY <3>1, <3>2 DEF First, Before, Recorded
    <3>. QED BY <3>3
  <2>2. ASSUME NEW g \in Handler, WorksAt(g, e, i)'
        PROVE  /\ WorksAt(g, e, i)
               /\ Broke(g, outbox[e][i].row) => Broke(g, outbox[e][i].row)'
               /\ \A j \in thread[g].todo : Before(e, j, i) /\ BrokeChain(e, j) =>
                     \/ j \in thread'[g].todo
                     \/ thread'[g].failed[outbox[e][i].row] # "none"
                     \/ Dead(outbox[e][i].row)
    <3>1. WorksAt(g, e, i) /\ \A r \in Row : Broke(g, r) => Broke(g, r)'
      BY <1>3, <2>2, ServerGoesOn
    <3>2. Broke(g, outbox[e][i].row) => Broke(g, outbox[e][i].row)'
      <4> PICK r \in Row : r = outbox[e][i].row
        BY OpTyped
      <4>. QED BY <3>1 DEF Broke
    <3>3. ASSUME NEW j \in thread[g].todo, Before(e, j, i), BrokeChain(e, j)
          PROVE  \/ j \in thread'[g].todo
                 \/ thread'[g].failed[outbox[e][i].row] # "none"
                 \/ Dead(outbox[e][i].row)
      <4>1. j \in Recorded(e)
        BY <3>3 DEF Before
      <4>2. ~Passed(e, j)'
        BY <1>1, <3>3, <4>1, BrokeChainKept DEF Keeps, Passed
      <4>. QED BY <1>0, <1>3, <2>2, <3>3, <4>1, <4>2, ServerLeaves
    <3>. QED BY <3>1, <3>2, <3>3
  <2>. QED BY <1>1, <2>1, <2>2, DoomKept
<1>5. InsertIsFirst'
  BY <1>0, <1>2 DEF InsertIsFirst
<1>6. OutcomesOfRecorded'
  <2> SUFFICES ASSUME NEW d \in Device, NEW i \in 1..MaxOps, processed'[<<d, i>>] # "none"
               PROVE  i \in Recorded(d)
    BY <1>2 DEF OutcomesOfRecorded
  <2>1. <<d, i>> \in OpId
    BY DEF OpId
  <2>2. CASE processed'[<<d, i>>] = processed[<<d, i>>]
    BY <2>2 DEF ThreadsOK, OutcomesOfRecorded
  <2>3. CASE \E n \in thread[h].todo : <<d, i>> = IdOf(h, n)
    <3>1. i \in thread[h].todo /\ d = thread[h].dev
      BY <2>3 DEF IdOf
    <3>2. thread[h].phase # "free"
      BY <3>1, AtWork DEF Inv
    <3>. QED BY <3>1, <3>2 DEF Inv, InFlight, ThreadNamesOps
  <2>. QED BY <1>1, <2>1, <2>2, <2>3
<1>7. ASSUME NEW i \in thread[h].todo, NEW v \in Verdict, NEW a \in Answer, AnswersOp(h, i, v, a)
      PROVE  ThreadTidy' /\ NotBroke' /\ ThreadAnswersFinal'
  <2>1. /\ a.op = i
        /\ thread'[h].phase = IF thread[h].todo \ {i} = {} THEN "done" ELSE "lookup"
        /\ thread'[h].dev = thread[h].dev /\ thread'[h].todo = thread[h].todo \ {i}
        /\ thread'[h].answers = thread[h].answers \cup {a}
    BY <1>7 DEF AnswersOp
  <2>2. ThreadTidy'
    BY <1>3, <2>1 DEF ThreadsOK, ThreadTidy, OneEach
  <2>3. NotBroke'
    BY <1>3, <2>1 DEF ThreadsOK, NotBroke, Broke, OpOf
  <2>4. ThreadAnswersFinal'
    <3> SUFFICES ASSUME NEW g \in Handler, thread'[g].phase # "free", NEW b \in thread'[g].answers
                 PROVE  RecordedFor(thread[g].dev, b)'
      BY <2>1, <1>3 DEF ThreadAnswersFinal, RecordedFor
    <3>1. CASE b \in thread[g].answers
      <4>1. thread[g].phase # "free"
        BY <1>3, AtWork DEF Inv
      <4>2. /\ thread[g].dev \in Device /\ b.op \in Recorded(thread[g].dev)
            /\ b \in Answer /\ RecordedFor(thread[g].dev, b)
        BY <3>1, <4>1
           DEF Inv, TypeOK, ThreadState, InFlight, ThreadNamesOps, AnswersNameOps,
               ThreadsOK, ThreadAnswersFinal
      <4> PICK e \in Device : e = thread[g].dev
        BY <4>2
      <4>3. RecordedFor(e, b)'
        BY <1>1, <4>2, AnswerStands DEF Keeps
      <4>4. thread'[g].dev = e
        BY <1>3, <2>1
      <4>. QED BY <4>3, <4>4 DEF RecordedFor
    <3>2. CASE g = h /\ b = a
      BY <1>7, <3>2, AnswerRecorded
    <3>. QED BY <1>3, <2>1, <3>1, <3>2
  <2>. QED BY <2>2, <2>3, <2>4
<1>8. ASSUME TurnsTo(h)
      PROVE  ThreadTidy' /\ NotBroke' /\ ThreadAnswersFinal'
  <2>1. /\ thread'[h].dev = thread[h].dev /\ thread'[h].todo = thread[h].todo
        /\ thread'[h].failed = thread[h].failed /\ thread'[h].answers = thread[h].answers
        /\ UNCHANGED processed
    BY <1>8 DEF TurnsTo
  <2>2. PICK i \in thread[h].todo :
          /\ First(i, thread[h].todo)
          /\ thread'[h].phase = "apply" => ~Broke(h, OpOf(h, i).row)
          /\ thread'[h].phase \in {"apply", "settle"}
    BY <1>8 DEF TurnsTo
  <2>3. thread[h].phase # "free" /\ thread[h].todo \subseteq Nat
    BY <2>2, AtWork DEF Inv, ThreadState
  <2>4. ThreadTidy'
    BY <1>3, <2>1, <2>2 DEF ThreadsOK, ThreadTidy, OneEach
  <2>5. NotBroke'
    <3>1. \A j \in thread[h].todo : First(j, thread[h].todo) => j = i
      BY <2>2, <2>3 DEF First
    <3>2. \A j \in thread[h].todo : thread'[h].phase = "apply" /\ First(j, thread[h].todo) =>
              ~Broke(h, OpOf(h, j).row)
      BY <2>2, <3>1
    <3>. QED BY <1>3, <2>1, <3>2 DEF ThreadsOK, NotBroke, Broke, OpOf
  <2>6. ThreadAnswersFinal'
    BY <1>3, <2>1, <2>3 DEF ThreadsOK, ThreadAnswersFinal, RecordedFor
  <2>. QED BY <2>4, <2>5, <2>6
<1>9. ASSUME ThreadEnds(h)
      PROVE  ThreadTidy' /\ NotBroke' /\ ThreadAnswersFinal'
  <2>1. /\ thread'[h].phase = "free" /\ thread'[h].todo = {} /\ thread'[h].answers = {}
        /\ UNCHANGED processed
    BY <1>9 DEF ThreadEnds, Free
  <2>2. ThreadTidy'
    BY <1>3, <2>1 DEF ThreadsOK, ThreadTidy, OneEach
  <2>3. NotBroke'
    BY <1>3, <2>1 DEF ThreadsOK, NotBroke, Broke, OpOf
  <2>4. ThreadAnswersFinal'
    BY <1>3, <2>1 DEF ThreadsOK, ThreadAnswersFinal, RecordedFor
  <2>. QED BY <2>2, <2>3, <2>4
<1>10. ThreadTidy' /\ NotBroke' /\ ThreadAnswersFinal'
  BY <1>7, <1>8, <1>9 DEF ThreadEffect
<1>11. StatusesStand'
  <2> SUFFICES ASSUME NEW e \in Device, NEW i \in Recorded(e),
                      outbox[e][i].status \in Failure \cup {"dismissed"}
               PROVE  NeverTaken(e, i)'
    BY <1>2 DEF StatusesStand
  <2>1. NeverTaken(e, i)
    BY DEF ThreadsOK, StatusesStand
  <2>2. <<e, i>> \in OpId
    BY OpTyped
  <2>3. processed[<<e, i>>] \in Failure => processed'[<<e, i>>] \in Failure
    BY <1>1, <2>2 DEF Keeps, OutcomesAreFinal, Failure
  <2>. QED BY <1>4, <2>1, <2>3 DEF NeverTaken, DoomedStays
<1>12. InTurn'
  <2> SUFFICES ASSUME NEW e \in Device, NEW j \in Recorded(e), NEW i \in Recorded(e),
                      Before(e, j, i)', Waits(e, j)', Waits(e, i)'
               PROVE  /\ \A g \in Handler : WorksAt(g, e, i)' =>
                            \/ j \in thread'[g].todo
                            \/ Passed(e, j)'
                            \/ Broke(g, outbox[e][i].row)'
                            \/ Dead(outbox[e][i].row)'
                      /\ processed'[<<e, i>>] = "applied" => Passed(e, j)'
    BY <1>2 DEF InTurn
  <2>1. Before(e, j, i) /\ Waits(e, j) /\ Waits(e, i)
    BY <1>2, BeforeKept DEF Waits
  <2>2. Passed(e, j) => Passed(e, j)'
    BY <1>1, BrokeChainKept DEF Keeps
  <2> PICK r \in Row : r = outbox[e][i].row
    BY OpTyped
  <2>3. outbox'[e][i].row = r
    OBVIOUS
  <2>4. Dead(r) => Dead(r)'
    BY <1>1 DEF Keeps, DeadStays
  <2>5. ASSUME NEW g \in Handler, WorksAt(g, e, i)'
        PROVE  j \in thread'[g].todo \/ Passed(e, j)' \/ Broke(g, r)' \/ Dead(r)'
    <3>1. WorksAt(g, e, i) /\ (Broke(g, r) => Broke(g, r)')
      BY <1>3, <2>5, ServerGoesOn
    <3>2. j \in thread[g].todo \/ Passed(e, j) \/ Broke(g, r) \/ Dead(r)
      BY <2>1, <3>1 DEF ThreadsOK, InTurn
    <3>3. CASE j \in thread[g].todo
      <4>1. \/ j \in thread'[g].todo \/ Passed(e, j)'
            \/ thread'[g].failed[outbox[e][i].row] # "none" \/ Dead(outbox[e][i].row)
        BY <1>0, <1>3, <2>1, <2>5, <3>3, ServerLeaves
      <4>. QED BY <2>4, <4>1 DEF Broke
    <3>. QED BY <2>2, <2>4, <3>1, <3>2, <3>3
  <2>6. processed'[<<e, i>>] = "applied" => Passed(e, j)'
    <3>1. CASE processed[<<e, i>>] = "applied"
      BY <2>1, <2>2, <3>1 DEF ThreadsOK, InTurn
    <3>2. CASE processed'[<<e, i>>] = "applied" /\ processed[<<e, i>>] # "applied"
      <4>1. /\ WorksAt(h, e, i) /\ First(i, thread[h].todo)
            /\ ~Broke(h, r) /\ ~Dead(r)
        BY <1>0, <3>2, ServerWrites
      <4>2. j \notin thread[h].todo
        <5>1. j < i /\ i \in Nat /\ j \in Nat
          BY <2>1 DEF Before, Recorded
        <5>. QED BY <4>1, <5>1 DEF First
      <4>. QED BY <2>1, <2>2, <4>1, <4>2 DEF ThreadsOK, InTurn
    <3>. QED BY <3>1, <3>2
  <2>. QED BY <2>3, <2>5, <2>6
<1>. QED BY <1>1, <1>4, <1>5, <1>6, <1>10, <1>11, <1>12 DEF ThreadsOK

-----------------------------------------------------------------------------
(* The pushes' part of the invariant, step by step. *)

(* Of an op that stays, its row and its author do, and what comes before it. *)
LEMMA OpStays ==
    ASSUME Inv, SameOps, NEW d \in Device, NEW i \in Recorded(d)
    PROVE  /\ outbox'[d][i].row = outbox[d][i].row
           /\ outbox'[d][i].actor = outbox[d][i].actor
           /\ Waits(d, i)' => Waits(d, i)
           /\ \A j : Before(d, j, i)' <=> Before(d, j, i)
<1>1. KeepsOp(d, i)
  BY DEF SameOps
<1>2. ASSUME NEW j, Before(d, j, i)' \/ Before(d, j, i)
      PROVE  j \in Recorded(d)
  BY <1>2 DEF Before, Recorded
<1>. QED BY <1>1, <1>2, BeforeKept DEF KeepsOp, Waits, Before

(* What a push carries is recorded. *)
LEMMA CarriedRecorded ==
    ASSUME Inv, NEW d \in Device
    PROVE  Carried(d) \subseteq Recorded(d)
<1>1. /\ push[d].todo \subseteq Recorded(d) /\ push[d].batch \subseteq Recorded(d)
      /\ \A a \in push[d].answers : a.op \in Recorded(d)
  BY AtPush
<1>2. CASE push[d].phase = "waiting"
  <2> PICK h \in Handler : h = push[d].on
    BY <1>2 DEF Inv, InFlight, WaitsOnItsThread
  <2>1. /\ thread[h].todo \subseteq Recorded(d)
        /\ \A a \in thread[h].answers : a.op \in Recorded(d)
    BY <1>2 DEF Inv, InFlight, WaitsOnItsThread, ThreadNamesOps, AnswersNameOps
  <2>. QED BY <1>1, <1>2, <2>1 DEF Carried, Sent, OpsOf
<1>3. CASE push[d].phase # "waiting"
  BY <1>1, <1>3 DEF Carried, Sent, OpsOf
<1>. QED BY <1>2, <1>3

(* A push that stays as it is, while others go on. *)
LEMMA PushKept ==
    ASSUME Inv, Keeps, NEW e \in Device, PushOK(e), push'[e] = push[e], Sent(e)' = Sent(e),
           \A i \in push[e].todo : DoomedStays(e, i),
           \A i \in Recorded(e) : Waits(e, i) => Waits(e, i)',
           push[e].phase = "waiting" => \A a \in thread'[push[e].on].answers :
               \/ a \in thread[push[e].on].answers
               \/ a.verdict = "retry" =>
                     \A i \in push[e].todo : Before(e, a.op, i) => Dead(outbox[e][i].row)
    PROVE  PushOK(e)'
<1>1. /\ push[e].todo \subseteq Recorded(e) /\ push[e].batch \subseteq Recorded(e)
      /\ \A a \in push[e].answers : a \in Answer /\ a.op \in Recorded(e)
  BY AtPush
<1>2. SameOps /\ OutcomesAreFinal /\ DeadStays
  BY DEF Keeps
<1>3. \A i \in Recorded(e) : /\ outbox'[e][i].row = outbox[e][i].row
                             /\ outbox'[e][i].actor = outbox[e][i].actor
                             /\ Waits(e, i)' => Waits(e, i)
                             /\ \A j : Before(e, j, i)' <=> Before(e, j, i)
  BY <1>2, OpStays
<1>4. Carried(e) \subseteq Recorded(e)
  BY CarriedRecorded
<1>5. Carried(e)' = Carried(e)
  BY DEF Carried
<1>6. \A i \in Recorded(e) : Dead(outbox[e][i].row) => Dead(outbox[e][i].row)'
  <2> SUFFICES ASSUME NEW i \in Recorded(e), Dead(outbox[e][i].row)
               PROVE  Dead(outbox[e][i].row)'
    OBVIOUS
  <2> PICK r \in Row : r = outbox[e][i].row
    BY OpTyped
  <2>1. Dead(r)'
    BY <1>2 DEF DeadStays
  <2>. QED BY <1>3, <2>1
<1>7. PhaseTidy(e)'
  BY DEF PushOK, PhaseTidy, OneEach
<1>8. SentFirst(e)'
  BY DEF PushOK, SentFirst
<1>9. OneAuthor(e)'
  BY <1>3, <1>4, <1>5 DEF PushOK, OneAuthor
<1>10. CarriedWait(e)'
  BY <1>3, <1>4, <1>5 DEF PushOK, CarriedWait, IsFirst
<1>11. GoesFirst(e)'
  BY <1>1, <1>2, <1>3, <1>5, <1>6 DEF PushOK, GoesFirst, Before
<1>12. RetryIsLast(e)'
  <2>1. \A a : \A i \in push[e].todo :
            /\ Before(e, a.op, i)' <=> Before(e, a.op, i)
            /\ Dead(outbox[e][i].row) => Dead(outbox[e][i].row)'
    BY <1>1, <1>3, <1>6
  <2>2. LastOf(e, push[e].answers)'
    BY <2>1 DEF PushOK, RetryIsLast, LastOf
  <2>3. push[e].phase = "waiting" => LastOf(e, thread[push[e].on].answers)'
    BY <2>1 DEF PushOK, RetryIsLast, LastOf
  <2>. QED BY <2>2, <2>3 DEF RetryIsLast, LastOf
<1>13. RestDoomed(e)'
  BY <1>1, <1>3 DEF PushOK, RestDoomed, DoomedStays
<1>14. AnswersFinal(e)'
  BY <1>1, <1>2, AnswerStands DEF PushOK, AnswersFinal
<1>. QED BY <1>7, <1>8, <1>9, <1>10, <1>11, <1>12, <1>13, <1>14 DEF PushOK

(* A push that waits for no thread that moves. *)
LEMMA PushAside ==
    ASSUME Inv, Keeps, NEW e \in Device, PushOK(e), push'[e] = push[e],
           push[e].phase = "waiting" => thread'[push[e].on] = thread[push[e].on],
           \A i \in push[e].todo : DoomedStays(e, i),
           \A i \in Recorded(e) : Waits(e, i) => Waits(e, i)'
    PROVE  PushOK(e)'
<1>1. Sent(e)' = Sent(e)
  BY DEF Sent
<1>. QED BY <1>1, PushKept

(* A push while a thread takes a step. *)
LEMMA PushAwaits ==
    ASSUME Inv, Keeps, HeldBack, NEW e \in Device, PushOK(e), NEW h \in Handler, ThreadEffect(h),
           \A g \in Handler \ {h} : thread'[g] = thread[g], UNCHANGED <<outbox, push>>,
           \A i \in push[e].todo : DoomedStays(e, i)
    PROVE  PushOK(e)'
<1>1. \A i \in Recorded(e) : Waits(e, i) => Waits(e, i)'
  BY DEF Waits
<1>2. CASE push[e].phase = "waiting" => push[e].on # h
  <2>1. push[e].phase = "waiting" => thread'[push[e].on] = thread[push[e].on]
    BY <1>2 DEF Inv, InFlight, WaitsOnItsThread
  <2>. QED BY <1>1, <2>1, PushAside
<1>3. CASE push[e].phase = "waiting" /\ push[e].on = h
  <2>1. thread[h].dev = e /\ thread[h].todo \subseteq Recorded(e)
    BY <1>3 DEF Inv, InFlight, WaitsOnItsThread, ThreadNamesOps
  <2>2. ~ThreadEnds(h)
    BY <1>3 DEF ThreadEnds
  <2>3. CASE TurnsTo(h)
    <3>1. thread'[h].todo = thread[h].todo /\ thread'[h].answers = thread[h].answers
      BY <2>3 DEF TurnsTo
    <3>2. Sent(e)' = Sent(e)
      BY <1>3, <3>1 DEF Sent, OpsOf
    <3>. QED BY <1>1, <1>3, <3>1, <3>2, PushKept
  <2>4. CASE \E i \in thread[h].todo, v \in Verdict, a \in Answer : AnswersOp(h, i, v, a)
    <3>1. PICK i \in thread[h].todo, v \in Verdict, a \in Answer : AnswersOp(h, i, v, a)
      BY <2>4
    <3>2. /\ a.op = i /\ a.verdict = v /\ Records(h, i, v)
          /\ thread'[h].todo = thread[h].todo \ {i}
          /\ thread'[h].answers = thread[h].answers \cup {a}
      BY <3>1 DEF AnswersOp
    <3>3. Sent(e)' = Sent(e)
      BY <1>3, <3>2 DEF Sent, OpsOf
    <3>4. ASSUME v = "retry", NEW k \in push[e].todo, Before(e, i, k)
          PROVE  Dead(outbox[e][k].row)
      <4>1. RefuseForNow(h, i) \/ NotThereYet(h, i)
        BY <3>2, <3>4 DEF Records, Outcome, Failure
      <4>2. \A n \in Recorded(thread[h].dev) :
                Before(thread[h].dev, i, n) => Dead(OpOf(h, i).row)
        BY <4>1 DEF HeldBack
      <4>3. k \in Recorded(e) /\ outbox[e][k].row = outbox[e][i].row
        BY <3>4 DEF Before
      <4>. QED BY <2>1, <3>4, <4>2, <4>3 DEF OpOf
    <3>5. \A b \in thread'[h].answers :
              \/ b \in thread[h].answers
              \/ b.verdict = "retry" =>
                    \A k \in push[e].todo : Before(e, b.op, k) => Dead(outbox[e][k].row)
      BY <3>2, <3>4
    <3>. QED BY <1>1, <1>3, <3>3, <3>5, PushKept
  <2>. QED BY <2>2, <2>3, <2>4 DEF ThreadEffect
<1>. QED BY <1>2, <1>3

(* A push that goes on: what is left of it was in it, and what has left it was *)
(* answered.                                                                   *)
LEMMA PushGoesOn ==
    ASSUME Inv, Keeps, NEW d \in Device, PushOK(d),
           PhaseTidy(d)', SentFirst(d)', CarriedWait(d)', RetryIsLast(d)', AnswersFinal(d)',
           push'[d].todo \subseteq push[d].todo,
           push'[d].batch \subseteq push[d].todo \cup push[d].batch,
           Carried(d)' \subseteq Carried(d),
           \A i \in push'[d].todo \cup push'[d].batch : \A j \in Carried(d) :
               Before(d, j, i) /\ Waits(d, j)' => j \in Carried(d)' \/ Dead(outbox[d][i].row),
           \A i \in push'[d].todo : push'[d].failed[outbox[d][i].row] # "none" => Doomed(d, i),
           \A i \in push'[d].todo : DoomedStays(d, i)
    PROVE  PushOK(d)'
<1>1. push[d].todo \subseteq Recorded(d) /\ push[d].batch \subseteq Recorded(d)
  BY AtPush
<1>2. Carried(d) \subseteq Recorded(d)
  BY CarriedRecorded
<1>3. SameOps
  BY DEF Keeps
<1>4. \A i \in Recorded(d) : /\ outbox'[d][i].row = outbox[d][i].row
                             /\ outbox'[d][i].actor = outbox[d][i].actor
                             /\ Waits(d, i)' => Waits(d, i)
                             /\ \A j : Before(d, j, i)' <=> Before(d, j, i)
  BY <1>3, OpStays
<1>5. OneAuthor(d)'
  BY <1>2, <1>4 DEF PushOK, OneAuthor
<1>6. GoesFirst(d)'
  <2> SUFFICES ASSUME NEW i \in push'[d].todo \cup push'[d].batch, NEW j \in Recorded(d)',
                      Before(d, j, i)', Waits(d, j)'
               PROVE  j \in Carried(d)' \/ Dead(outbox[d][i].row)'
    BY DEF GoesFirst
  <2>1. i \in Recorded(d) /\ i \in push[d].todo \cup push[d].batch
    BY <1>1
  <2>2. Before(d, j, i)
    BY <1>4, <2>1
  <2>3. j \in Recorded(d) /\ Waits(d, j)
    BY <1>4, <2>2 DEF Before
  <2>4. j \in Carried(d) \/ Dead(outbox[d][i].row)
    BY <2>1, <2>2, <2>3 DEF PushOK, GoesFirst
  <2>5. j \in Carried(d)' \/ Dead(outbox[d][i].row)
    BY <2>2, <2>4
  <2> PICK r \in Row : r = outbox[d][i].row
    BY <2>1, OpTyped
  <2>6. Dead(r) => Dead(r)'
    BY DEF Keeps, DeadStays
  <2>7. outbox'[d][i].row = r
    BY <1>4, <2>1
  <2>. QED BY <2>5, <2>6, <2>7
<1>7. RestDoomed(d)'
  BY <1>1, <1>4 DEF RestDoomed, DoomedStays
<1>. QED BY <1>5, <1>6, <1>7 DEF PushOK

(* The sync begins. *)
LEMMA StartSyncPush ==
    ASSUME Inv, NEW d \in Device, NEW u \in User, StartSync(d, u)
    PROVE  PushOK(d)'
<1>1. /\ push'[d].phase = "pushing" /\ push'[d].todo = Pending(d, u)
      /\ push'[d].batch = {} /\ push'[d].answers = {} /\ push'[d].failed = Unbroken
      /\ UNCHANGED <<outbox, thread>>
  BY StartSyncDoes
<1>2. Sent(d)' = {} /\ Carried(d)' = Pending(d, u)
  BY <1>1 DEF Sent, Carried, OpsOf
<1>3. \A i \in Pending(d, u) : /\ i \in Recorded(d) /\ outbox[d][i].actor = u
                               /\ outbox[d][i].status = "pending"
  BY DEF Pending, Recorded, Inv, TypeOK
<1>4. PhaseTidy(d)' /\ SentFirst(d)' /\ AnswersFinal(d)'
  BY <1>1, <1>2 DEF PhaseTidy, SentFirst, AnswersFinal, OneEach
<1>5. OneAuthor(d)' /\ CarriedWait(d)'
  BY <1>1, <1>2, <1>3 DEF OneAuthor, CarriedWait, Waits
<1>6. RetryIsLast(d)'
  BY <1>1 DEF RetryIsLast, LastOf
<1>7. RestDoomed(d)'
  <2>1. \A i \in Pending(d, u) : push'[d].failed[outbox[d][i].row] = "none"
    BY <1>1, <1>3, OpTyped DEF Unbroken
  <2>. QED BY <1>1, <2>1 DEF RestDoomed
<1>8. GoesFirst(d)'
  <2> SUFFICES ASSUME NEW i \in Pending(d, u), NEW j \in Recorded(d),
                      Before(d, j, i), Waits(d, j)
               PROVE  j \in Pending(d, u)
    BY <1>1, <1>2 DEF GoesFirst, Recorded, Before, Waits
  <2>1. outbox[d][j].actor = u
    BY <1>3 DEF Before
  <2>. QED BY <2>1 DEF Pending, Waits, Recorded, Inv, TypeOK
<1>. QED BY <1>4, <1>5, <1>6, <1>7, <1>8 DEF PushOK

(* A refusal for now stays the last of its row. *)
LEMMA LastStays ==
    ASSUME Inv, Keeps, NEW d \in Device, push'[d].todo \subseteq push[d].todo,
           NEW answers, LastOf(d, answers), NEW a \in answers, a.verdict = "retry",
           NEW i \in push'[d].todo, Before(d, a.op, i)'
    PROVE  Dead(outbox[d][i].row)'
<1>1. i \in push[d].todo /\ i \in Recorded(d)
  BY AtPush
<1>2. outbox'[d][i].row = outbox[d][i].row /\ Before(d, a.op, i)
  BY <1>1, OpStays DEF Keeps
<1> PICK r \in Row : r = outbox[d][i].row
  BY <1>1, OpTyped
<1>3. Dead(r)
  BY <1>1, <1>2 DEF LastOf
<1>. QED BY <1>2, <1>3 DEF Keeps, DeadStays

(* An op goes into the request, or takes the verdict of its row. *)
LEMMA FillBatchPush ==
    ASSUME Inv, Keeps, NEW d \in Device, PushOK(d), NEW n \in push[d].todo, FillBatch(d, n),
           \A i \in push[d].todo : DoomedStays(d, i)
    PROVE  PushOK(d)'
<1> DEFINE verdict == push[d].failed[outbox[d][n].row]
<1>1. /\ First(n, push[d].todo)
      /\ push[d].phase = "pushing" /\ push'[d].phase = "pushing"
      /\ push'[d].todo = push[d].todo \ {n}
      /\ push'[d].answers = push[d].answers
      /\ push'[d].failed = push[d].failed
      /\ \/ /\ push'[d].batch = push[d].batch \cup {n}
            /\ UNCHANGED outbox
         \/ /\ verdict \in Failure
            /\ push'[d].batch = push[d].batch
            /\ SetStatus(d, n, verdict)
      /\ UNCHANGED thread
  BY FillBatchDoes
<1>2. push[d].todo \subseteq Recorded(d) /\ push[d].batch \subseteq Recorded(d)
  BY AtPush
<1>3. push[d].answers = {}
  BY <1>1 DEF PushOK, PhaseTidy
<1>4. Sent(d) = push[d].batch /\ Sent(d)' = push'[d].batch
  BY <1>1, <1>3 DEF Sent, OpsOf
<1>5. PhaseTidy(d)'
  BY <1>1, <1>3 DEF PhaseTidy, OneEach
<1>6. RetryIsLast(d)' /\ AnswersFinal(d)'
  BY <1>1, <1>3 DEF RetryIsLast, LastOf, AnswersFinal
<1>7. \A i \in push'[d].todo : push'[d].failed[outbox[d][i].row] # "none" => Doomed(d, i)
  BY <1>1 DEF PushOK, RestDoomed
<1>8. \A i \in push[d].todo \ {n} : n < i /\ i # n
  <2>1. \A i \in push[d].todo : i \in Nat
    BY <1>2 DEF Recorded
  <2>. QED BY <1>1, <2>1 DEF First
<1>9. \A i \in Carried(d) : Waits(d, i)
  BY <1>1 DEF PushOK, CarriedWait
<1>10. CASE push'[d].batch = push[d].batch \cup {n} /\ UNCHANGED outbox
  <2>1. Carried(d)' = Carried(d)
    BY <1>1, <1>4, <1>10 DEF Carried
  <2>2. SentFirst(d)'
    BY <1>1, <1>4, <1>8, <1>10 DEF PushOK, SentFirst
  <2>3. CarriedWait(d)'
    BY <1>1, <1>9, <1>10, <2>1 DEF CarriedWait, Waits
  <2>. QED BY <1>1, <1>5, <1>6, <1>7, <1>10, <2>1, <2>2, <2>3, PushGoesOn
<1>11. CASE /\ verdict \in Failure /\ push'[d].batch = push[d].batch
            /\ SetStatus(d, n, verdict)
  <2> PICK s : s = verdict
    OBVIOUS
  <2>1. s \in Status /\ s # "pending"
    BY <1>11 DEF Failure, Status
  <2>2. \A i \in Recorded(d) : outbox'[d][i].status = IF i = n THEN s ELSE outbox[d][i].status
    <3>1. SetStatus(d, n, s) /\ n \in Recorded(d) /\ TypeOK
      BY <1>2, <1>11 DEF Inv
    <3>. QED BY <2>1, <3>1, StatusChange
  <2>3. n \notin Sent(d)
    <3>1. n \in Sent(d) => n < n
      BY DEF PushOK, SentFirst
    <3>. QED BY <1>2, <3>1 DEF Recorded
  <2>4. Carried(d)' = Carried(d) \ {n} /\ Sent(d)' = Sent(d)
    BY <1>1, <1>4, <1>11, <2>3 DEF Carried
  <2>5. SentFirst(d)'
    BY <1>1, <2>4 DEF PushOK, SentFirst
  <2>6. Carried(d) \subseteq Recorded(d)
    BY CarriedRecorded
  <2>7. CarriedWait(d)'
    BY <1>1, <1>9, <2>2, <2>4, <2>6 DEF CarriedWait, Waits
  <2>8. ~Waits(d, n)'
    BY <1>2, <2>1, <2>2 DEF Waits
  <2>. QED BY <1>1, <1>5, <1>6, <1>7, <1>11, <2>4, <2>5, <2>7, <2>8, PushGoesOn
<1>. QED BY <1>1, <1>10, <1>11

(* The request goes out. *)
LEMMA SendBatchPush ==
    ASSUME Inv, Keeps, NEW d \in Device, PushOK(d), NEW h \in Handler, SendBatch(d, h),
           \A i \in push[d].todo : DoomedStays(d, i)
    PROVE  PushOK(d)'
<1>1. /\ push[d].phase = "pushing"
      /\ push'[d].phase = "waiting" /\ push'[d].on = h
      /\ push'[d].todo = push[d].todo /\ push'[d].batch = {}
      /\ push'[d].answers = push[d].answers /\ push'[d].failed = push[d].failed
      /\ thread'[h].todo = push[d].batch /\ thread'[h].answers = {}
      /\ UNCHANGED outbox
  BY SendBatchDoes
<1>2. push[d].answers = {}
  BY <1>1 DEF PushOK, PhaseTidy
<1>3. Sent(d) = push[d].batch /\ Sent(d)' = push[d].batch
  BY <1>1, <1>2 DEF Sent, OpsOf
<1>4. Carried(d)' = Carried(d)
  BY <1>1, <1>3 DEF Carried
<1>5. PhaseTidy(d)'
  BY <1>1, <1>2 DEF PhaseTidy, OneEach
<1>6. RetryIsLast(d)' /\ AnswersFinal(d)'
  BY <1>1, <1>2 DEF RetryIsLast, LastOf, AnswersFinal
<1>7. SentFirst(d)'
  BY <1>1, <1>3 DEF PushOK, SentFirst
<1>8. CarriedWait(d)'
  BY <1>1, <1>4 DEF PushOK, CarriedWait, Waits
<1>9. \A i \in push'[d].todo : push'[d].failed[outbox[d][i].row] # "none" => Doomed(d, i)
  BY <1>1 DEF PushOK, RestDoomed
<1>. QED BY <1>1, <1>4, <1>5, <1>6, <1>7, <1>8, <1>9, PushGoesOn

(* The answers come back. *)
LEMMA ReceivePush ==
    ASSUME Inv, ThreadsOK, Keeps, NEW d \in Device, PushOK(d), ReceiveAnswers(d), UNCHANGED processed,
           \A i \in push[d].todo : DoomedStays(d, i)
    PROVE  PushOK(d)'
<1> PICK h \in Handler : h = push[d].on
  BY ReceiveAnswersDoes
<1>1. /\ push[d].phase = "waiting" /\ push'[d].phase = "reading"
      /\ push'[d].todo = push[d].todo /\ push'[d].batch = push[d].batch
      /\ push'[d].failed = push[d].failed
      /\ push'[d].answers = thread[h].answers
      /\ thread[h].dev = d /\ thread[h].phase = "done"
      /\ UNCHANGED outbox
  BY ReceiveAnswersDoes
<1>2. push[d].batch = {}
  BY <1>1 DEF PushOK, PhaseTidy
<1>3. thread[h].todo = {} /\ OneEach(thread[h].answers)
  BY <1>1 DEF ThreadsOK, ThreadTidy
<1>4. Sent(d)' = Sent(d)
  BY <1>1, <1>2, <1>3 DEF Sent, OpsOf
<1>5. Carried(d)' = Carried(d)
  BY <1>1, <1>4 DEF Carried
<1>6. PhaseTidy(d)'
  BY <1>1, <1>2, <1>3 DEF PhaseTidy
<1>7. RetryIsLast(d)'
  <2>1. LastOf(d, thread[h].answers)
    BY <1>1 DEF PushOK, RetryIsLast
  <2>2. \A a \in thread[h].answers : a.verdict = "retry" =>
            \A i \in push'[d].todo : Before(d, a.op, i)' => Dead(outbox[d][i].row)'
    BY <1>1, <2>1, LastStays
  <2>. QED BY <1>1, <2>2 DEF RetryIsLast, LastOf
<1>8. AnswersFinal(d)'
  BY <1>1 DEF ThreadsOK, ThreadAnswersFinal, AnswersFinal, RecordedFor
<1>9. SentFirst(d)'
  BY <1>1, <1>4 DEF PushOK, SentFirst
<1>10. CarriedWait(d)'
  BY <1>1, <1>5 DEF PushOK, CarriedWait, Waits
<1>11. \A i \in push'[d].todo : push'[d].failed[outbox[d][i].row] # "none" => Doomed(d, i)
  BY <1>1 DEF PushOK, RestDoomed
<1>. QED BY <1>1, <1>2, <1>5, <1>6, <1>7, <1>8, <1>9, <1>10, <1>11, PushGoesOn

(* An answer is the only one for its op. *)
LEMMA OpsLess ==
    ASSUME NEW answers, OneEach(answers), NEW a \in answers
    PROVE  OpsOf(answers \ {a}) = OpsOf(answers) \ {a.op}
BY DEF OneEach, OpsOf

(* An answer that broke its row dooms what is left of the row. *)
LEMMA ReadDooms ==
    ASSUME Inv, InTurn, NEW d \in Device, PushOK(d), push[d].phase = "reading",
           NEW a \in push[d].answers, NEW i \in push[d].todo,
           Broken(push[d].failed, outbox[d][a.op], a.verdict)[outbox[d][i].row] # "none"
    PROVE  Doomed(d, i)
<1> PICK n : n = a.op
  OBVIOUS
<1>1. /\ n \in Recorded(d) /\ i \in Recorded(d) /\ outbox[d][n] \in Op
      /\ push[d].failed \in Chain /\ outbox[d][i].row \in Row
  BY AtPush, OpTyped DEF PushState
<1>2. CASE push[d].failed[outbox[d][i].row] # "none"
  BY <1>2 DEF PushOK, RestDoomed
<1>3. CASE push[d].failed[outbox[d][i].row] = "none"
  <2>1. BreaksChain(outbox[d][n].kind, a.verdict) /\ outbox[d][i].row = outbox[d][n].row
    BY <1>1, <1>3, BrokenMore
  <2>2. a.verdict # "retry"
    BY <2>1 DEF BreaksChain
  <2>3. a.verdict = processed[<<d, n>>]
    BY <2>2 DEF PushOK, AnswersFinal, RecordedFor
  <2>4. ~Passed(d, n)
    BY <2>1, <2>3 DEF Passed, BrokeChain
  <2>5. n \in Sent(d)
    BY DEF Sent, OpsOf
  <2>6. n < i
    BY <2>5 DEF PushOK, SentFirst
  <2>7. n \in Carried(d) /\ i \in Carried(d)
    BY <2>5 DEF Carried
  <2>8. outbox[d][n].actor = outbox[d][i].actor /\ Waits(d, n) /\ Waits(d, i)
    BY <2>7 DEF PushOK, OneAuthor, CarriedWait
  <2>9. Before(d, n, i)
    BY <1>1, <2>1, <2>6, <2>8 DEF Before
  <2>10. BrokeChain(d, n)
    BY <2>1, <2>3 DEF BrokeChain
  <2>. QED BY <1>1, <2>4, <2>8, <2>9, <2>10 DEF InTurn, Doomed
<1>. QED BY <1>2, <1>3

(* An answer is read. *)
LEMMA ReadPush ==
    ASSUME Inv, InTurn, Keeps, NEW d \in Device, PushOK(d),
           NEW a \in push[d].answers, ReadAnswer(d, a), UNCHANGED processed,
           \A i \in push[d].todo : DoomedStays(d, i)
    PROVE  PushOK(d)'
<1> PICK n : n = a.op
  OBVIOUS
<1>1. /\ FirstAnswer(a, push[d].answers)
      /\ push[d].phase = "reading"
      /\ push'[d].todo = push[d].todo /\ push'[d].batch = push[d].batch
      /\ push'[d].failed = Broken(push[d].failed, outbox[d][n], a.verdict)
      /\ \/ /\ a.verdict = "retry" /\ UNCHANGED outbox
            /\ push'[d].phase = "reading" /\ push'[d].answers = push[d].answers \ {a}
         \/ /\ a.verdict = "applied" /\ SetStatus(d, n, "acked")
            /\ push'[d].phase = "reading" /\ push'[d].answers = push[d].answers \ {a}
         \/ /\ a.verdict = "rejected" /\ SetStatus(d, n, "rejected")
            /\ push'[d].phase = "reading" /\ push'[d].answers = push[d].answers \ {a}
         \/ /\ a.verdict = "conflict" /\ SetStatus(d, n, "conflict")
            /\ push'[d].phase = "overwriting" /\ push'[d].answers = push[d].answers
  BY ReadAnswerDoes
<1>2. /\ push[d].batch = {} /\ OneEach(push[d].answers)
      /\ \A i \in Carried(d) : Waits(d, i)
  BY <1>1 DEF PushOK, PhaseTidy, CarriedWait
<1>3. push'[d].answers \subseteq push[d].answers /\ push'[d].phase \in {"reading", "overwriting"}
  BY <1>1
<1>4. Sent(d) = OpsOf(push[d].answers) /\ Sent(d)' = OpsOf(push'[d].answers)
  BY <1>1, <1>2, <1>3 DEF Sent
<1>5. Sent(d)' \subseteq Sent(d)
  BY <1>3, <1>4 DEF OpsOf
<1>6. Carried(d)' \subseteq Carried(d)
  BY <1>1, <1>5 DEF Carried
<1>7. Carried(d) \subseteq Recorded(d) /\ n \in Carried(d) /\ n \in Recorded(d) /\ TypeOK
  BY <1>4, CarriedRecorded DEF Carried, OpsOf, Inv
<1>8. PhaseTidy(d)'
  BY <1>1, <1>2, <1>3 DEF PhaseTidy, OneEach
<1>9. SentFirst(d)'
  BY <1>1, <1>5 DEF PushOK, SentFirst
<1>10. RetryIsLast(d)'
  <2>1. LastOf(d, push[d].answers)
    BY DEF PushOK, RetryIsLast
  <2>2. \A b \in push[d].answers : b.verdict = "retry" =>
            \A i \in push'[d].todo : Before(d, b.op, i)' => Dead(outbox[d][i].row)'
    BY <1>1, <2>1, LastStays
  <2>. QED BY <1>3, <2>2 DEF RetryIsLast, LastOf
<1>11. AnswersFinal(d)'
  BY <1>3 DEF PushOK, AnswersFinal, RecordedFor
<1>12. \A i \in push'[d].todo : push'[d].failed[outbox[d][i].row] # "none" => Doomed(d, i)
  BY <1>1, ReadDooms
<1>13. CASE /\ a.verdict = "retry" /\ UNCHANGED outbox
            /\ push'[d].phase = "reading" /\ push'[d].answers = push[d].answers \ {a}
  <2>1. Sent(d)' = Sent(d) \ {n}
    BY <1>2, <1>4, <1>13, OpsLess
  <2>2. CarriedWait(d)'
    BY <1>2, <1>6, <1>13 DEF CarriedWait, Waits
  <2>3. \A i \in push'[d].todo \cup push'[d].batch : \A j \in Carried(d) :
            Before(d, j, i) /\ Waits(d, j)' => j \in Carried(d)' \/ Dead(outbox[d][i].row)
    <3>1. \A i \in push[d].todo : Before(d, n, i) => Dead(outbox[d][i].row)
      BY <1>13 DEF PushOK, RetryIsLast, LastOf
    <3>2. Carried(d) \ {n} \subseteq Carried(d)'
      BY <1>1, <2>1 DEF Carried
    <3>. QED BY <1>1, <1>2, <3>1, <3>2
  <2>. QED BY <1>1, <1>2, <1>6, <1>8, <1>9, <1>10, <1>11, <1>12, <2>2, <2>3, PushGoesOn
<1>14. ASSUME NEW s \in Status \ {"pending"}, SetStatus(d, n, s),
              push'[d].phase = "reading", push'[d].answers = push[d].answers \ {a}
       PROVE  PushOK(d)'
  <2>1. \A i \in Recorded(d) : outbox'[d][i].status = IF i = n THEN s ELSE outbox[d][i].status
    BY <1>7, <1>14, StatusChange
  <2>2. Sent(d)' = Sent(d) \ {n}
    BY <1>2, <1>4, <1>14, OpsLess
  <2>3. n \notin push[d].todo
    <3>1. n \in Sent(d)
      BY <1>4 DEF OpsOf
    <3>2. n \in push[d].todo => n < n
      BY <3>1 DEF PushOK, SentFirst
    <3>. QED BY <1>7, <3>2 DEF Recorded
  <2>4. Carried(d)' = Carried(d) \ {n}
    BY <1>1, <2>2, <2>3 DEF Carried
  <2>5. CarriedWait(d)'
    BY <1>2, <1>7, <1>14, <2>1, <2>4 DEF CarriedWait, Waits
  <2>6. ~Waits(d, n)'
    BY <1>7, <1>14, <2>1 DEF Waits
  <2>. QED BY <1>1, <1>2, <1>6, <1>8, <1>9, <1>10, <1>11, <1>12, <2>4, <2>5, <2>6, PushGoesOn
<1>15. CASE /\ a.verdict = "conflict" /\ SetStatus(d, n, "conflict")
            /\ push'[d].phase = "overwriting" /\ push'[d].answers = push[d].answers
  <2>1. \A i \in Recorded(d) : outbox'[d][i].status =
            IF i = n THEN "conflict" ELSE outbox[d][i].status
    BY <1>7, <1>15, StatusChange DEF Status
  <2>2. Carried(d)' = Carried(d)
    BY <1>1, <1>4, <1>15 DEF Carried
  <2>3. \A i : IsFirst(d, i) <=> i = n
    <3>1. \A b \in push[d].answers : b.op \in Nat
      BY AtPush DEF Recorded
    <3>. QED BY <1>1, <3>1 DEF IsFirst, FirstAnswer
  <2>4. \A i : IsFirst(d, i)' <=> i = n
    BY <1>15, <2>3 DEF IsFirst
  <2>5. CarriedWait(d)'
    BY <1>2, <1>7, <1>15, <2>1, <2>2, <2>4 DEF CarriedWait, Waits
  <2>. QED BY <1>1, <1>2, <1>8, <1>9, <1>10, <1>11, <1>12, <2>2, <2>5, PushGoesOn
<1>. QED BY <1>1, <1>13, <1>14, <1>15 DEF Status

(* The server's row replaces the local copy. *)
LEMMA OverwritePush ==
    ASSUME Inv, Keeps, NEW d \in Device, PushOK(d),
           NEW a \in push[d].answers, Overwrite(d, a), UNCHANGED processed,
           \A i \in push[d].todo : DoomedStays(d, i)
    PROVE  PushOK(d)'
<1> PICK n : n = a.op
  OBVIOUS
<1>1. /\ FirstAnswer(a, push[d].answers)
      /\ push[d].phase = "overwriting" /\ push'[d].phase = "reading"
      /\ push'[d].todo = push[d].todo /\ push'[d].batch = push[d].batch
      /\ push'[d].failed = push[d].failed
      /\ push'[d].answers = push[d].answers \ {a}
      /\ UNCHANGED outbox
  BY OverwriteDoes
<1>2. push[d].batch = {} /\ OneEach(push[d].answers)
  BY <1>1 DEF PushOK, PhaseTidy
<1>3. Sent(d) = OpsOf(push[d].answers) /\ Sent(d)' = OpsOf(push'[d].answers)
  BY <1>1, <1>2 DEF Sent
<1>4. Sent(d)' = Sent(d) \ {n}
  BY <1>1, <1>2, <1>3, OpsLess
<1>5. n \in Sent(d) /\ n \in Carried(d) /\ n \in Recorded(d)
  BY <1>3, CarriedRecorded DEF Carried, OpsOf
<1>6. IsFirst(d, n) /\ \A i : IsFirst(d, i) => i = n
  <2>1. \A b \in push[d].answers : b.op \in Nat
    BY AtPush DEF Recorded
  <2>. QED BY <1>1, <2>1 DEF IsFirst, FirstAnswer
<1>7. ~Waits(d, n) /\ \A i \in Carried(d) \ {n} : Waits(d, i)
  BY <1>1, <1>5, <1>6 DEF PushOK, CarriedWait
<1>8. n \notin push[d].todo
  <2>1. n \in push[d].todo => n < n
    BY <1>5 DEF PushOK, SentFirst
  <2>. QED BY <1>5, <2>1 DEF Recorded
<1>9. Carried(d)' = Carried(d) \ {n}
  BY <1>1, <1>4, <1>8 DEF Carried
<1>10. PhaseTidy(d)'
  BY <1>1, <1>2 DEF PhaseTidy, OneEach
<1>11. SentFirst(d)'
  BY <1>1, <1>4 DEF PushOK, SentFirst
<1>12. CarriedWait(d)'
  BY <1>1, <1>7, <1>9 DEF CarriedWait, Waits
<1>13. RetryIsLast(d)'
  <2>1. LastOf(d, push[d].answers)
    BY DEF PushOK, RetryIsLast
  <2>2. \A b \in push[d].answers : b.verdict = "retry" =>
            \A i \in push'[d].todo : Before(d, b.op, i)' => Dead(outbox[d][i].row)'
    BY <1>1, <2>1, LastStays
  <2>. QED BY <1>1, <2>2 DEF RetryIsLast, LastOf
<1>14. AnswersFinal(d)'
  BY <1>1 DEF PushOK, AnswersFinal, RecordedFor
<1>15. \A i \in push'[d].todo : push'[d].failed[outbox[d][i].row] # "none" => Doomed(d, i)
  BY <1>1 DEF PushOK, RestDoomed
<1>16. ~Waits(d, n)'
  BY <1>1, <1>7 DEF Waits
<1>. QED BY <1>1, <1>9, <1>10, <1>11, <1>12, <1>13, <1>14, <1>15, <1>16, PushGoesOn

(* The next batch. *)
LEMMA NextBatchPush ==
    ASSUME Inv, Keeps, NEW d \in Device, PushOK(d), NextBatch(d),
           \A i \in push[d].todo : DoomedStays(d, i)
    PROVE  PushOK(d)'
<1>1. /\ push[d].phase = "reading" /\ push[d].answers = {}
      /\ push'[d].phase = "pushing"
      /\ push'[d].todo = push[d].todo /\ push'[d].batch = push[d].batch
      /\ push'[d].failed = push[d].failed
      /\ push'[d].answers = push[d].answers
      /\ UNCHANGED outbox
  BY NextBatchDoes
<1>2. Sent(d)' = Sent(d)
  BY <1>1 DEF Sent
<1>3. Carried(d)' = Carried(d)
  BY <1>1, <1>2 DEF Carried
<1>4. PhaseTidy(d)'
  BY <1>1 DEF PushOK, PhaseTidy, OneEach
<1>5. SentFirst(d)'
  BY <1>1, <1>2 DEF PushOK, SentFirst
<1>6. CarriedWait(d)'
  BY <1>1, <1>3 DEF PushOK, CarriedWait, Waits
<1>7. RetryIsLast(d)' /\ AnswersFinal(d)'
  BY <1>1 DEF RetryIsLast, LastOf, AnswersFinal
<1>8. \A i \in push'[d].todo : push'[d].failed[outbox[d][i].row] # "none" => Doomed(d, i)
  BY <1>1 DEF PushOK, RestDoomed
<1>. QED BY <1>1, <1>3, <1>4, <1>5, <1>6, <1>7, <1>8, PushGoesOn

(* The push is over. *)
LEMMA OverPush ==
    ASSUME Inv, NEW d \in Device, EndPush(d) \/ EndSync(d) \/ LoseConnection(d) \/ KillApp(d)
    PROVE  PushOK(d)'
<1>1. /\ push'[d].phase \in {"idle", "pulling"}
      /\ push'[d].todo = {} /\ push'[d].batch = {} /\ push'[d].answers = {}
  BY OverDoes
<1>2. Sent(d)' = {} /\ Carried(d)' = {}
  BY <1>1 DEF Sent, Carried, OpsOf
<1>. QED BY <1>1, <1>2
   DEF PushOK, PhaseTidy, SentFirst, OneAuthor, CarriedWait, GoesFirst, RetryIsLast, LastOf,
       RestDoomed, AnswersFinal, OneEach

-----------------------------------------------------------------------------
(* The whole invariant, step by step. *)

PushesOK == \A d \in Device : PushOK(d)

(* A form that stays open stands on an op that stays failed. *)
LEMMA FormKept ==
    ASSUME Inv, FormStands,
           \A e \in Device : form'[e] # None => form'[e] = form[e],
           \A e \in Device : \A i \in Recorded(e) :
               outbox[e][i].status \in {"conflict", "dismissed"} =>
                   outbox'[e][i].status \in {"conflict", "dismissed"}
    PROVE  FormStands'
<1> SUFFICES ASSUME NEW e \in Device, form'[e] # None, form'[e].again # 0
             PROVE  outbox'[e][form'[e].again].status \in {"conflict", "dismissed"}
  BY DEF FormStands
<1>1. form'[e] = form[e] /\ form[e].again \in Recorded(e)
  BY DEF Inv, InFlight, FormNamesOp
<1>. QED BY <1>1 DEF FormStands

(* A step that leaves ops, outcomes, pushes, threads and forms alone. *)
LEMMA StepAside ==
    ASSUME HeldInv, Inv', Keeps, UNCHANGED <<outbox, form, push, processed, thread>>
    PROVE  HeldInv'
<1>1. Inv /\ ThreadsOK /\ FormStands /\ \A e \in Device : PushOK(e)
  BY DEF HeldInv
<1>2. NothingNew
  BY OutboxSame DEF NothingNew
<1>3. /\ ThreadsOK'
      /\ \A e \in Device : \A i \in Recorded(e) : DoomedStays(e, i)
  <2>1. \A e \in Device : \A i \in Recorded(e) :
            outbox'[e][i].status \in Failure \cup {"dismissed"} => NeverTaken(e, i)
    BY <1>1 DEF ThreadsOK, StatusesStand
  <2>2. OpsBy(None)
    BY <1>2, NothingNewBy
  <2>. QED BY <1>1, <2>1, <2>2, QuietThreads
<1>4. FormStands'
  BY <1>1 DEF FormStands
<1>5. ASSUME NEW e \in Device
      PROVE  PushOK(e)'
  <2>1. \A i \in push[e].todo : DoomedStays(e, i)
    BY <1>1, <1>3, AtPush
  <2>2. \A i \in Recorded(e) : Waits(e, i) => Waits(e, i)'
    BY DEF Waits
  <2>. QED BY <1>1, <2>1, <2>2, PushAside
<1>. QED BY <1>3, <1>4, <1>5 DEF HeldInv

(* The people at the tills. *)
LEMMA UserHolds ==
    ASSUME HeldInv, Inv', NEW d \in Device, UserStep(d)
    PROVE  HeldInv'
<1>1. Inv /\ ThreadsOK /\ FormStands /\ \A e \in Device : PushOK(e)
  BY DEF HeldInv
<1>2. UserEffect(d) /\ UNCHANGED <<push, cursor, store, feed, processed, thread, faults>>
  BY <1>1, UserDoes
<1>3. SameOps
  BY <1>2 DEF UserEffect
<1>4. Keeps
  BY <1>1, <1>2, <1>3, QuietKeeps
<1>5. OpsBy(d)
  BY <1>2 DEF UserEffect, OpsBy, Recorded
<1>6. \A e \in Device : \A i \in Recorded(e) :
          outbox'[e][i].status = outbox[e][i].status \/ SetAside(e, i)
  BY <1>2 DEF UserEffect
<1>7. /\ ThreadsOK'
      /\ \A e \in Device : \A i \in Recorded(e) : DoomedStays(e, i)
  <2>1. \A e \in Device : \A i \in Recorded(e) :
            outbox'[e][i].status \in Failure \cup {"dismissed"} => NeverTaken(e, i)
    BY <1>1, <1>6 DEF ThreadsOK, StatusesStand, SetAside
  <2>. QED BY <1>1, <1>2, <1>4, <1>5, <2>1, QuietThreads
<1>8. FormStands'
  <2> SUFFICES ASSUME NEW e \in Device, form'[e] # None, form'[e].again # 0
               PROVE  outbox'[e][form'[e].again].status \in {"conflict", "dismissed"}
    BY DEF FormStands
  <2>1. \/ form'[e] = form[e]
        \/ form'[e].again \in Recorded(e) /\ outbox[e][form'[e].again].status = "conflict"
    BY <1>2 DEF UserEffect
  <2>2. /\ form'[e].again \in Recorded(e)
        /\ outbox[e][form'[e].again].status \in {"conflict", "dismissed"}
    BY <1>1, <2>1 DEF Inv, InFlight, FormNamesOp, FormStands
  <2>. QED BY <1>6, <2>2 DEF SetAside
<1>9. ASSUME NEW e \in Device
      PROVE  PushOK(e)'
  <2>1. \A i \in push[e].todo : DoomedStays(e, i)
    BY <1>1, <1>7, AtPush
  <2>2. \A i \in Recorded(e) : Waits(e, i) => Waits(e, i)'
    BY <1>6 DEF Waits, SetAside, Failure
  <2>. QED BY <1>1, <1>2, <1>4, <2>1, <2>2, PushAside
<1>. QED BY <1>7, <1>8, <1>9 DEF HeldInv

(* A step of a device that marks no op but one that waits, and marks that only *)
(* failed if it will not be taken.                                             *)
LEMMA DeviceHolds ==
    ASSUME HeldInv, Inv', NEW d \in Device, NothingNew, UNCHANGED <<store, processed>>,
           \A e \in Device : form'[e] # None => form'[e] = form[e],
           \A h \in Handler : thread'[h] = thread[h] \/ thread'[h] = Free,
           \A e \in Device \ {d} : /\ push'[e] = push[e]
                                   /\ push[e].phase = "waiting" =>
                                         thread'[push[e].on] = thread[push[e].on],
           \A e \in Device : \A i \in Recorded(e) :
               \/ outbox'[e][i].status = outbox[e][i].status
               \/ /\ e = d /\ Waits(e, i)
                  /\ outbox'[e][i].status \in Failure => NeverTaken(e, i)
                  /\ outbox'[e][i].status # "dismissed"
    PROVE  /\ ThreadsOK' /\ Keeps /\ FormStands'
           /\ \A e \in Device \ {d} : PushOK(e)'
           /\ \A i \in Recorded(d) : DoomedStays(d, i)
<1>1. Inv /\ ThreadsOK /\ FormStands /\ \A e \in Device : PushOK(e)
  BY DEF HeldInv
<1>2. Keeps
  BY <1>1, QuietKeeps DEF NothingNew
<1>3. OpsBy(d)
  BY NothingNewBy
<1>4. /\ ThreadsOK'
      /\ \A e \in Device : \A i \in Recorded(e) : DoomedStays(e, i)
  <2>1. \A e \in Device : \A i \in Recorded(e) :
            outbox'[e][i].status \in Failure \cup {"dismissed"} => NeverTaken(e, i)
    BY <1>1 DEF ThreadsOK, StatusesStand
  <2>. QED BY <1>1, <1>2, <1>3, <2>1, QuietThreads
<1>5. FormStands'
  <2>1. \A e \in Device : \A i \in Recorded(e) :
            outbox[e][i].status \in {"conflict", "dismissed"} =>
                outbox'[e][i].status \in {"conflict", "dismissed"}
    BY DEF Waits
  <2>. QED BY <1>1, <2>1, FormKept
<1>6. ASSUME NEW e \in Device \ {d}
      PROVE  PushOK(e)'
  <2>1. \A i \in push[e].todo : DoomedStays(e, i)
    BY <1>1, <1>4, AtPush
  <2>2. \A i \in Recorded(e) : Waits(e, i) => Waits(e, i)'
    BY DEF Waits
  <2>. QED BY <1>1, <1>2, <2>1, <2>2, PushAside
<1>. QED BY <1>2, <1>4, <1>5, <1>6

(* A sync begins, goes on or ends. *)
LEMMA SyncHolds ==
    ASSUME HeldInv, Inv', NEW d \in Device,
           \/ SyncStep(d) \/ LoseConnection(d) \/ KillApp(d)
           \/ \E u \in User : StartSync(d, u)
    PROVE  HeldInv'
<1>1. Inv /\ ThreadsOK /\ InTurn /\ FormStands /\ PushOK(d) /\ \A e \in Device : PushOK(e)
  BY DEF HeldInv, ThreadsOK
<1>2. push[d].todo \subseteq Recorded(d) /\ TypeOK /\ \A a \in push[d].answers : a.op \in Recorded(d)
  BY <1>1, AtPush DEF Inv
<1> DEFINE Quiet == /\ ThreadsOK' /\ Keeps /\ FormStands'
                    /\ \A e \in Device \ {d} : PushOK(e)'
                    /\ \A i \in Recorded(d) : DoomedStays(d, i)
(* Steps that leave the outbox and the threads alone. *)
<1>3. ASSUME UNCHANGED <<outbox, store, processed, thread>>,
             \A e \in Device \ {d} : push'[e] = push[e],
             \A e \in Device : form'[e] # None => form'[e] = form[e]
      PROVE  Quiet
  BY <1>3, OutboxSame, DeviceHolds DEF NothingNew
(* Steps that mark one op. *)
<1>4. ASSUME NEW n \in Recorded(d), NEW s \in Status, SetStatus(d, n, s), Waits(d, n),
             s \in Failure => NeverTaken(d, n), s \notin {"pending", "dismissed"},
             UNCHANGED <<store, processed, thread, form>>,
             \A e \in Device \ {d} : push'[e] = push[e]
      PROVE  Quiet
  <2>1. NothingNew
    BY <1>2, <1>4, Marked, MarkedKeeps DEF NothingNew
  <2>2. \A e \in Device : \A i \in Recorded(e) :
            outbox'[e][i].status = IF e = d /\ i = n THEN s ELSE outbox[e][i].status
    BY <1>2, <1>4, StatusChange
  <2>3. \A e \in Device : \A i \in Recorded(e) :
            \/ outbox'[e][i].status = outbox[e][i].status
            \/ /\ e = d /\ Waits(e, i)
               /\ outbox'[e][i].status \in Failure => NeverTaken(e, i)
               /\ outbox'[e][i].status # "dismissed"
    BY <1>4, <2>2
  <2>. QED BY <1>4, <2>1, <2>3, DeviceHolds
<1> HIDE DEF Quiet
<1>5. ASSUME Quiet, PushOK(d)'
      PROVE  HeldInv'
  BY <1>5 DEF Quiet, HeldInv
<1>6. Quiet => /\ ThreadsOK' /\ Keeps /\ \A i \in push[d].todo : DoomedStays(d, i)
  BY <1>2 DEF Quiet
<1>7. ASSUME NEW u \in User, StartSync(d, u)
      PROVE  HeldInv'
  <2>1. Quiet
    BY <1>1, <1>3, <1>7, StartSyncDoes
  <2>2. PushOK(d)'
    BY <1>1, <1>7, StartSyncPush
  <2>. QED BY <1>5, <2>1, <2>2
<1>8. ASSUME EndPush(d) \/ EndSync(d) \/ LoseConnection(d) \/ KillApp(d)
      PROVE  HeldInv'
  <2>1. /\ \A e \in Device \ {d} : push'[e] = push[e]
        /\ form' = form \/ form' = [form EXCEPT ![d] = None]
        /\ UNCHANGED <<outbox, store, processed, thread>>
    BY <1>1, <1>8, OverDoes
  <2>2. \A e \in Device : form'[e] # None => form'[e] = form[e]
    BY <1>2, <2>1 DEF TypeOK
  <2>3. Quiet
    BY <1>3, <2>1, <2>2
  <2>4. PushOK(d)'
    BY <1>1, <1>8, OverPush
  <2>. QED BY <1>5, <2>3, <2>4
<1>9. ASSUME NEW n \in push[d].todo, FillBatch(d, n)
      PROVE  HeldInv'
  <2> PICK verdict : verdict = push[d].failed[outbox[d][n].row]
    OBVIOUS
  <2>1. /\ push[d].phase = "pushing"
        /\ \/ UNCHANGED outbox
           \/ verdict # "none" /\ verdict \in Failure /\ SetStatus(d, n, verdict)
        /\ \A e \in Device \ {d} : push'[e] = push[e]
        /\ UNCHANGED <<form, store, processed, thread>>
    BY <1>1, <1>9, FillBatchDoes
  <2>2. Quiet
    <3>1. CASE UNCHANGED outbox
      BY <1>3, <2>1, <3>1
    <3>2. CASE verdict # "none" /\ verdict \in Failure /\ SetStatus(d, n, verdict)
      <4>1. NeverTaken(d, n)
        BY <1>1, <3>2 DEF PushOK, RestDoomed, NeverTaken
      <4>2. Waits(d, n)
        BY <1>1, <2>1 DEF PushOK, CarriedWait, Carried
      <4>3. verdict \in Status /\ verdict \notin {"pending", "dismissed"}
        BY <3>2 DEF Failure, Status
      <4>. QED BY <1>2, <1>4, <2>1, <3>2, <4>1, <4>2, <4>3
    <3>. QED BY <2>1, <3>1, <3>2
  <2>3. PushOK(d)'
    BY <1>1, <1>6, <1>9, <2>2, FillBatchPush
  <2>. QED BY <1>5, <2>2, <2>3
<1>10. ASSUME NEW h \in Handler, SendBatch(d, h)
       PROVE  HeldInv'
  <2>1. /\ push[d].phase = "pushing"
        /\ thread[h] = Free
        /\ \A g \in Handler \ {h} : thread'[g] = thread[g]
        /\ \A e \in Device \ {d} : push'[e] = push[e]
        /\ UNCHANGED <<outbox, form>>
    BY <1>1, <1>10, SendBatchDoes
  <2>2. /\ ThreadsOK' /\ Keeps
        /\ \A e \in Device : \A i \in Recorded(e) :
              ~(e = d /\ i \in push[d].batch) => DoomedStays(e, i)
    BY <1>1, <1>10, SendThreads
  <2>3. FormStands'
    BY <1>1, <2>1 DEF FormStands
  <2>4. ASSUME NEW e \in Device \ {d}
        PROVE  PushOK(e)'
    <3>1. push[e].phase = "waiting" => thread'[push[e].on] = thread[push[e].on]
      <4>1. Free.phase = "free"
        BY DEF Free
      <4>. QED BY <1>1, <2>1, <4>1 DEF Inv, InFlight, WaitsOnItsThread
    <3>2. \A i \in push[e].todo : DoomedStays(e, i)
      BY <1>1, <2>2, AtPush
    <3>3. \A i \in Recorded(e) : Waits(e, i) => Waits(e, i)'
      BY <2>1 DEF Waits
    <3>. QED BY <1>1, <2>1, <2>2, <3>1, <3>2, <3>3, PushAside
  <2>5. PushOK(d)'
    <3>1. \A i \in push[d].todo : i \notin push[d].batch
      <4>1. push[d].batch \subseteq Sent(d)
        BY <2>1 DEF Sent
      <4>2. \A i \in push[d].todo : i \in push[d].batch => i < i
        BY <1>1, <4>1 DEF PushOK, SentFirst
      <4>. QED BY <1>2, <4>2 DEF Recorded
    <3>2. \A i \in push[d].todo : DoomedStays(d, i)
      BY <1>2, <2>2, <3>1
    <3>. QED BY <1>1, <1>10, <2>2, <3>2, SendBatchPush
  <2>. QED BY <2>2, <2>3, <2>4, <2>5 DEF HeldInv
<1>11. ASSUME ReceiveAnswers(d)
       PROVE  HeldInv'
  <2> PICK h \in Handler : h = push[d].on
    BY <1>1, <1>11, ReceiveAnswersDoes
  <2>1. /\ thread[h].dev = d /\ thread'[h] = Free
        /\ \A g \in Handler \ {h} : thread'[g] = thread[g]
        /\ \A e \in Device \ {d} : push'[e] = push[e]
        /\ UNCHANGED <<outbox, form, store, processed>>
    BY <1>1, <1>11, ReceiveAnswersDoes
  <2>2. \A e \in Device \ {d} :
            push[e].phase = "waiting" => thread'[push[e].on] = thread[push[e].on]
    BY <1>1, <2>1 DEF Inv, InFlight, WaitsOnItsThread
  <2>3. \A g \in Handler : thread'[g] = thread[g] \/ thread'[g] = Free
    BY <2>1
  <2>4. Quiet
    BY <2>1, <2>2, <2>3, OutboxSame, DeviceHolds DEF NothingNew, Quiet
  <2>5. PushOK(d)'
    BY <1>1, <1>6, <1>11, <2>1, <2>4, ReceivePush
  <2>. QED BY <1>5, <2>4, <2>5
<1>12. ASSUME NEW a \in push[d].answers, ReadAnswer(d, a)
       PROVE  HeldInv'
  <2> PICK n \in Recorded(d) : n = a.op
    BY <1>2
  <2>1. /\ push[d].phase = "reading"
        /\ \/ UNCHANGED outbox
           \/ a.verdict = "applied" /\ SetStatus(d, n, "acked")
           \/ a.verdict \in Failure /\ SetStatus(d, n, a.verdict)
        /\ \A e \in Device \ {d} : push'[e] = push[e]
        /\ UNCHANGED <<form, store, processed, thread>>
    BY <1>1, <1>12, ReadAnswerDoes DEF Failure
  <2>2. Waits(d, n)
    BY <1>1, <2>1 DEF PushOK, CarriedWait, Carried, Sent, OpsOf
  <2>3. Quiet
    <3>1. CASE UNCHANGED outbox
      BY <1>3, <2>1, <3>1
    <3>2. CASE a.verdict = "applied" /\ SetStatus(d, n, "acked")
      BY <1>4, <2>1, <2>2, <3>2 DEF Status, Failure
    <3>3. CASE a.verdict \in Failure /\ SetStatus(d, n, a.verdict)
      <4>1. NeverTaken(d, n)
        BY <1>1, <3>3 DEF PushOK, AnswersFinal, RecordedFor, NeverTaken, Failure
      <4>2. a.verdict \in Status /\ a.verdict \notin {"pending", "dismissed"}
        BY <3>3 DEF Failure, Status
      <4>. QED BY <1>4, <2>1, <2>2, <3>3, <4>1, <4>2
    <3>. QED BY <2>1, <3>1, <3>2, <3>3
  <2>4. PushOK(d)'
    BY <1>1, <1>6, <1>12, <2>1, <2>3, ReadPush
  <2>. QED BY <1>5, <2>3, <2>4
<1>13. ASSUME NEW a \in push[d].answers, Overwrite(d, a)
       PROVE  HeldInv'
  <2>1. /\ \A e \in Device \ {d} : push'[e] = push[e]
        /\ UNCHANGED <<outbox, form, store, processed, thread>>
    BY <1>1, <1>13, OverwriteDoes
  <2>2. Quiet
    BY <1>3, <2>1
  <2>3. PushOK(d)'
    BY <1>1, <1>6, <1>13, <2>1, <2>2, OverwritePush
  <2>. QED BY <1>5, <2>2, <2>3
<1>14. ASSUME NextBatch(d)
       PROVE  HeldInv'
  <2>1. /\ \A e \in Device \ {d} : push'[e] = push[e]
        /\ UNCHANGED <<outbox, form, store, processed, thread>>
    BY <1>1, <1>14, NextBatchDoes
  <2>2. Quiet
    BY <1>3, <2>1
  <2>3. PushOK(d)'
    BY <1>1, <1>6, <1>14, <2>2, NextBatchPush
  <2>. QED BY <1>5, <2>2, <2>3
<1>15. ASSUME PullChange(d)
       PROVE  HeldInv'
  <2>1. UNCHANGED <<outbox, form, push, store, processed, thread>>
    BY <1>1, <1>15, PullChangeDoes
  <2>2. Keeps
    BY <1>1, <2>1, OutboxSame, QuietKeeps
  <2>. QED BY <2>1, <2>2, StepAside
<1>. QED
  BY <1>7, <1>8, <1>9, <1>10, <1>11, <1>12, <1>13, <1>14, <1>15 DEF SyncStep

(* A step of a thread, when what is refused for now is the last of its row. *)
LEMMA ServerHolds ==
    ASSUME HeldInv, HeldBack, Inv', NEW h \in Handler, ServerStep(h)
    PROVE  HeldInv'
<1>1. Inv /\ ThreadsOK /\ FormStands /\ \A e \in Device : PushOK(e)
  BY DEF HeldInv
<1>2. /\ ThreadEffect(h)
      /\ \A g \in Handler \ {h} : thread'[g] = thread[g]
      /\ UNCHANGED <<outbox, form, push>>
  BY <1>1, ServerDoes
<1>3. /\ ThreadsOK' /\ Keeps
      /\ \A e \in Device : \A i \in Recorded(e) : DoomedStays(e, i)
  BY <1>1, <1>2, ServerThreads
<1>4. FormStands'
  BY <1>1, <1>2 DEF FormStands
<1>5. ASSUME NEW e \in Device
      PROVE  PushOK(e)'
  <2>1. \A i \in push[e].todo : DoomedStays(e, i)
    BY <1>1, <1>3, AtPush
  <2>. QED BY <1>1, <1>2, <1>3, <2>1, PushAwaits
<1>. QED BY <1>3, <1>4, <1>5 DEF HeldInv

(* A write through the REST API is of a row that is there. *)
LEMMA RestHolds ==
    ASSUME HeldInv, Inv', NEW r \in Row, RestEdit(r)
    PROVE  HeldInv'
<1>1. Inv
  BY DEF HeldInv
<1>2. /\ store[r].version > 0
      /\ Write(r, <<Rest, faults.rest + 1>>)
      /\ UNCHANGED <<outbox, local, form, push, cursor, processed, thread>>
  BY DEF RestEdit, clientVars
<1>3. \A q \in Row : Dead(q) => store'[q].version = 0
  <2>1. \A q \in Row : q # r => store'[q] = store[q]
    BY <1>1, <1>2 DEF Write, Inv, TypeOK
  <2>2. ~Dead(r)
    BY <1>2 DEF Dead
  <2>. QED BY <2>1, <2>2 DEF Dead
<1>4. SameOps /\ OutcomesAreFinal
  BY <1>2, OutboxSame DEF OutcomesAreFinal
<1>5. Keeps
  BY <1>1, <1>3, <1>4, DeadKept DEF Keeps
<1>. QED BY <1>2, <1>5, StepAside

(* The invariant holds at the start. *)
LEMMA InitiallyHeld == Init => HeldInv
<1> SUFFICES ASSUME Init PROVE HeldInv
  OBVIOUS
<1>1. Inv
  BY Initially
<1>2. \A d \in Device : Recorded(d) = {}
  BY DEF Init, Recorded
<1>3. \A h \in Handler : thread[h].phase = "free" /\ thread[h].todo = {} /\ thread[h].answers = {}
  BY DEF Init, Free
<1>4. \A d \in Device : /\ push[d].phase = "idle" /\ push[d].todo = {} /\ push[d].batch = {}
                        /\ push[d].answers = {}
  BY DEF Init, Idle
<1>5. \A d \in Device : \A i \in 1..MaxOps : processed[<<d, i>>] = "none"
  BY DEF Init, OpId
<1>6. ThreadsOK
  BY <1>2, <1>3, <1>5
     DEF ThreadsOK, InsertIsFirst, OutcomesOfRecorded, ThreadTidy, OneEach, NotBroke, InTurn,
         StatusesStand, ThreadAnswersFinal
<1>7. FormStands
  BY DEF Init, FormStands
<1>8. ASSUME NEW d \in Device
      PROVE  PushOK(d)
  <2>1. Sent(d) = {} /\ Carried(d) = {}
    BY <1>4 DEF Sent, Carried, OpsOf
  <2>. QED BY <1>4, <2>1
     DEF PushOK, PhaseTidy, SentFirst, OneAuthor, CarriedWait, GoesFirst, RetryIsLast, LastOf,
         RestDoomed, AnswersFinal, OneEach
<1>. QED BY <1>1, <1>6, <1>7, <1>8 DEF HeldInv

(* The invariant holds as long as the condition does. *)
LEMMA HeldNext ==
    ASSUME HeldInv, [Next /\ HeldBack]_vars PROVE HeldInv'
<1>0. Inv
  BY DEF HeldInv
<1>1. CASE UNCHANGED vars
  <2>1. Inv'
    BY <1>0, <1>1, Stuttering
  <2>2. UNCHANGED <<outbox, form, push, store, processed, thread>>
    BY <1>1 DEF vars
  <2>3. Keeps
    BY <1>0, <2>2, OutboxSame, QuietKeeps
  <2>. QED BY <2>1, <2>2, <2>3, StepAside
<1>2. CASE Next /\ HeldBack
  <2>1. ASSUME NEW d \in Device, UserStep(d)
        PROVE  HeldInv'
    BY <1>0, <2>1, UserSteps, UserHolds
  <2>2. ASSUME NEW d \in Device, SyncStep(d)
        PROVE  HeldInv'
    BY <1>0, <2>2, SyncSteps, SyncHolds
  <2>3. ASSUME NEW d \in Device,
               LoseConnection(d) \/ KillApp(d) \/ \E u \in User : StartSync(d, u)
        PROVE  HeldInv'
    BY <1>0, <2>3, OtherSteps, SyncHolds
  <2>4. ASSUME NEW h \in Handler, ServerStep(h)
        PROVE  HeldInv'
    BY <1>0, <1>2, <2>4, ServerSteps, ServerHolds
  <2>5. ASSUME NEW r \in Row, RestEdit(r)
        PROVE  HeldInv'
    BY <1>0, <2>5, RestEditStep, RestHolds
  <2>. QED BY <1>2, <2>1, <2>2, <2>3, <2>4, <2>5 DEF Next
<1>. QED BY <1>1, <1>2

(* What a device tells its user is what happened: an op it shows as synced is  *)
(* on the server, one in the review list or set aside never took effect, as    *)
(* long as what the server refuses for now has nothing behind it on its row    *)
(* (pushPending against processed_ops).                                        *)
THEOREM StatusesAreTrue == Spec /\ [][HeldBack]_vars => []StatusIsTrue
<1>1. Init => HeldInv
  BY InitiallyHeld
<1>2. HeldInv /\ [Next]_vars /\ [HeldBack]_vars => HeldInv'
  <2> SUFFICES ASSUME HeldInv, [Next]_vars, [HeldBack]_vars PROVE HeldInv'
    OBVIOUS
  <2>1. [Next /\ HeldBack]_vars
    OBVIOUS
  <2>. QED BY <2>1, HeldNext
<1>3. HeldInv => \A d \in Device : \A i \in DOMAIN outbox[d] :
          outbox[d][i].status \in Failure \cup {"dismissed"} => WrittenBy(<<d, i>>) = {}
  <2> SUFFICES ASSUME HeldInv, NEW d \in Device, NEW i \in DOMAIN outbox[d],
                      outbox[d][i].status \in Failure \cup {"dismissed"}
               PROVE  WrittenBy(<<d, i>>) = {}
    OBVIOUS
  <2>1. Inv /\ ThreadsOK
    BY DEF HeldInv
  <2>2. i \in Recorded(d)
    BY <2>1 DEF Inv, TypeOK, Recorded
  <2>3. processed[<<d, i>>] # "applied"
    BY <2>1, <2>2 DEF ThreadsOK, StatusesStand, NeverTaken, Doomed, Failure
  <2>4. <<d, i>> \in OpId
    BY <2>1, <2>2, OpTyped
  <2>. QED BY <2>1, <2>3, <2>4 DEF Inv, AppliedOnce
<1>4. Spec => []SyncedIsWritten
  BY SyncedWasWritten
<1>5. HeldInv /\ SyncedIsWritten => StatusIsTrue
  BY <1>3 DEF StatusIsTrue
<1>. QED BY <1>1, <1>2, <1>4, <1>5, PTL DEF Spec

(* Every row is on the server. *)
Present == \A r \in Row : store[r].version > 0

(* Rows stay on the server. *)
LEMMA PresentStays ==
    ASSUME Inv, Present, [Next]_vars PROVE Present'
<1> SUFFICES ASSUME NEW r \in Row PROVE store'[r].version > 0
  BY DEF Present
<1>1. store[r].version > 0 /\ store[r].version \in Nat
  BY DEF Present, Inv, TypeOK, View
<1>2. ASSUME NEW q \in Row, NEW w, Write(q, w)
      PROVE  store'[r].version > 0
  BY <1>1, <1>2 DEF Write, Inv, TypeOK
<1>3. ASSUME NEW h \in Handler, ServerStep(h)
      PROVE  store'[r].version > 0
  <2>1. ThreadEffect(h)
    BY <1>3, ServerDoes
  <2>2. \/ store' = store
        \/ \E i \in thread[h].todo : Write(OpOf(h, i).row, IdOf(h, i))
    BY <2>1 DEF ThreadEffect, TurnsTo, ThreadEnds, AnswersOp, Records
  <2>3. \A i \in thread[h].todo : OpOf(h, i).row \in Row
    BY AtWork DEF Inv, Op
  <2>. QED BY <1>1, <1>2, <2>2, <2>3
<1>4. CASE \E q \in Row : RestEdit(q)
  BY <1>2, <1>4 DEF RestEdit
<1>5. CASE store' = store
  BY <1>1, <1>5
<1>6. ASSUME NEW d \in Device,
             \/ UserStep(d) \/ SyncStep(d) \/ LoseConnection(d) \/ KillApp(d)
             \/ \E u \in User : StartSync(d, u)
      PROVE  store' = store
  BY <1>6 DEF UserStep, SyncStep, CreateRow, OpenForm, SaveForm, CancelForm, RetryConflict, Dismiss,
              FillBatch, SendBatch, EndPush, ReceiveAnswers, ReadAnswer, Overwrite, NextBatch,
              PullChange, EndSync, LoseConnection, KillApp, StartSync, serverVars
<1>7. CASE UNCHANGED vars
  BY <1>5, <1>7 DEF vars
<1>. QED BY <1>3, <1>4, <1>5, <1>6, <1>7 DEF Next

(* Of rows the server has, and with nothing refused for now, the condition holds. *)
LEMMA KnownRowsHeldBack ==
    ASSUME SeededRow = Row, TransientRefusals = {}
    PROVE  Spec => [][HeldBack]_vars
<1>1. Init => Present
  BY DEF Init, Present, Seeded
<1>2. Inv /\ Present /\ [Next]_vars => Present'
  BY PresentStays
<1>3. Inv /\ Present => HeldBack
  <2> SUFFICES ASSUME Inv, Present, NEW h \in Handler, NEW i \in thread[h].todo
               PROVE  ~RefuseForNow(h, i) /\ ~NotThereYet(h, i)
    BY DEF HeldBack
  <2>1. OpOf(h, i).row \in Row
    BY AtWork DEF Inv, Op
  <2>2. store[OpOf(h, i).row].version # 0
    BY <2>1 DEF Present, Inv, TypeOK, View
  <2>. QED BY <2>2 DEF RefuseForNow, NotThereYet
<1>4. Spec => []Inv
  BY Invariant
<1>5. Inv /\ Present => [HeldBack]_vars
  BY <1>3
<1>. QED BY <1>1, <1>2, <1>4, <1>5, PTL DEF Spec

(* Edits of rows the server has, with nothing refused for now: what the device *)
(* tells its user is what happened, whatever else happens.                     *)
THEOREM EditsOfKnownRows ==
    ASSUME SeededRow = Row, TransientRefusals = {}
    PROVE  Spec => []StatusIsTrue
<1>1. Spec => [][HeldBack]_vars
  BY KnownRowsHeldBack
<1>2. Spec /\ [][HeldBack]_vars => []StatusIsTrue
  BY StatusesAreTrue
<1>. QED BY <1>1, <1>2, PTL

-----------------------------------------------------------------------------
(***************************************************************************)
(* What a device writes on is what the server has: no edit overwrites a    *)
(* write its author had not seen (NoUnseenOverwrite), and a device that    *)
(* has caught up holds the server's rows (DeviceAgrees).                   *)
(*                                                                         *)
(* Three conditions on the behaviour, HeldBack and the two below, and two  *)
(* on the constants: no form is open while a device syncs, and only        *)
(* inserts are refused for good.  Each keeps out a way to overwrite what   *)
(* nobody saw that the code leaves open.                                   *)
(***************************************************************************)

(* A sync that stops has written every server row it was given, and leaves no *)
(* op unmarked whose row failed.                                              *)
CleanStop ==
    \A d \in Device : LoseConnection(d) \/ KillApp(d) =>
        /\ push[d].phase # "overwriting"
        /\ \A i \in push[d].todo : push[d].failed[outbox[d][i].row] = "none"

(* Nobody edits on top of what another user of the device has not synced yet. *)
OwnChain ==
    \A d \in Device, u \in User : SaveForm(d, u) =>
        \A j \in Recorded(d) : form[d].view.by = <<d, j>> /\ Waits(d, j) => outbox[d][j].actor = u

(* What the server has held of a row: what it began with, or an image in the feed. *)
ServerHad(r, v) ==
    \/ v = Seeded(r)
    \/ \E n \in DOMAIN feed :
          feed[n].row = r /\ v = [version |-> feed[n].version, by |-> feed[n].by]

(* Along the feed the versions of a row rise, up to the row itself. *)
FeedRises ==
    \A n \in DOMAIN feed :
        LET c == feed[n] IN
        /\ Seeded(c.row).version < c.version
        /\ c.version <= store[c.row].version
        /\ \A m \in DOMAIN feed : m < n /\ feed[m].row = c.row => feed[m].version < c.version
StoreIsLast == \A r \in Row : ServerHad(r, store[r])

(* An op is written one version past the one it was made on. *)
WrittenOnBase ==
    \A n \in DOMAIN feed : \A d \in Device : \A j \in Recorded(d) : feed[n].by = <<d, j>> =>
        feed[n].row = outbox[d][j].row /\ feed[n].version = outbox[d][j].base + 1

FeedKnown == FeedRises /\ StoreIsLast /\ WrittenOnBase

(* An insert is taken as soon as its row is there; until then the ops of a row *)
(* are those of the device that inserts it.                                    *)
HasInsert(d, r) == \E k \in Recorded(d) : outbox[d][k].row = r /\ outbox[d][k].kind = "insert"
InsertKnown(d, k) ==
    outbox[d][k].kind = "insert" =>
        /\ outbox[d][k].base = 0 /\ outbox[d][k].parent = Origin
        /\ store[outbox[d][k].row].version > 0 => processed[<<d, k>>] = "applied"
        /\ processed[<<d, k>>] # "conflict"
EditKnown(d, k) == outbox[d][k].kind = "update" => outbox[d][k].base > 0
OpKnown(d, k) ==
    /\ InsertKnown(d, k) /\ EditKnown(d, k)
    /\ store[outbox[d][k].row].version = 0 => HasInsert(d, outbox[d][k].row)
    /\ processed[<<d, k>>] = "rejected" => Dead(outbox[d][k].row)
OpsKnown == \A d \in Device : \A k \in Recorded(d) : OpKnown(d, k)

(* Nothing is refused for now behind an op that broke its row. *)
Breaks(d, a) == BreaksChain(outbox[d][a.op].kind, a.verdict)
BrokenStaysBroken(d, answers) ==
    \A a, b \in answers : Before(d, a.op, b.op) /\ Breaks(d, a) => b.verdict # "retry"
Current(d, answers) == \A a \in answers : ServerHad(outbox[d][a.op].row, a.current)

(* A thread answers in order, and a row is broken if it answered so. *)
ThreadKnown(h) ==
    LET t == thread[h]
        d == t.dev IN
    t.phase # "free" =>
        /\ \A a \in t.answers : \A i \in t.todo : a.op < i
        /\ Current(d, t.answers)
        /\ BrokenStaysBroken(d, t.answers)
        /\ \A a \in t.answers : Breaks(d, a) => Broke(h, outbox[d][a.op].row)
        /\ \A r \in Row : Broke(h, r) =>
              \E a \in t.answers : outbox[d][a.op].row = r /\ a.verdict = t.failed[r]
        /\ t.phase = "settle" => \A i \in t.todo : First(i, t.todo) =>
              /\ t.verdict = "rejected" => outbox[d][i].kind = "insert" \/ Dead(outbox[d][i].row)
              /\ t.verdict = "conflict" =>
                    outbox[d][i].kind = "update" \/ processed[<<d, i>>] = "applied"

(* With an op, all that wait behind it on its row are in the push. *)
AllGo(d) == \A j \in Carried(d), i \in Recorded(d) : Before(d, j, i) /\ Waits(d, i) => i \in Carried(d)

(* The device is about to replace its copy of the row. *)
Overwriting(d, r) ==
    push[d].phase = "overwriting" /\ \E i \in Recorded(d) : IsFirst(d, i) /\ outbox[d][i].row = r
FailedKnown(d) ==
    \A r \in Row :
        /\ push[d].failed[r] = "conflict" => ServerHad(r, local[d][r]) \/ Overwriting(d, r)
        /\ push[d].failed[r] = "rejected" => Dead(r)
        /\ push[d].phase = "idle" => push[d].failed[r] = "none"

PushKnown(d) ==
    /\ AllGo(d) /\ FailedKnown(d)
    /\ Current(d, push[d].answers)
    /\ BrokenStaysBroken(d, push[d].answers)

(* A device's copy of a row is one the server had, or its own edit that waits *)
(* or was taken, or it is about to be replaced.                               *)
Taken(d, j) == processed[<<d, j>>] = "applied"
Own(d, r, v, j) == outbox[d][j].row = r /\ v = [version |-> outbox[d][j].base + 1, by |-> <<d, j>>]
Alive(d, j) == Waits(d, j) \/ Taken(d, j) \/ Dead(outbox[d][j].row)
OwnCopy(d, r, v) == \E j \in Recorded(d) : Own(d, r, v, j) /\ Alive(d, j)
LocalKnown(d) ==
    \A r \in Row : ServerHad(r, local[d][r]) \/ Overwriting(d, r) \/ OwnCopy(d, r, local[d][r])
FormKnown(d) ==
    form[d] # None =>
        /\ push[d].phase = "idle"
        /\ form[d].view = local[d][form[d].row] /\ form[d].view.version > 0

(* An edit was made on what the server had, or on an edit by the same author   *)
(* that goes before it: it is taken only after that one, and fails if that one *)
(* fails.                                                                      *)
MadeOn(d, j, i) ==
    Before(d, j, i) /\ outbox[d][i].parent = <<d, j>> /\ outbox[d][i].base = outbox[d][j].base + 1
Follows(d, j, i) ==
    \/ Taken(d, j)
    \/ /\ ~Taken(d, i)
       /\ Waits(d, i) /\ processed[<<d, i>>] = "none" =>
             \/ Waits(d, j)
             \/ i \in push[d].todo /\ push[d].failed[outbox[d][i].row] # "none"
Parented(d, i) ==
    outbox[d][i].kind = "update" =>
        \/ ServerHad(outbox[d][i].row, [version |-> outbox[d][i].base, by |-> outbox[d][i].parent])
        \/ Dead(outbox[d][i].row)
        \/ \E j \in Recorded(d) : MadeOn(d, j, i) /\ Follows(d, j, i)

(* A device does not fall back behind what it has read. *)
Seen(d, r, v) ==
    \A n \in DOMAIN feed : n <= cursor[d] /\ feed[n].row = r => feed[n].version <= v.version
SeenIn(d, answers) == \A a \in answers : Seen(d, outbox[d][a.op].row, a.current)
SeenKnown(d) ==
    /\ cursor[d] <= Len(feed)
    /\ \A r \in Row : Seen(d, r, local[d][r])
    /\ SeenIn(d, push[d].answers)
    /\ push[d].phase = "waiting" => SeenIn(d, thread[push[d].on].answers)

DeviceKnown(d) == PushKnown(d) /\ LocalKnown(d) /\ FormKnown(d) /\ SeenKnown(d)

KnownInv ==
    /\ FeedKnown /\ OpsKnown
    /\ \A h \in Handler : ThreadKnown(h)
    /\ \A d \in Device : DeviceKnown(d)
    /\ \A d \in Device : \A i \in Recorded(d) : Parented(d, i)

-----------------------------------------------------------------------------
(* What stays: the feed only grows. *)

FeedGrows ==
    /\ DOMAIN feed \subseteq DOMAIN feed'
    /\ \A n \in DOMAIN feed : feed'[n] = feed[n]

Steady == Keeps /\ FeedGrows

(* A feed that stays. *)
LEMMA FeedSame == ASSUME UNCHANGED feed PROVE FeedGrows
BY DEF FeedGrows

(* The positions of the feed are numbers. *)
LEMMA FeedPlaces ==
    ASSUME Inv
    PROVE  /\ feed \in Seq(Change) /\ DOMAIN feed = 1..Len(feed) /\ Len(feed) \in Nat
           /\ \A n \in DOMAIN feed : n \in Nat /\ feed[n] \in Change /\ feed[n].row \in Row
                                     /\ feed[n].version \in Nat /\ feed[n].by \in Writer
<1>1. feed \in Seq(Change) /\ DOMAIN feed = 1..Len(feed) /\ Len(feed) \in Nat
  BY DEF Inv, TypeOK
<1>2. \A n \in DOMAIN feed : n \in Nat /\ feed[n] \in Change
  BY <1>1, ElementOfSeq
<1>. QED BY <1>1, <1>2 DEF Change

(* What a write does. *)
LEMMA WriteDoes ==
    ASSUME Inv, NEW r \in Row, NEW w, Write(r, w)
    PROVE  LET n == Len(feed) + 1
               v == store[r].version IN
           /\ v \in Nat
           /\ DOMAIN feed' = DOMAIN feed \cup {n} /\ n \notin DOMAIN feed
           /\ \A m \in DOMAIN feed : m < n /\ feed'[m] = feed[m]
           /\ feed'[n].row = r /\ feed'[n].version = v + 1 /\ feed'[n].by = w
           /\ store'[r] = [version |-> v + 1, by |-> w]
           /\ \A q \in Row \ {r} : store'[q] = store[q]
           /\ Len(feed') = n
           /\ FeedGrows
<1> DEFINE v == store[r].version
           c == [row |-> r, version |-> v + 1, by |-> w]
<1>1. v \in Nat
  BY DEF Inv, TypeOK, View
<1>2. feed' = Append(feed, c) /\ store' = [store EXCEPT ![r] = [version |-> v + 1, by |-> w]]
  BY DEF Write
<1>3. c.row = r /\ c.version = v + 1 /\ c.by = w
  OBVIOUS
<1> HIDE DEF c
<1>4. feed \in Seq(Change) /\ DOMAIN feed = 1..Len(feed) /\ Len(feed) \in Nat
  BY FeedPlaces
<1> PICK n : n = Len(feed) + 1
  OBVIOUS
<1>5. Len(feed') = n /\ DOMAIN feed' = 1..n /\ feed'[n] = c /\ \A m \in 1..Len(feed) : feed'[m] = feed[m]
  BY <1>2, <1>4
<1>6. 1..n = (1..Len(feed)) \cup {n} /\ n \notin 1..Len(feed) /\ \A m \in 1..Len(feed) : m < n
  BY <1>4
<1>7. store'[r] = [version |-> v + 1, by |-> w] /\ \A q \in Row \ {r} : store'[q] = store[q]
  BY <1>2 DEF Inv, TypeOK
<1>. QED BY <1>1, <1>3, <1>4, <1>5, <1>6, <1>7 DEF FeedGrows

(* What the server had, it has had. *)
LEMMA HadStays ==
    ASSUME FeedGrows, NEW r, NEW v, ServerHad(r, v)
    PROVE  ServerHad(r, v)'
BY DEF FeedGrows, ServerHad

(* Of a row the versions that the server had are numbers no greater than the one it has, *)
(* and only one write has each.                                                          *)
LEMMA HadVersions ==
    ASSUME Inv, FeedKnown, NEW r \in Row, NEW v, ServerHad(r, v)
    PROVE  /\ v.version \in Nat /\ v.version <= store[r].version
           /\ store[r].version \in Nat
           /\ Seeded(r).version \in Nat /\ Seeded(r).version <= v.version
           /\ v.version = store[r].version => v = store[r]
<1>1. store[r].version \in Nat /\ Seeded(r).version \in Nat
  BY DEF Inv, TypeOK, View, Seeded, Absent
<1>2. \A n \in DOMAIN feed : feed[n].row = r =>
         /\ n \in Nat /\ feed[n].version \in Nat /\ Seeded(r).version < feed[n].version
         /\ feed[n].version <= store[r].version
         /\ \A m \in DOMAIN feed : m < n /\ feed[m].row = r => feed[m].version < feed[n].version
  BY FeedPlaces DEF FeedKnown, FeedRises
<1>3. ServerHad(r, store[r])
  BY DEF FeedKnown, StoreIsLast
<1>4. CASE v = Seeded(r)
  <2>1. CASE store[r] = Seeded(r)
    BY <1>1, <1>4, <2>1
  <2>2. ASSUME NEW n \in DOMAIN feed, feed[n].row = r, store[r] = [version |-> feed[n].version, by |-> feed[n].by]
        PROVE  v.version < store[r].version
    BY <1>2, <1>4, <2>2
  <2>3. CASE \E n \in DOMAIN feed :
               feed[n].row = r /\ store[r] = [version |-> feed[n].version, by |-> feed[n].by]
    <3>1. v.version < store[r].version
      BY <2>2, <2>3
    <3>. QED BY <1>1, <1>4, <3>1
  <2>. QED BY <1>3, <2>1, <2>3 DEF ServerHad
<1>5. ASSUME NEW n \in DOMAIN feed, feed[n].row = r, v = [version |-> feed[n].version, by |-> feed[n].by]
      PROVE  /\ v.version \in Nat /\ v.version <= store[r].version
             /\ Seeded(r).version <= v.version
             /\ v.version = store[r].version => v = store[r]
  <2>1. v.version = feed[n].version
    BY <1>5
  <2>2. ASSUME v.version = store[r].version
        PROVE  v = store[r]
    <3>1. CASE store[r] = Seeded(r)
      BY <1>1, <1>2, <1>5, <2>1, <2>2, <3>1
    <3>2. ASSUME NEW m \in DOMAIN feed, feed[m].row = r, store[r] = [version |-> feed[m].version, by |-> feed[m].by]
          PROVE  v = store[r]
      <4>1. feed[m].version = feed[n].version /\ m \in Nat /\ n \in Nat
        BY <1>2, <1>5, <2>1, <2>2, <3>2
      <4>2. ~(m < n) /\ ~(n < m)
        BY <1>2, <1>5, <3>2, <4>1
      <4>. QED BY <1>5, <3>2, <4>1, <4>2
    <3>. QED BY <1>3, <3>1, <3>2 DEF ServerHad
  <2>. QED BY <1>1, <1>2, <1>5, <2>1, <2>2
<1>6. CASE \E n \in DOMAIN feed : feed[n].row = r /\ v = [version |-> feed[n].version, by |-> feed[n].by]
  BY <1>1, <1>5, <1>6
<1>7. v = Seeded(r) \/ \E n \in DOMAIN feed : feed[n].row = r /\ v = [version |-> feed[n].version, by |-> feed[n].by]
  BY DEF ServerHad
<1>. QED BY <1>4, <1>6, <1>7

(* The last write of a row in the feed is the one the row holds. *)
LEMMA ReplacedIsStored ==
    ASSUME Inv, FeedKnown, NEW r \in Row, NEW w, Write(r, w), NEW n, n = Len(feed) + 1
    PROVE  Replaced(n)' = store[r].by
<1> DEFINE earlier == {m \in 1..(n - 1) : feed'[m].row = feed'[n].row}
<1>1. /\ DOMAIN feed = 1..Len(feed) /\ Len(feed) \in Nat /\ 1..(n - 1) = DOMAIN feed
      /\ \A m \in DOMAIN feed : feed'[m] = feed[m]
      /\ feed'[n].row = r
  <2>1. DOMAIN feed = 1..Len(feed) /\ Len(feed) \in Nat
    BY FeedPlaces
  <2>2. 1..(n - 1) = DOMAIN feed
    BY <2>1
  <2>. QED BY <2>1, <2>2, WriteDoes
<1>2. earlier = {m \in DOMAIN feed : feed[m].row = r}
  BY <1>1
<1>3. Replaced(n)' = IF earlier = {} THEN Origin
                     ELSE feed'[CHOOSE m \in earlier : \A k \in earlier : k <= m].by
  BY DEF Replaced
<1>4. ServerHad(r, store[r])
  BY DEF FeedKnown, StoreIsLast
<1>5. CASE earlier = {}
  <2>1. store[r] = Seeded(r)
    BY <1>2, <1>4, <1>5 DEF ServerHad
  <2>. QED BY <1>3, <1>5, <2>1 DEF Seeded, Absent
<1>6. ASSUME NEW k \in earlier
      PROVE  Replaced(n)' = store[r].by
  <2>1. \A m \in earlier :
           /\ m \in Nat /\ m \in DOMAIN feed /\ feed[m].row = r
           /\ feed[m].version \in Nat /\ Seeded(r).version < feed[m].version
           /\ feed[m].version <= store[r].version
           /\ \A l \in earlier : l < m => feed[l].version < feed[m].version
    BY <1>2, FeedPlaces DEF FeedKnown, FeedRises
  <2>2. store[r] # Seeded(r)
    <3>1. Seeded(r).version \in Nat
      BY DEF Seeded, Absent
    <3>. QED BY <1>6, <2>1, <3>1
  <2> PICK m \in DOMAIN feed : feed[m].row = r /\ store[r] = [version |-> feed[m].version, by |-> feed[m].by]
    BY <1>4, <2>2 DEF ServerHad
  <2>3. m \in earlier /\ store[r].version = feed[m].version /\ store[r].by = feed[m].by
    BY <1>2
  <2>4. \A l \in earlier : l <= m
    BY <2>1, <2>3
  <2> DEFINE last == CHOOSE x \in earlier : \A l \in earlier : l <= x
  <2>5. last \in earlier /\ \A l \in earlier : l <= last
    BY <2>3, <2>4
  <2> HIDE DEF last
  <2>6. last = m
    BY <2>1, <2>3, <2>4, <2>5
  <2>7. Replaced(n)' = feed'[last].by
    BY <1>3, <1>6 DEF last
  <2>. QED BY <1>1, <2>3, <2>6, <2>7
<1>. QED BY <1>5, <1>6

(* The feed is right while nobody writes. *)
LEMMA FeedKept ==
    ASSUME Inv, Inv', OutcomesOfRecorded, FeedKnown, SameOps, UNCHANGED <<store, feed>>
    PROVE  FeedKnown'
<1>1. FeedRises' /\ StoreIsLast'
  BY DEF FeedKnown, FeedRises, StoreIsLast, ServerHad
<1>2. ASSUME NEW n \in DOMAIN feed', NEW d \in Device, NEW j \in Recorded(d)', feed'[n].by = <<d, j>>
      PROVE  feed'[n].row = outbox'[d][j].row /\ feed'[n].version = outbox'[d][j].base + 1
  <2>1. j \in 1..MaxOps
    BY CountsAssumption DEF Inv, TypeOK, Recorded
  <2>2. <<d, j>> \in OpId /\ n \in WrittenBy(<<d, j>>)
    BY <1>2, <2>1 DEF OpId, WrittenBy
  <2>3. processed[<<d, j>>] = "applied"
    BY <2>2 DEF Inv, AppliedOnce
  <2>4. j \in Recorded(d)
    BY <2>1, <2>3 DEF OutcomesOfRecorded
  <2>. QED BY <1>2, <2>4 DEF FeedKnown, WrittenOnBase, SameOps, KeepsOp
<1>. QED BY <1>1, <1>2 DEF FeedKnown, WrittenOnBase

(* The feed stays right with a write that was made on what it replaces. *)
LEMMA FeedWritten ==
    ASSUME Inv, FeedKnown, NEW r \in Row, NEW w, Write(r, w), UNCHANGED outbox,
           \A d \in Device : \A j \in Recorded(d) : w = <<d, j>> =>
               outbox[d][j].row = r /\ outbox[d][j].base = store[r].version
    PROVE  FeedKnown'
<1> PICK n : n = Len(feed) + 1
  OBVIOUS
<1> PICK v : v = store[r].version
  OBVIOUS
<1>1. /\ v \in Nat
      /\ DOMAIN feed' = DOMAIN feed \cup {n} /\ n \notin DOMAIN feed
      /\ \A m \in DOMAIN feed : m < n /\ feed'[m] = feed[m]
      /\ feed'[n].row = r /\ feed'[n].version = v + 1 /\ feed'[n].by = w
      /\ store'[r] = [version |-> v + 1, by |-> w]
      /\ \A q \in Row \ {r} : store'[q] = store[q]
      /\ FeedGrows
  BY WriteDoes
<1>2. /\ Seeded(r).version \in Nat /\ Seeded(r).version <= v
  BY HadVersions DEF FeedKnown, StoreIsLast
<1>3. \A m \in DOMAIN feed : m \in Nat /\ feed[m].row \in Row /\ feed[m].version \in Nat
  BY FeedPlaces
<1>4. n \in Nat
  BY FeedPlaces
<1>5. ASSUME NEW m \in DOMAIN feed'
      PROVE  LET c == feed'[m] IN
             /\ Seeded(c.row).version < c.version
             /\ c.version <= store'[c.row].version
             /\ \A k \in DOMAIN feed' : k < m /\ feed'[k].row = c.row => feed'[k].version < c.version
  <2>1. CASE m = n
    <3>1. \A k \in DOMAIN feed : feed[k].row = r => feed[k].version <= v
      BY DEF FeedKnown, FeedRises
    <3>2. store'[r].version = v + 1
      BY <1>1
    <3>. QED BY <1>1, <1>2, <1>3, <1>4, <2>1, <3>1, <3>2
  <2>2. CASE m \in DOMAIN feed
    <3>1. /\ Seeded(feed[m].row).version < feed[m].version
          /\ feed[m].version <= store[feed[m].row].version
          /\ \A k \in DOMAIN feed : k < m /\ feed[k].row = feed[m].row => feed[k].version < feed[m].version
      BY <2>2 DEF FeedKnown, FeedRises
    <3>2. feed'[m] = feed[m] /\ m < n /\ m \in Nat
      BY <1>1, <1>3, <2>2
    <3>3. feed[m].version <= store'[feed[m].row].version
      <4>1. CASE feed[m].row = r
        <5>1. store'[r].version = v + 1
          BY <1>1
        <5>. QED BY <1>1, <1>3, <2>2, <3>1, <4>1, <5>1
      <4>2. CASE feed[m].row # r
        BY <1>1, <1>3, <2>2, <3>1, <4>2
      <4>. QED BY <4>1, <4>2
    <3>4. \A k \in DOMAIN feed' : k < m => k \in DOMAIN feed
      BY <1>1, <1>4, <3>2
    <3>. QED BY <1>1, <3>1, <3>2, <3>3, <3>4
  <2>. QED BY <1>1, <2>1, <2>2
<1>6. ASSUME NEW q \in Row
      PROVE  ServerHad(q, store[q])'
  <2>1. CASE q = r
    BY <1>1, <2>1 DEF ServerHad
  <2>2. CASE q # r
    <3>1. ServerHad(q, store[q])
      BY DEF FeedKnown, StoreIsLast
    <3> PICK x : x = store[q]
      OBVIOUS
    <3>2. store'[q] = x
      BY <1>1, <2>2
    <3>3. ServerHad(q, x)'
      BY <1>1, <3>1, HadStays
    <3>. QED BY <3>2, <3>3 DEF ServerHad
  <2>. QED BY <2>1, <2>2
<1>7. WrittenOnBase'
  <2> SUFFICES ASSUME NEW m \in DOMAIN feed', NEW d \in Device, NEW j \in Recorded(d), feed'[m].by = <<d, j>>
               PROVE  feed'[m].row = outbox[d][j].row /\ feed'[m].version = outbox[d][j].base + 1
    BY DEF WrittenOnBase, Recorded
  <2>1. CASE m = n
    BY <1>1, <2>1
  <2>2. CASE m \in DOMAIN feed
    BY <1>1, <2>2 DEF FeedKnown, WrittenOnBase
  <2>. QED BY <1>1, <2>1, <2>2
<1>. QED BY <1>5, <1>6, <1>7 DEF FeedKnown, FeedRises, StoreIsLast

-----------------------------------------------------------------------------
(* What a step leaves of what is known. *)

(* A row keeps its insert. *)
LEMMA HasInsertStays ==
    ASSUME SameOps, NEW d \in Device, NEW r, HasInsert(d, r)
    PROVE  HasInsert(d, r)'
BY DEF HasInsert, SameOps, KeepsOp

(* An outcome that is recorded stays. *)
LEMMA TakenStays ==
    ASSUME Inv, OutcomesAreFinal, NEW d \in Device, NEW i \in Recorded(d)
    PROVE  /\ Taken(d, i) => Taken(d, i)'
           /\ processed[<<d, i>>] # "none" => processed'[<<d, i>>] = processed[<<d, i>>]
<1>1. <<d, i>> \in OpId
  BY OpTyped
<1>. QED BY <1>1 DEF OutcomesAreFinal, Taken

(* The rows and outcomes stay: what is known of the ops does, but for new ones. *)
LEMMA OpsKept ==
    ASSUME Inv, OpsKnown, Keeps, UNCHANGED <<store, processed>>,
           \A d \in Device : \A k \in Recorded(d)' : k \in Recorded(d) \/ OpKnown(d, k)'
    PROVE  OpsKnown'
<1>1. ASSUME NEW d \in Device, NEW k \in Recorded(d)
      PROVE  OpKnown(d, k)'
  <2>1. KeepsOp(d, k) /\ outbox[d][k].row \in Row
    BY OpTyped DEF Keeps, SameOps
  <2>2. OpKnown(d, k)
    BY DEF OpsKnown
  <2>3. Dead(outbox[d][k].row) => Dead(outbox[d][k].row)'
    <3> PICK r \in Row : r = outbox[d][k].row
      BY <2>1
    <3>1. Dead(r) => Dead(r)'
      BY DEF Keeps, DeadStays
    <3>2. outbox'[d][k].row = r
      BY <2>1 DEF KeepsOp
    <3>. QED BY <3>1, <3>2
  <2>4. HasInsert(d, outbox[d][k].row) => HasInsert(d, outbox[d][k].row)'
    <3> PICK r \in Row : r = outbox[d][k].row
      BY <2>1
    <3>1. HasInsert(d, r) => HasInsert(d, r)'
      BY HasInsertStays DEF Keeps
    <3>2. outbox'[d][k].row = r
      BY <2>1 DEF KeepsOp
    <3>. QED BY <3>1, <3>2
  <2>. QED BY <2>1, <2>2, <2>3, <2>4 DEF OpKnown, InsertKnown, EditKnown, KeepsOp
<1>. QED BY <1>1 DEF OpsKnown

(* A row the server has held is one it has held. *)
LEMMA CurrentStays ==
    ASSUME SameOps, FeedGrows, NEW d \in Device, NEW answers,
           \A a \in answers : a.op \in Recorded(d), Current(d, answers)
    PROVE  Current(d, answers)'
<1> SUFFICES ASSUME NEW a \in answers
             PROVE  ServerHad(outbox[d][a.op].row, a.current)'
  BY DEF Current
<1> PICK r : r = outbox[d][a.op].row
  OBVIOUS
<1>1. outbox'[d][a.op].row = r
  BY DEF SameOps, KeepsOp
<1>2. ServerHad(r, a.current)
  BY DEF Current
<1>3. ServerHad(r, a.current)'
  BY <1>2, HadStays
<1>. QED BY <1>1, <1>3

(* What answers say of broken rows stays. *)
LEMMA BrokenStays ==
    ASSUME SameOps, NEW d \in Device, NEW answers,
           \A a \in answers : a.op \in Recorded(d), BrokenStaysBroken(d, answers)
    PROVE  BrokenStaysBroken(d, answers)'
<1> SUFFICES ASSUME NEW a \in answers, NEW b \in answers, Before(d, a.op, b.op)', Breaks(d, a)'
             PROVE  b.verdict # "retry"
  BY DEF BrokenStaysBroken
<1>1. Before(d, a.op, b.op)
  BY BeforeKept
<1>2. Breaks(d, a)
  BY DEF Breaks, SameOps, KeepsOp
<1>. QED BY <1>1, <1>2 DEF BrokenStaysBroken

(* A thread that goes on as it was, or ends. *)
LEMMA ThreadKept ==
    ASSUME Inv, Steady, NEW h \in Handler, ThreadKnown(h), thread'[h] = thread[h] \/ thread'[h] = Free
    PROVE  ThreadKnown(h)'
<1>1. CASE thread'[h] = Free
  BY <1>1 DEF ThreadKnown, Free
<1>2. CASE thread'[h] = thread[h] /\ thread[h].phase = "free"
  BY <1>2 DEF ThreadKnown
<1>3. CASE thread'[h] = thread[h] /\ thread[h].phase # "free"
  <2> PICK d : d = thread[h].dev
    OBVIOUS
  <2> PICK answers : answers = thread[h].answers
    OBVIOUS
  <2>1. /\ d \in Device /\ thread[h].todo \subseteq Recorded(d)
        /\ \A a \in answers : a.op \in Recorded(d)
    BY <1>3 DEF Inv, InFlight, ThreadNamesOps, AnswersNameOps
  <2>2. SameOps /\ FeedGrows /\ OutcomesAreFinal
    BY DEF Steady, Keeps
  <2>3. Current(d, answers) /\ BrokenStaysBroken(d, answers)
    BY <1>3 DEF ThreadKnown
  <2>4. Current(d, answers)' /\ BrokenStaysBroken(d, answers)'
    BY <2>1, <2>2, <2>3, CurrentStays, BrokenStays
  <2>5. \A i \in Recorded(d) : /\ outbox'[d][i].row = outbox[d][i].row
                               /\ outbox'[d][i].kind = outbox[d][i].kind
                               /\ outbox[d][i].row \in Row
                               /\ Taken(d, i) => Taken(d, i)'
    BY <2>1, <2>2, OpTyped, TakenStays DEF SameOps, KeepsOp
  <2>6. \A a \in answers : Breaks(d, a)' <=> Breaks(d, a)
    BY <2>1, <2>5 DEF Breaks
  <2>7. \A r \in Row : Broke(h, r)' <=> Broke(h, r)
    BY <1>3 DEF Broke
  <2>8. ASSUME NEW a \in answers, Breaks(d, a)'
        PROVE  Broke(h, outbox[d][a.op].row)'
    <3> PICK r \in Row : r = outbox[d][a.op].row
      BY <2>1, <2>5
    <3>1. Broke(h, r)
      BY <1>3, <2>6, <2>8 DEF ThreadKnown
    <3>2. Broke(h, r)' /\ outbox'[d][a.op].row = r
      BY <2>1, <2>5, <2>7, <3>1
    <3>. QED BY <3>2
  <2>9. \A i \in Recorded(d) : Dead(outbox[d][i].row) => Dead(outbox[d][i].row)'
    <3> SUFFICES ASSUME NEW i \in Recorded(d), Dead(outbox[d][i].row)
                 PROVE  Dead(outbox[d][i].row)'
      OBVIOUS
    <3> PICK r \in Row : r = outbox[d][i].row
      BY <2>5
    <3>1. Dead(r)'
      BY DEF Steady, Keeps, DeadStays
    <3>. QED BY <2>5, <3>1
  <2>10. \A r \in Row : Broke(h, r)' => \E a \in answers : outbox'[d][a.op].row = r /\ a.verdict = thread'[h].failed[r]
    BY <1>3, <2>1, <2>5, <2>7 DEF ThreadKnown
  <2>11. \A a \in answers : \A i \in thread[h].todo : a.op < i
    BY <1>3 DEF ThreadKnown
  <2>12. thread[h].phase = "settle" => \A i \in thread[h].todo : First(i, thread[h].todo) =>
              /\ thread[h].verdict = "rejected" => outbox'[d][i].kind = "insert" \/ Dead(outbox[d][i].row)'
              /\ thread[h].verdict = "conflict" => outbox'[d][i].kind = "update" \/ Taken(d, i)'
    BY <1>3, <2>1, <2>5, <2>9 DEF ThreadKnown, Taken
  <2>13. thread'[h].dev = d /\ thread'[h].answers = answers
    BY <1>3
  <2>. QED BY <1>3, <2>4, <2>8, <2>10, <2>11, <2>12, <2>13 DEF ThreadKnown, Taken
<1>. QED BY <1>1, <1>2, <1>3

(* An edit that waits or was taken stays so, unless it stops waiting. *)
LEMMA AliveStays ==
    ASSUME Inv, Keeps, NEW d \in Device, NEW j \in Recorded(d), Alive(d, j),
           Waits(d, j) => Waits(d, j)'
    PROVE  Alive(d, j)'
<1> PICK r \in Row : r = outbox[d][j].row
  BY OpTyped
<1>1. outbox'[d][j].row = r
  BY DEF Keeps, SameOps, KeepsOp
<1>2. Dead(r) => Dead(r)'
  BY DEF Keeps, DeadStays
<1>3. Taken(d, j) => Taken(d, j)'
  BY TakenStays DEF Keeps
<1>. QED BY <1>1, <1>2, <1>3 DEF Alive

(* A device's own copy of a row stays one. *)
LEMMA OwnCopyStays ==
    ASSUME Inv, Keeps, NEW d \in Device, NEW r, NEW v, OwnCopy(d, r, v),
           \A j \in Recorded(d) : Own(d, r, v, j) /\ Waits(d, j) => Waits(d, j)' \/ Taken(d, j)' \/ Dead(r)'
    PROVE  OwnCopy(d, r, v)'
<1> PICK j \in Recorded(d) : Own(d, r, v, j) /\ Alive(d, j)
  BY DEF OwnCopy
<1>1. j \in Recorded(d)' /\ Own(d, r, v, j)' /\ outbox'[d][j].row = r /\ outbox[d][j].row = r
  BY DEF Keeps, SameOps, KeepsOp, Own
<1>2. Alive(d, j)'
  <2>1. CASE Waits(d, j) => Waits(d, j)'
    BY <2>1, AliveStays
  <2>2. CASE Taken(d, j)' \/ Dead(r)'
    BY <1>1, <2>2 DEF Alive
  <2>. QED BY <2>1, <2>2
<1>. QED BY <1>1, <1>2 DEF OwnCopy

(* A device that reads no further does not fall back. *)
LEMMA SeenStays ==
    ASSUME Inv, FeedGrows, NEW d \in Device, cursor[d] <= Len(feed), cursor'[d] = cursor[d],
           NEW r, NEW v, Seen(d, r, v), Inv'
    PROVE  Seen(d, r, v)' /\ cursor'[d] <= Len(feed')
<1>1. DOMAIN feed = 1..Len(feed) /\ Len(feed) \in Nat /\ cursor[d] \in Nat
  BY FeedPlaces DEF Inv, TypeOK
<1>2. DOMAIN feed' = 1..Len(feed') /\ Len(feed') \in Nat
  BY DEF Inv, TypeOK
<1>3. \A n \in DOMAIN feed' : n <= cursor[d] => n \in DOMAIN feed /\ feed'[n] = feed[n]
  BY <1>1, <1>2 DEF FeedGrows
<1>4. Len(feed) <= Len(feed')
  BY <1>1, <1>2 DEF FeedGrows
<1>. QED BY <1>1, <1>2, <1>3, <1>4 DEF Seen

(* Nor do the rows it was answered with. *)
LEMMA SeenInStays ==
    ASSUME Inv, Inv', FeedGrows, SameOps, NEW d \in Device,
           cursor[d] <= Len(feed), cursor'[d] = cursor[d],
           NEW answers, \A a \in answers : a.op \in Recorded(d), SeenIn(d, answers)
    PROVE  SeenIn(d, answers)'
<1> SUFFICES ASSUME NEW a \in answers
             PROVE  Seen(d, outbox[d][a.op].row, a.current)'
  BY DEF SeenIn
<1> PICK r : r = outbox[d][a.op].row
  OBVIOUS
<1>1. outbox'[d][a.op].row = r
  BY DEF SameOps, KeepsOp
<1>2. Seen(d, r, a.current)'
  BY SeenStays DEF SeenIn
<1>. QED BY <1>1, <1>2

(* A device that the step leaves alone. *)
LEMMA DeviceAside ==
    ASSUME Inv, Inv', Steady, NEW e \in Device, DeviceKnown(e),
           push'[e] = push[e], local'[e] = local[e], cursor'[e] = cursor[e],
           form'[e] = form[e] \/ form'[e] = None \/ FormKnown(e)',
           Carried(e)' = Carried(e), Recorded(e)' = Recorded(e),
           \A i \in Recorded(e) : Waits(e, i) => Waits(e, i)',
           push[e].phase = "waiting" => \A a \in thread'[push[e].on].answers :
               a \in thread[push[e].on].answers \/ Seen(e, outbox[e][a.op].row, a.current)'
    PROVE  DeviceKnown(e)'
<1>1. Keeps /\ SameOps /\ FeedGrows
  BY DEF Steady, Keeps
<1>2. \A a \in push[e].answers : a.op \in Recorded(e)
  BY AtPush
<1>3. \A i \in Recorded(e) : /\ outbox'[e][i].row = outbox[e][i].row
                             /\ outbox[e][i].row \in Row
                             /\ Waits(e, i)' <=> Waits(e, i)
                             /\ \A j \in Recorded(e) : Before(e, j, i)' <=> Before(e, j, i)
  BY <1>1, OpStays, OpTyped
<1>4. PushKnown(e) /\ LocalKnown(e) /\ FormKnown(e) /\ SeenKnown(e)
  BY DEF DeviceKnown
<1>5. \A r \in Row : Overwriting(e, r)' <=> Overwriting(e, r)
  BY <1>3 DEF Overwriting, IsFirst
<1>6. \A r \in Row : ServerHad(r, local[e][r]) => ServerHad(r, local[e][r])'
  <2> SUFFICES ASSUME NEW r \in Row, ServerHad(r, local[e][r])
               PROVE  ServerHad(r, local[e][r])'
    OBVIOUS
  <2> PICK v : v = local[e][r]
    OBVIOUS
  <2>1. ServerHad(r, v)'
    BY <1>1, HadStays
  <2>. QED BY <2>1
<1>7. PushKnown(e)'
  <2>1. AllGo(e)'
    BY <1>3, <1>4, CarriedRecorded DEF AllGo, PushKnown
  <2>2. FailedKnown(e)'
    BY <1>1, <1>4, <1>5, <1>6 DEF FailedKnown, PushKnown, Keeps, DeadStays
  <2> PICK answers : answers = push[e].answers
    OBVIOUS
  <2>3. Current(e, answers) /\ BrokenStaysBroken(e, answers)
    BY <1>4 DEF PushKnown
  <2>4. Current(e, answers)' /\ BrokenStaysBroken(e, answers)'
    BY <1>1, <1>2, <2>3, CurrentStays, BrokenStays
  <2>. QED BY <2>1, <2>2, <2>4 DEF PushKnown
<1>8. LocalKnown(e)'
  <2> SUFFICES ASSUME NEW r \in Row
               PROVE  (ServerHad(r, local[e][r]) \/ Overwriting(e, r) \/ OwnCopy(e, r, local[e][r]))'
    BY DEF LocalKnown
  <2> PICK v : v = local[e][r]
    OBVIOUS
  <2>1. OwnCopy(e, r, v) => OwnCopy(e, r, v)'
    BY <1>1, OwnCopyStays
  <2>. QED BY <1>4, <1>5, <1>6, <2>1 DEF LocalKnown
<1>9. FormKnown(e)'
  BY <1>4 DEF FormKnown
<1>10. SeenKnown(e)'
  <2>1. cursor[e] <= Len(feed) /\ SeenIn(e, push[e].answers) /\ \A r \in Row : Seen(e, r, local[e][r])
    BY <1>4 DEF SeenKnown
  <2>2. \A r \in Row : Seen(e, r, local[e][r])'
    <3> SUFFICES ASSUME NEW r \in Row PROVE Seen(e, r, local[e][r])'
      OBVIOUS
    <3> PICK v : v = local[e][r]
      OBVIOUS
    <3>1. Seen(e, r, v)'
      BY <1>1, <2>1, SeenStays
    <3>. QED BY <3>1
  <2>3. cursor'[e] <= Len(feed')
    <3>1. DOMAIN feed = 1..Len(feed) /\ Len(feed) \in Nat /\ DOMAIN feed' = 1..Len(feed') /\ Len(feed') \in Nat
      BY DEF Inv, TypeOK
    <3>2. cursor[e] \in Nat
      BY DEF Inv, TypeOK
    <3>. QED BY <1>1, <2>1, <3>1, <3>2 DEF FeedGrows
  <2>4. SeenIn(e, push[e].answers)'
    <3> PICK answers : answers = push[e].answers
      OBVIOUS
    <3>1. SeenIn(e, answers)'
      BY <1>1, <1>2, <2>1, SeenInStays
    <3>. QED BY <3>1
  <2>5. ASSUME push[e].phase = "waiting"
        PROVE  SeenIn(e, thread[push[e].on].answers)'
    <3> PICK answers : answers = thread[push[e].on].answers
      OBVIOUS
    <3>1. \A a \in answers : a.op \in Recorded(e)
      BY <2>5 DEF Inv, InFlight, WaitsOnItsThread, ThreadNamesOps, AnswersNameOps
    <3>2. SeenIn(e, answers)
      BY <1>4, <2>5 DEF SeenKnown
    <3>3. SeenIn(e, answers)'
      BY <1>1, <2>1, <3>1, <3>2, SeenInStays
    <3>4. \A a \in thread'[push[e].on].answers : Seen(e, outbox[e][a.op].row, a.current)'
      BY <2>5, <3>3 DEF SeenIn
    <3>. QED BY <3>4 DEF SeenIn
  <2>. QED BY <2>2, <2>3, <2>4, <2>5 DEF SeenKnown
<1>. QED BY <1>7, <1>8, <1>9, <1>10 DEF DeviceKnown

(* A device that syncs nothing knows nothing of its push. *)
LEMMA IdleKnown ==
    ASSUME NEW d \in Device, PhaseTidy(d), PushKnown(d), push[d].phase = "idle", push'[d] = push[d]
    PROVE  PushKnown(d)'
<1>1. push[d].todo = {} /\ push[d].batch = {} /\ push[d].answers = {}
  BY DEF PhaseTidy
<1>2. Carried(d)' = {}
  BY <1>1 DEF Carried, Sent, OpsOf
<1>3. \A r \in Row : push[d].failed[r] = "none"
  BY DEF PushKnown, FailedKnown
<1>. QED BY <1>1, <1>2, <1>3 DEF PushKnown, AllGo, FailedKnown, Current, BrokenStaysBroken

(* An edit keeps its parent. *)
LEMMA ParentKept ==
    ASSUME Inv, Steady, NEW d \in Device, NEW i \in Recorded(d), Parented(d, i),
           \A j \in Recorded(d) : MadeOn(d, j, i) /\ Follows(d, j, i) =>
               Follows(d, j, i)' \/ Dead(outbox[d][i].row)'
    PROVE  Parented(d, i)'
<1>1. Keeps /\ SameOps /\ FeedGrows
  BY DEF Steady, Keeps
<1> PICK r \in Row : r = outbox[d][i].row
  BY OpTyped
<1> PICK v : v = [version |-> outbox[d][i].base, by |-> outbox[d][i].parent]
  OBVIOUS
<1>2. /\ i \in Recorded(d)' /\ outbox'[d][i].row = r /\ outbox'[d][i].kind = outbox[d][i].kind
      /\ v = [version |-> outbox'[d][i].base, by |-> outbox'[d][i].parent]
      /\ outbox'[d][i].parent = outbox[d][i].parent /\ outbox'[d][i].base = outbox[d][i].base
  BY <1>1 DEF SameOps, KeepsOp
<1>3. ServerHad(r, v) => ServerHad(r, v)'
  BY <1>1, HadStays
<1>4. Dead(r) => Dead(r)'
  BY <1>1 DEF Keeps, DeadStays
<1>5. ASSUME NEW j \in Recorded(d), MadeOn(d, j, i)
      PROVE  j \in Recorded(d)' /\ MadeOn(d, j, i)'
  <2>1. KeepsOp(d, j)
    BY <1>1 DEF SameOps
  <2>2. Before(d, j, i)'
    BY <1>1, <1>5, BeforeKept DEF MadeOn
  <2>. QED BY <1>2, <1>5, <2>1, <2>2 DEF MadeOn, KeepsOp
<1>6. outbox[d][i].kind = "update" =>
         ServerHad(r, v) \/ Dead(r) \/ \E j \in Recorded(d) : MadeOn(d, j, i) /\ Follows(d, j, i)
  BY DEF Parented
<1>7. ASSUME NEW j \in Recorded(d), MadeOn(d, j, i), Follows(d, j, i)
      PROVE  Dead(r)' \/ \E k \in Recorded(d)' : MadeOn(d, k, i)' /\ Follows(d, k, i)'
  <2>1. j \in Recorded(d)' /\ MadeOn(d, j, i)'
    BY <1>5, <1>7
  <2>2. Follows(d, j, i)' \/ Dead(outbox[d][i].row)'
    BY <1>7
  <2>. QED BY <1>2, <2>1, <2>2
<1>8. outbox'[d][i].kind = "update" =>
         ServerHad(r, v)' \/ Dead(r)' \/ \E k \in Recorded(d)' : MadeOn(d, k, i)' /\ Follows(d, k, i)'
  BY <1>2, <1>3, <1>4, <1>6, <1>7
<1>. QED BY <1>2, <1>8 DEF Parented

(* An edit goes on following the one it was made on, if the step takes neither. *)
LEMMA FollowsKept ==
    ASSUME Inv, Keeps, NEW d \in Device, NEW j \in Recorded(d), NEW i \in Recorded(d), Follows(d, j, i),
           Taken(d, i)' => Taken(d, i),
           Waits(d, i)' =>
              /\ Waits(d, j) => Waits(d, j)'
              /\ i \in push[d].todo /\ push[d].failed[outbox[d][i].row] # "none" =>
                    i \in push'[d].todo /\ push'[d].failed[outbox[d][i].row] # "none"
    PROVE  Follows(d, j, i)'
<1>1. KeepsOp(d, i)
  BY DEF Keeps, SameOps
<1>2. Taken(d, j) => Taken(d, j)'
  BY TakenStays DEF Keeps
<1>3. processed'[<<d, i>>] = "none" => processed[<<d, i>>] = "none"
  BY TakenStays DEF Keeps
<1>4. Waits(d, i)' => Waits(d, i)
  BY <1>1 DEF KeepsOp, Waits
<1>. QED BY <1>1, <1>2, <1>3, <1>4 DEF Follows, KeepsOp

-----------------------------------------------------------------------------
(* The people at a till. *)

(* What was taken is in the feed. *)
LEMMA TakenHad ==
    ASSUME Inv, FeedKnown, NEW d \in Device, NEW j \in Recorded(d), Taken(d, j),
           NEW r, NEW v, Own(d, r, v, j)
    PROVE  ServerHad(r, v)
<1>1. WrittenBy(<<d, j>>) # {}
  BY OpTyped DEF Inv, AppliedOnce, Taken
<1> PICK n \in DOMAIN feed : feed[n].by = <<d, j>>
  BY <1>1 DEF WrittenBy
<1>2. feed[n].row = r /\ feed[n].version = outbox[d][j].base + 1
  BY DEF FeedKnown, WrittenOnBase, Own
<1>3. v = [version |-> feed[n].version, by |-> feed[n].by]
  BY <1>2 DEF Own
<1>. QED BY <1>2, <1>3 DEF ServerHad

(* A step at one till leaves the others. *)
LEMMA UserAside ==
    ASSUME Inv, FormStands, NEW d \in Device, UserStep(d), NEW e \in Device \ {d}
    PROVE  outbox'[e] = outbox[e] /\ local'[e] = local[e] /\ form'[e] = form[e]
<1>1. outbox'[e] = outbox[e]
  BY UserDoes DEF UserEffect
<1>2. local \in [Device -> [Row -> View]] /\ DOMAIN form = Device
  BY DEF Inv, TypeOK
<1>3. local'[e] = local[e] /\ form'[e] = form[e]
  <2>1. ASSUME NEW u \in User, NEW r \in Row, CreateRow(d, u, r)
        PROVE  local'[e] = local[e] /\ form'[e] = form[e]
    BY <1>2, <2>1 DEF CreateRow
  <2>2. ASSUME NEW r \in Row, OpenForm(d, r)
        PROVE  local'[e] = local[e] /\ form'[e] = form[e]
    BY <1>2, <2>2 DEF OpenForm
  <2>3. ASSUME NEW u \in User, SaveForm(d, u)
        PROVE  local'[e] = local[e] /\ form'[e] = form[e]
    BY <1>2, <2>3 DEF SaveForm
  <2>4. ASSUME CancelForm(d)
        PROVE  local'[e] = local[e] /\ form'[e] = form[e]
    BY <1>2, <2>4 DEF CancelForm
  <2>5. ASSUME NEW i \in DOMAIN outbox[d], RetryConflict(d, i)
        PROVE  local'[e] = local[e] /\ form'[e] = form[e]
    BY <1>2, <2>5 DEF RetryConflict
  <2>6. ASSUME NEW i \in DOMAIN outbox[d], Dismiss(d, i)
        PROVE  local'[e] = local[e] /\ form'[e] = form[e]
    BY <2>6 DEF Dismiss
  <2>. QED BY <2>1, <2>2, <2>3, <2>4, <2>5, <2>6 DEF UserStep
<1>. QED BY <1>1, <1>3

(* What is left to show of a step at a till: the till itself and its new op. *)
LEMMA UserLeaves ==
    ASSUME HeldInv, HeldInv', KnownInv, NEW d \in Device, UserStep(d)
    PROVE  /\ Steady /\ Inv /\ Inv'
           /\ DeviceKnown(d)' /\ (\A k \in Recorded(d)' :
                                     k \in Recorded(d) \/ (OpKnown(d, k)' /\ Parented(d, k)'))
                => KnownInv'
<1>1. Inv /\ Inv' /\ FormStands /\ OutcomesOfRecorded
  BY DEF HeldInv, ThreadsOK
<1>2. UserEffect(d) /\ UNCHANGED <<push, cursor, store, feed, processed, thread, faults>>
  BY <1>1, UserDoes
<1>3. Steady
  BY <1>1, <1>2, QuietKeeps, FeedSame DEF Steady, UserEffect
<1>4. SUFFICES ASSUME DeviceKnown(d)',
                      \A k \in Recorded(d)' : k \in Recorded(d) \/ (OpKnown(d, k)' /\ Parented(d, k)')
               PROVE  KnownInv'
  BY <1>1, <1>3
<1>5. Keeps /\ SameOps /\ FeedKnown /\ OpsKnown
  BY <1>3 DEF Steady, Keeps, KnownInv
<1>6. FeedKnown'
  BY <1>1, <1>2, <1>5, FeedKept
<1>7. \A e \in Device \ {d} : /\ outbox'[e] = outbox[e] /\ local'[e] = local[e] /\ form'[e] = form[e]
                              /\ Recorded(e)' = Recorded(e)
  BY <1>1, UserAside DEF Recorded
<1>8. OpsKnown'
  BY <1>1, <1>2, <1>4, <1>5, <1>7, OpsKept
<1>9. \A h \in Handler : ThreadKnown(h)'
  BY <1>1, <1>2, <1>3, ThreadKept DEF KnownInv
<1>10. ASSUME NEW e \in Device
       PROVE  DeviceKnown(e)'
  <2>1. CASE e = d
    BY <1>4, <2>1
  <2>2. CASE e # d
    <3>1. Carried(e)' = Carried(e)
      BY <1>2 DEF Carried, Sent
    <3>2. \A i \in Recorded(e) : Waits(e, i) => Waits(e, i)'
      BY <1>7, <2>2 DEF Waits
    <3>. QED BY <1>1, <1>2, <1>3, <1>7, <2>2, <3>1, <3>2, DeviceAside DEF KnownInv
  <2>. QED BY <2>1, <2>2
<1>11. ASSUME NEW e \in Device, NEW i \in Recorded(e)'
       PROVE  Parented(e, i)'
  <2>1. CASE i \in Recorded(e)
    <3>1. Parented(e, i)
      BY <2>1 DEF KnownInv
    <3>2. \A j \in Recorded(e) : Waits(e, j) => Waits(e, j)'
      BY <1>2, <1>7 DEF Waits, UserEffect, SetAside, Failure
    <3>3. ASSUME NEW j \in Recorded(e), Follows(e, j, i)
          PROVE  Follows(e, j, i)'
      BY <1>1, <1>2, <1>5, <2>1, <3>2, <3>3, FollowsKept DEF Taken
    <3>. QED BY <1>1, <1>3, <2>1, <3>1, <3>3, ParentKept
  <2>2. CASE i \notin Recorded(e)
    BY <1>4, <1>7, <2>2
  <2>. QED BY <2>1, <2>2
<1>. QED BY <1>6, <1>8, <1>9, <1>10, <1>11 DEF KnownInv

(* A step at a till that writes nothing. *)
LEMMA UserLooks ==
    ASSUME HeldInv, HeldInv', KnownInv, NEW d \in Device, UserStep(d), UNCHANGED local,
           Recorded(d)' = Recorded(d), form'[d] = form[d] \/ form'[d] = None \/ FormKnown(d)'
    PROVE  KnownInv'
<1>1. Inv /\ Inv' /\ FormStands /\ Steady
  BY UserLeaves DEF HeldInv
<1>2. UserEffect(d) /\ UNCHANGED <<push, cursor, store, feed, processed, thread, faults>>
  BY <1>1, UserDoes
<1>3. Carried(d)' = Carried(d)
  BY <1>2 DEF Carried, Sent
<1>4. \A i \in Recorded(d) : Waits(d, i) => Waits(d, i)'
  BY <1>2 DEF Waits, UserEffect, SetAside, Failure
<1>5. DeviceKnown(d)'
  BY <1>1, <1>2, <1>3, <1>4, DeviceAside DEF KnownInv
<1>. QED BY <1>5, UserLeaves

(* A row that the server does not have has no change in the feed. *)
LEMMA NeverThere ==
    ASSUME Inv, FeedKnown, NEW r \in Row, store[r].version = 0
    PROVE  /\ \A n \in DOMAIN feed : feed[n].row # r
           /\ \A v : ServerHad(r, v) => v.version = 0
<1>1. ASSUME NEW v, ServerHad(r, v)
      PROVE  v.version = 0
  <2>1. v.version \in Nat /\ v.version <= 0
    BY <1>1, HadVersions
  <2>. QED BY <2>1
<1>2. ASSUME NEW n \in DOMAIN feed, feed[n].row = r
      PROVE  FALSE
  <2>1. feed[n].version \in Nat /\ Seeded(r).version < feed[n].version /\ feed[n].version <= 0
    BY <1>2, FeedPlaces DEF FeedKnown, FeedRises
  <2>2. Seeded(r).version \in Nat
    BY DEF Seeded, Absent
  <2>. QED BY <2>1, <2>2
<1>. QED BY <1>1, <1>2

(* The till writes its copy of a row, with an op. *)
LEMMA UserWrites ==
    ASSUME HeldInv, HeldInv', KnownInv, NEW d \in Device, UserStep(d), push[d].phase = "idle",
           NEW r \in Row, NEW n \in Recorded(d)', NEW v, Own(d, r, v, n)', Waits(d, n)',
           \A q \in Row : local'[d][q] = IF q = r THEN v ELSE local[d][q],
           Recorded(d)' = Recorded(d) \cup {n},
           \A k \in DOMAIN feed : feed[k].row = r => feed[k].version <= v.version \/ cursor[d] < k,
           FormKnown(d)', OpKnown(d, n)', Parented(d, n)'
    PROVE  KnownInv'
<1>1. Inv /\ Inv' /\ FormStands /\ Steady
  BY UserLeaves DEF HeldInv
<1>2. UserEffect(d) /\ UNCHANGED <<push, cursor, store, feed, processed, thread, faults>>
  BY <1>1, UserDoes
<1>3. Keeps /\ SameOps /\ FeedGrows
  BY <1>1 DEF Steady, Keeps
<1>4. PushKnown(d) /\ LocalKnown(d) /\ SeenKnown(d) /\ PhaseTidy(d)
  BY DEF KnownInv, DeviceKnown, HeldInv, PushOK
<1>5. PushKnown(d)'
  BY <1>2, <1>4, IdleKnown
<1>6. \A i \in Recorded(d) : Waits(d, i) => Waits(d, i)'
  BY <1>2 DEF Waits, UserEffect, SetAside, Failure
<1>7. ASSUME NEW q \in Row
      PROVE  (ServerHad(q, local[d][q]) \/ Overwriting(d, q) \/ OwnCopy(d, q, local[d][q]))'
  <2>1. CASE q = r
    <3>1. OwnCopy(d, r, v)'
      BY DEF OwnCopy, Alive
    <3>2. local'[d][r] = v
      OBVIOUS
    <3>. QED BY <2>1, <3>1, <3>2 DEF OwnCopy, Own
  <2>2. CASE q # r
    <3> PICK x : x = local[d][q]
      OBVIOUS
    <3>1. local'[d][q] = x
      BY <2>2
    <3>2. ServerHad(q, x) \/ OwnCopy(d, q, x)
      BY <1>4 DEF LocalKnown, Overwriting
    <3>3. ServerHad(q, x) => ServerHad(q, x)'
      BY <1>3, HadStays
    <3>4. OwnCopy(d, q, x) => OwnCopy(d, q, x)'
      BY <1>1, <1>3, <1>6, OwnCopyStays
    <3>. QED BY <3>1, <3>2, <3>3, <3>4 DEF OwnCopy, Own, ServerHad
  <2>. QED BY <2>1, <2>2
<1>8. cursor[d] \in Nat /\ \A k \in DOMAIN feed : k \in Nat
  BY <1>1, FeedPlaces DEF Inv, TypeOK
<1>9. SeenKnown(d)'
  <2>1. cursor'[d] <= Len(feed')
    BY <1>2, <1>4 DEF SeenKnown
  <2>2. \A q \in Row : Seen(d, q, local[d][q])'
    <3> SUFFICES ASSUME NEW q \in Row PROVE Seen(d, q, local[d][q])'
      OBVIOUS
    <3>1. CASE q = r
      BY <1>2, <1>8, <3>1 DEF Seen
    <3>2. CASE q # r
      BY <1>2, <1>4, <3>2 DEF Seen, SeenKnown
    <3>. QED BY <3>1, <3>2
  <2>3. push'[d].answers = {} /\ push'[d].phase # "waiting"
    BY <1>2, <1>4 DEF PhaseTidy
  <2>4. SeenIn(d, push[d].answers)'
    BY <2>3 DEF SeenIn
  <2>. QED BY <2>1, <2>2, <2>3, <2>4 DEF SeenKnown
<1>10. DeviceKnown(d)'
  BY <1>5, <1>7, <1>9 DEF DeviceKnown, LocalKnown
<1>. QED BY <1>10, UserLeaves

(* A new row, under an id that nobody has used. *)
LEMMA CreateKnown ==
    ASSUME HeldInv, HeldInv', KnownInv, ~EditDuringSync,
           NEW d \in Device, NEW u \in User, NEW r \in Row, CreateRow(d, u, r)
    PROVE  KnownInv'
<1>1. UserStep(d)
  BY DEF UserStep
<1>2. Inv /\ Inv' /\ FormStands /\ Steady /\ FeedKnown /\ OutcomesOfRecorded
  BY <1>1, UserLeaves DEF HeldInv, KnownInv, ThreadsOK
<1>3. push[d].phase = "idle" /\ store[r] = Absent /\ \A i \in Recorded(d) : outbox[d][i].row # r
  <2>1. DOMAIN outbox[d] = Recorded(d)
    BY <1>2 DEF Inv, TypeOK, Recorded
  <2>. QED BY <2>1 DEF CreateRow, Syncing
<1> PICK n : n = Len(outbox[d]) + 1
  OBVIOUS
<1> PICK v : v = [version |-> 1, by |-> <<d, n>>]
  OBVIOUS
<1>4. /\ NextOp(d) = n /\ n \in 1..MaxOps /\ n \notin Recorded(d)
      /\ Recorded(d)' = Recorded(d) \cup {n}
      /\ outbox'[d][n] = [row |-> r, kind |-> "insert", base |-> 0, parent |-> Origin,
                          actor |-> u, status |-> "pending"]
  BY <1>2, CreateRowDoes
<1>5. Own(d, r, v, n)' /\ Waits(d, n)' /\ n \in Recorded(d)'
  BY <1>4 DEF Own, Waits
<1>6. \A q \in Row : local'[d][q] = IF q = r THEN v ELSE local[d][q]
  <2>1. local \in [Device -> [Row -> View]]
    BY <1>2 DEF Inv, TypeOK
  <2>. QED BY <1>4, <2>1 DEF CreateRow
<1>7. store'[r].version = 0 /\ store[r].version = 0 /\ UNCHANGED <<form, push, store, feed, processed>>
  BY <1>3 DEF CreateRow, Absent, serverVars
<1>8. \A k \in DOMAIN feed : feed[k].row # r
  BY <1>2, <1>7, NeverThere
<1>9. FormKnown(d)'
  <2> SUFFICES ASSUME form[d] # None PROVE FormKnown(d)'
    BY <1>7 DEF FormKnown
  <2>1. form[d].view = local[d][form[d].row] /\ form[d].view.version > 0 /\ push[d].phase = "idle"
    BY DEF FormKnown, KnownInv, DeviceKnown
  <2>2. form[d].row \in Row /\ local[d][r].version \in Nat
    <3>1. form[d] \in Form \cup {None} /\ local \in [Device -> [Row -> View]]
      BY <1>2 DEF Inv, TypeOK
    <3>2. local[d][r] \in View
      BY <3>1
    <3>3. form[d] \in Form
      BY <3>1
    <3>4. form[d].row \in Row
      BY <3>3 DEF Form
    <3>. QED BY <3>2, <3>4 DEF View
  <2>3. local[d][r].version = 0
    <3>1. ServerHad(r, local[d][r]) \/ OwnCopy(d, r, local[d][r])
      BY <1>3 DEF KnownInv, DeviceKnown, LocalKnown, Overwriting
    <3>2. ~OwnCopy(d, r, local[d][r])
      BY <1>3 DEF OwnCopy, Own
    <3>. QED BY <1>2, <1>7, <3>1, <3>2, NeverThere
  <2>4. form[d].row # r
    BY <2>1, <2>3
  <2>. QED BY <1>6, <1>7, <2>1, <2>2, <2>4 DEF FormKnown
<1>10. processed'[<<d, n>>] = "none"
  BY <1>4, <1>7, <1>2 DEF OutcomesOfRecorded
<1>11. OpKnown(d, n)'
  <2>1. HasInsert(d, r)'
    BY <1>4 DEF HasInsert
  <2>2. HasInsert(d, outbox[d][n].row)'
    BY <1>4, <2>1 DEF HasInsert
  <2>. QED BY <1>4, <1>7, <1>10, <2>2 DEF OpKnown, InsertKnown, EditKnown
<1>12. Parented(d, n)'
  BY <1>4 DEF Parented
<1>13. \A k \in DOMAIN feed : feed[k].row = r => feed[k].version <= v.version \/ cursor[d] < k
  BY <1>8
<1>. QED BY <1>1, <1>3, <1>4, <1>5, <1>6, <1>9, <1>11, <1>12, <1>13, UserWrites

(* An edit is made on the copy the till has. *)
LEMMA SaveKnown ==
    ASSUME HeldInv, HeldInv', KnownInv, OwnChain, NEW d \in Device, NEW u \in User, SaveForm(d, u)
    PROVE  KnownInv'
<1>1. UserStep(d)
  BY DEF UserStep
<1>2. Inv /\ Inv' /\ FormStands /\ Steady /\ FeedKnown /\ OpsKnown /\ OutcomesOfRecorded
  BY <1>1, UserLeaves DEF HeldInv, KnownInv, ThreadsOK
<1> PICK f : f = form[d]
  OBVIOUS
<1> PICK r : r = f.row
  OBVIOUS
<1> PICK n : n = Len(outbox[d]) + 1
  OBVIOUS
<1> PICK x : x = f.view
  OBVIOUS
<1>3. /\ NextOp(d) = n /\ n \in 1..MaxOps /\ n \notin Recorded(d) /\ f \in Form
      /\ Recorded(d)' = Recorded(d) \cup {n}
      /\ outbox'[d][n] = [row |-> r, kind |-> "update", base |-> x.version, parent |-> x.by,
                          actor |-> u, status |-> "pending"]
  BY <1>2, SaveFormDoes
<1>4. r \in Row /\ x \in View
  BY <1>3 DEF Form
<1>5. push[d].phase = "idle" /\ x = local[d][r] /\ x.version > 0 /\ x.version \in Nat
  BY <1>4 DEF SaveForm, KnownInv, DeviceKnown, FormKnown, View
<1> PICK v : v = [version |-> x.version + 1, by |-> <<d, n>>]
  OBVIOUS
<1>6. Own(d, r, v, n)' /\ Waits(d, n)' /\ n \in Recorded(d)'
  BY <1>3 DEF Own, Waits
<1>7. /\ \A q \in Row : local'[d][q] = IF q = r THEN v ELSE local[d][q]
      /\ form'[d] = None /\ UNCHANGED <<push, store, feed, processed, cursor>>
  <2>1. local \in [Device -> [Row -> View]] /\ DOMAIN form = Device
    BY <1>2 DEF Inv, TypeOK
  <2>. QED BY <1>3, <2>1 DEF SaveForm, serverVars
<1>8. FormKnown(d)'
  BY <1>7 DEF FormKnown
<1>9. processed'[<<d, n>>] = "none"
  BY <1>2, <1>3, <1>7 DEF OutcomesOfRecorded
<1>10. \A k \in DOMAIN feed : feed[k].row = r => feed[k].version <= v.version \/ cursor[d] < k
  <2>1. Seen(d, r, x)
    BY <1>4, <1>5 DEF KnownInv, DeviceKnown, SeenKnown
  <2>2. cursor[d] \in Nat /\ \A k \in DOMAIN feed : k \in Nat /\ feed[k].version \in Nat
    BY <1>2, FeedPlaces DEF Inv, TypeOK
  <2>3. v.version = x.version + 1
    OBVIOUS
  <2>. QED BY <1>5, <2>1, <2>2, <2>3 DEF Seen
<1>11. ServerHad(r, x) \/ \E j \in Recorded(d) : Own(d, r, x, j) /\ Alive(d, j)
  BY <1>4, <1>5 DEF KnownInv, DeviceKnown, LocalKnown, Overwriting, OwnCopy
<1>12. OpKnown(d, n)'
  <2>1. ASSUME store'[r].version = 0
        PROVE  HasInsert(d, r)'
    <3>1. ~ServerHad(r, x)
      BY <1>2, <1>4, <1>5, <1>7, <2>1, NeverThere
    <3> PICK j \in Recorded(d) : Own(d, r, x, j)
      BY <1>11, <3>1
    <3>2. HasInsert(d, r)
      BY <1>2, <1>7, <2>1 DEF Own, OpsKnown, OpKnown
    <3>. QED BY <1>2, <3>2, HasInsertStays DEF Steady, Keeps
  <2>2. store'[r].version = 0 => HasInsert(d, outbox[d][n].row)'
    BY <1>3, <2>1 DEF HasInsert
  <2>. QED BY <1>3, <1>5, <1>9, <2>2 DEF OpKnown, InsertKnown, EditKnown
<1>13. Parented(d, n)'
  <2>1. /\ outbox'[d][n].row = r /\ x = [version |-> outbox'[d][n].base, by |-> outbox'[d][n].parent]
        /\ outbox'[d][n].base = x.version /\ outbox'[d][n].parent = x.by
    BY <1>3, <1>4 DEF View
  <2>2. ServerHad(r, x) => ServerHad(r, x)'
    BY <1>2, HadStays DEF Steady
  <2>3. CASE ServerHad(r, x)
    BY <2>1, <2>2, <2>3 DEF Parented
  <2>4. ASSUME NEW j \in Recorded(d), Own(d, r, x, j), Alive(d, j)
        PROVE  Parented(d, n)'
    <3>1. CASE Taken(d, j)
      BY <1>2, <2>1, <2>2, <2>4, <3>1, TakenHad DEF Parented
    <3>2. CASE Dead(outbox[d][j].row)
      <4>1. Dead(r)
        BY <2>4, <3>2 DEF Own
      <4>2. Dead(r)'
        BY <1>2, <1>4, <4>1 DEF Steady, Keeps, DeadStays
      <4>. QED BY <2>1, <4>2 DEF Parented
    <3>3. CASE Waits(d, j)
      <4>1. outbox[d][j].actor = u /\ outbox[d][j].row = r /\ x.version = outbox[d][j].base + 1 /\ x.by = <<d, j>>
        <5>1. outbox[d][j].row = r /\ x.version = outbox[d][j].base + 1 /\ x.by = <<d, j>>
          BY <2>4 DEF Own
        <5>2. form[d].view.by = <<d, j>>
          BY <5>1
        <5>3. outbox[d][j].actor = u
          BY <3>3, <5>2, Zenon DEF OwnChain
        <5>. QED BY <5>1, <5>3
      <4>2. KeepsOp(d, j)
        BY <1>2 DEF Steady, Keeps, SameOps
      <4>3. j < n
        <5>1. Len(outbox[d]) \in Nat
          BY <1>2 DEF Inv, TypeOK
        <5>. QED BY <5>1 DEF Recorded
      <4>4. Before(d, j, n)' /\ MadeOn(d, j, n)'
        BY <1>3, <2>1, <4>1, <4>2, <4>3 DEF Before, MadeOn, KeepsOp
      <4>5. Waits(d, j)'
        <5>1. UserEffect(d)
          BY <1>1, <1>2, UserDoes
        <5>. QED BY <3>3, <5>1 DEF Waits, UserEffect, SetAside, Failure
      <4>6. Follows(d, j, n)'
        BY <1>9, <4>5 DEF Follows, Taken
      <4>. QED BY <4>2, <4>4, <4>6 DEF Parented, KeepsOp
    <3>. QED BY <2>4, <3>1, <3>2, <3>3 DEF Alive
  <2>. QED BY <1>11, <2>3, <2>4
<1>. QED BY <1>1, <1>3, <1>4, <1>5, <1>6, <1>7, <1>8, <1>10, <1>12, <1>13, UserWrites

(* Every step of the people at a till. *)
LEMMA UserKnown ==
    ASSUME HeldInv, HeldInv', KnownInv, ~EditDuringSync, OwnChain, NEW d \in Device, UserStep(d)
    PROVE  KnownInv'
<1>1. Inv /\ Inv' /\ FormStands
  BY DEF HeldInv
<1>2. DOMAIN outbox[d] = Recorded(d) /\ DOMAIN form = Device
  BY <1>1 DEF Inv, TypeOK, Recorded
<1>3. ASSUME NEW u \in User, NEW r \in Row, CreateRow(d, u, r) PROVE KnownInv'
  BY <1>3, CreateKnown
<1>4. ASSUME NEW u \in User, SaveForm(d, u) PROVE KnownInv'
  BY <1>4, SaveKnown
<1>5. ASSUME NEW r \in Row, OpenForm(d, r) PROVE KnownInv'
  <2>1. UNCHANGED <<outbox, local, push>> /\ Recorded(d)' = Recorded(d)
    BY <1>5 DEF OpenForm, Recorded
  <2>2. form'[d] = [row |-> r, view |-> local[d][r], again |-> 0] /\ push[d].phase = "idle"
    BY <1>2, <1>5 DEF OpenForm, Syncing
  <2>3. FormKnown(d)'
    BY <1>5, <2>1, <2>2 DEF FormKnown, OpenForm
  <2>. QED BY <2>1, <2>3, UserLooks
<1>6. ASSUME CancelForm(d) PROVE KnownInv'
  <2>1. UNCHANGED <<outbox, local>> /\ Recorded(d)' = Recorded(d) /\ form'[d] = None
    BY <1>2, <1>6 DEF CancelForm, Recorded
  <2>. QED BY <2>1, UserLooks
<1>7. ASSUME NEW i \in DOMAIN outbox[d], RetryConflict(d, i) PROVE KnownInv'
  <2>1. UNCHANGED <<outbox, local, push>> /\ Recorded(d)' = Recorded(d)
    BY <1>7 DEF RetryConflict, Recorded
  <2>2. /\ form'[d] = [row |-> outbox[d][i].row, view |-> local[d][outbox[d][i].row], again |-> i]
        /\ local[d][outbox[d][i].row].version > 0 /\ push[d].phase = "idle"
    BY <1>2, <1>7 DEF RetryConflict, Syncing
  <2>3. FormKnown(d)'
    BY <2>1, <2>2 DEF FormKnown
  <2>. QED BY <2>1, <2>3, UserLooks
<1>8. ASSUME NEW i \in DOMAIN outbox[d], Dismiss(d, i) PROVE KnownInv'
  <2>1. UNCHANGED <<local, form>> /\ Recorded(d)' = Recorded(d)
    <3>1. i \in Recorded(d) /\ SetStatus(d, i, "dismissed")
      BY <1>2, <1>8 DEF Dismiss
    <3>2. Recorded(d)' = Recorded(d)
      BY <1>1, <3>1, Marked DEF Inv, Status
    <3>. QED BY <1>8, <3>2 DEF Dismiss
  <2>. QED BY <2>1, UserLooks
<1>. QED BY <1>3, <1>4, <1>5, <1>6, <1>7, <1>8 DEF UserStep

-----------------------------------------------------------------------------
(* The syncs. *)

(* What is left to show of a step of a sync: its device, and what its ops follow. *)
LEMMA SyncLeaves ==
    ASSUME HeldInv, HeldInv', KnownInv, NEW d \in Device, NothingNew,
           UNCHANGED <<store, feed, processed>>,
           \A e \in Device \ {d} :
               /\ push'[e] = push[e] /\ local'[e] = local[e] /\ cursor'[e] = cursor[e]
               /\ form'[e] = form[e] /\ outbox'[e] = outbox[e]
               /\ push[e].phase = "waiting" => thread'[push[e].on] = thread[push[e].on],
           \A h \in Handler : thread'[h] = thread[h] \/ thread'[h] = Free \/ ThreadKnown(h)',
           DeviceKnown(d)',
           \A j, i \in Recorded(d) :
               /\ MadeOn(d, j, i) /\ ~Taken(d, j) /\ Waits(d, i)' /\ processed[<<d, i>>] = "none"
               /\ Waits(d, j) \/ (i \in push[d].todo /\ push[d].failed[outbox[d][i].row] # "none")
               => \/ Waits(d, j)'
                  \/ i \in push'[d].todo /\ push'[d].failed[outbox[d][i].row] # "none"
                  \/ Dead(outbox[d][i].row)
    PROVE  KnownInv'
<1>1. Inv /\ Inv' /\ OutcomesOfRecorded /\ SameOps
  BY DEF HeldInv, ThreadsOK, NothingNew
<1>2. Keeps /\ Steady
  BY <1>1, QuietKeeps, FeedSame DEF Steady
<1>3. FeedKnown'
  BY <1>1, FeedKept DEF KnownInv
<1>4. \A e \in Device : Recorded(e)' = Recorded(e)
  BY DEF NothingNew
<1>5. OpsKnown'
  BY <1>1, <1>2, <1>4, OpsKept DEF KnownInv
<1>6. \A h \in Handler : ThreadKnown(h)'
  BY <1>1, <1>2, ThreadKept DEF KnownInv
<1>7. ASSUME NEW e \in Device \ {d}
      PROVE  DeviceKnown(e)'
  <2>1. Carried(e)' = Carried(e)
    BY DEF Carried, Sent
  <2>2. \A i \in Recorded(e) : Waits(e, i) => Waits(e, i)'
    BY DEF Waits
  <2>3. Recorded(e)' = Recorded(e)
    BY <1>4
  <2>. QED BY <1>1, <1>2, <2>1, <2>2, <2>3, DeviceAside DEF KnownInv
<1>8. ASSUME NEW e \in Device, NEW i \in Recorded(e)
      PROVE  Parented(e, i)'
  <2>1. Parented(e, i)
    BY DEF KnownInv
  <2> SUFFICES ASSUME NEW j \in Recorded(e), MadeOn(e, j, i), Follows(e, j, i)
               PROVE  Follows(e, j, i)' \/ Dead(outbox[e][i].row)'
    BY <1>1, <1>2, <2>1, ParentKept
  <2>2. KeepsOp(e, i) /\ outbox[e][i].row \in Row
    BY <1>1, OpTyped DEF SameOps
  <2>3. CASE e # d
    BY <1>1, <1>2, <2>3, FollowsKept DEF Taken, Waits
  <2>4. CASE e = d
    <3> PICK r \in Row : r = outbox[e][i].row
      BY <2>2
    <3>1. Dead(r) => Dead(r)'
      BY <1>2 DEF Keeps, DeadStays
    <3>2. outbox'[e][i].row = r /\ (Waits(e, i)' => Waits(e, i))
      BY <2>2 DEF KeepsOp, Waits
    <3>. QED BY <2>4, <3>1, <3>2 DEF Follows, Taken
  <2>. QED BY <2>3, <2>4
<1>9. \A e \in Device : DeviceKnown(e)'
  BY <1>7
<1>. QED BY <1>3, <1>4, <1>5, <1>6, <1>8, <1>9 DEF KnownInv

(* With what leaves a push, nothing waits behind what stays in it. *)
LEMMA AllGoStays ==
    ASSUME Inv, NothingNew, NEW d \in Device, AllGo(d), Carried(d)' \subseteq Carried(d),
           \A i \in Carried(d) : i \in Carried(d)' \/ ~Waits(d, i)' \/ \A j \in Carried(d)' : ~(j < i)
    PROVE  AllGo(d)'
<1> SUFFICES ASSUME NEW j \in Carried(d)', NEW i \in Recorded(d)', Before(d, j, i)', Waits(d, i)'
             PROVE  i \in Carried(d)'
  BY DEF AllGo
<1>1. i \in Recorded(d) /\ j \in Recorded(d)
  BY CarriedRecorded DEF NothingNew
<1>2. Before(d, j, i) /\ Waits(d, i) /\ j < i
  BY <1>1, BeforeKept DEF NothingNew, SameOps, KeepsOp, Waits, Before
<1>3. i \in Carried(d)
  BY <1>1, <1>2 DEF AllGo
<1>. QED BY <1>2, <1>3

(* A device goes on with the rows it has. *)
LEMMA DeviceMoves ==
    ASSUME Inv, Inv', Steady, NEW d \in Device, DeviceKnown(d), Recorded(d)' = Recorded(d),
           local'[d] = local[d], cursor'[d] = cursor[d], form'[d] = None,
           AllGo(d)', FailedKnown(d)',
           Current(d, push'[d].answers), BrokenStaysBroken(d, push'[d].answers),
           SeenIn(d, push'[d].answers),
           push'[d].phase = "waiting" => thread'[push'[d].on].answers = {},
           \A r \in Row : Overwriting(d, r) => Overwriting(d, r)',
           \A j \in Recorded(d) : Waits(d, j) =>
               \/ Waits(d, j)' \/ Taken(d, j)' \/ Dead(outbox[d][j].row)'
               \/ Overwriting(d, outbox[d][j].row)'
               \/ ServerHad(outbox[d][j].row, local[d][outbox[d][j].row])
    PROVE  DeviceKnown(d)'
<1>1. Keeps /\ SameOps /\ FeedGrows
  BY DEF Steady, Keeps
<1>2. LocalKnown(d) /\ SeenKnown(d)
  BY DEF DeviceKnown
<1> PICK answers : answers = push'[d].answers
  OBVIOUS
<1>3. \A a \in answers : a.op \in Recorded(d)
  BY DEF Inv, InFlight, PushNamesOps, AnswersNameOps
<1>4. PushKnown(d)'
  <2>1. Current(d, answers)' /\ BrokenStaysBroken(d, answers)'
    BY <1>1, <1>3, CurrentStays, BrokenStays
  <2>. QED BY <2>1 DEF PushKnown
<1>5. ASSUME NEW r \in Row
      PROVE  (ServerHad(r, local[d][r]) \/ Overwriting(d, r) \/ OwnCopy(d, r, local[d][r]))'
  <2> PICK v : v = local[d][r]
    OBVIOUS
  <2>1. local'[d][r] = v
    OBVIOUS
  <2>2. ServerHad(r, v) => ServerHad(r, v)'
    BY <1>1, HadStays
  <2>3. ServerHad(r, v) \/ Overwriting(d, r) \/ OwnCopy(d, r, v)
    BY <1>2 DEF LocalKnown
  <2>4. ASSUME OwnCopy(d, r, v)
        PROVE  ServerHad(r, v)' \/ Overwriting(d, r)' \/ OwnCopy(d, r, v)'
    <3> SUFFICES ASSUME ~ServerHad(r, v), ~Overwriting(d, r)'
                 PROVE  OwnCopy(d, r, v)'
      BY <2>2
    <3>1. ASSUME NEW j \in Recorded(d), Own(d, r, v, j), Waits(d, j)
          PROVE  Waits(d, j)' \/ Taken(d, j)' \/ Dead(r)'
      <4>1. outbox[d][j].row = r /\ outbox'[d][j].row = r
        BY <1>1, <3>1 DEF Own, SameOps, KeepsOp
      <4>2. Dead(outbox[d][j].row)' => Dead(r)'
        BY <4>1
      <4>3. Overwriting(d, outbox[d][j].row)' => Overwriting(d, r)'
        BY <4>1
      <4>. QED BY <3>1, <4>1, <4>2, <4>3
    <3>. QED BY <1>1, <2>4, <3>1, OwnCopyStays
  <2>5. (ServerHad(r, v) \/ Overwriting(d, r) \/ OwnCopy(d, r, v))'
    BY <2>2, <2>3, <2>4
  <2>. QED BY <2>1, <2>5
<1>6. SeenKnown(d)'
  <2>1. cursor[d] <= Len(feed) /\ \A r \in Row : Seen(d, r, local[d][r])
    BY <1>2 DEF SeenKnown
  <2>2. \A r \in Row : Seen(d, r, local[d][r])'
    <3> SUFFICES ASSUME NEW r \in Row PROVE Seen(d, r, local[d][r])'
      OBVIOUS
    <3> PICK v : v = local[d][r]
      OBVIOUS
    <3>1. Seen(d, r, v)'
      BY <1>1, <2>1, SeenStays
    <3>. QED BY <3>1
  <2>3. cursor'[d] <= Len(feed')
    <3>1. DOMAIN feed = 1..Len(feed) /\ Len(feed) \in Nat /\ DOMAIN feed' = 1..Len(feed') /\ Len(feed') \in Nat
      BY DEF Inv, TypeOK
    <3>2. cursor[d] \in Nat
      BY DEF Inv, TypeOK
    <3>. QED BY <1>1, <2>1, <3>1, <3>2 DEF FeedGrows
  <2>4. SeenIn(d, answers)'
    BY <1>1, <1>3, <2>1, SeenInStays
  <2>5. push'[d].phase = "waiting" => SeenIn(d, thread[push[d].on].answers)'
    BY DEF SeenIn
  <2>. QED BY <2>2, <2>3, <2>4, <2>5 DEF SeenKnown
<1>7. LocalKnown(d)' /\ FormKnown(d)'
  BY <1>5 DEF LocalKnown, FormKnown
<1>. QED BY <1>4, <1>6, <1>7 DEF DeviceKnown

(* What is known of a device that syncs. *)
LEMMA AtSync ==
    ASSUME HeldInv, HeldInv', KnownInv, NEW d \in Device
    PROVE  /\ Inv /\ Inv' /\ ThreadsOK
           /\ PhaseTidy(d) /\ SentFirst(d) /\ CarriedWait(d) /\ AnswersFinal(d)
           /\ DeviceKnown(d) /\ AllGo(d) /\ FailedKnown(d)
           /\ Current(d, push[d].answers) /\ BrokenStaysBroken(d, push[d].answers)
           /\ SeenIn(d, push[d].answers)
           /\ push[d].phase # "idle" => form[d] = None
           /\ \A i \in Recorded(d) : Taken(d, i) <=> processed[<<d, i>>] = "applied"
BY DEF HeldInv, PushOK, KnownInv, DeviceKnown, PushKnown, SeenKnown, FormKnown, Taken

(* Failures that stay, and none. *)
LEMMA FailedSame ==
    ASSUME Steady, NEW d \in Device, FailedKnown(d), push'[d].failed = push[d].failed,
           local'[d] = local[d], push[d].phase # "overwriting", push'[d].phase # "idle"
    PROVE  FailedKnown(d)'
<1> SUFFICES ASSUME NEW r \in Row
             PROVE  /\ push'[d].failed[r] = "conflict" => ServerHad(r, local[d][r])'
                    /\ push'[d].failed[r] = "rejected" => Dead(r)'
  BY DEF FailedKnown
<1> PICK v : v = local[d][r]
  OBVIOUS
<1>1. push[d].failed[r] = "conflict" => ServerHad(r, v)
  BY DEF FailedKnown, Overwriting
<1>2. ServerHad(r, v) => ServerHad(r, v)'
  BY HadStays DEF Steady
<1>3. ServerHad(r, v)' => ServerHad(r, local[d][r])'
  OBVIOUS
<1>4. push[d].failed[r] = "rejected" => Dead(r)'
  BY DEF FailedKnown, Steady, Keeps, DeadStays
<1>. QED BY <1>1, <1>2, <1>3, <1>4
(* With no failed row there is nothing to know of one. *)
LEMMA FailedNone ==
    ASSUME NEW d \in Device, push'[d].failed = Unbroken
    PROVE  FailedKnown(d)'
BY DEF FailedKnown, Unbroken

(* Nothing new where no op is recorded. *)
LEMMA OutboxStays ==
    ASSUME Inv, UNCHANGED <<outbox, store, feed, processed>>
    PROVE  NothingNew /\ Steady /\ \A e \in Device : Recorded(e)' = Recorded(e)
BY OutboxSame, QuietKeeps, FeedSame DEF NothingNew, Steady

(* The sync begins. *)
LEMMA StartSyncKnown ==
    ASSUME HeldInv, HeldInv', KnownInv, ~EditDuringSync,
           NEW d \in Device, NEW u \in User, StartSync(d, u)
    PROVE  KnownInv'
<1>1. Inv /\ Inv' /\ PhaseTidy(d) /\ DeviceKnown(d)
  BY AtSync
<1>2. /\ push[d].phase = "idle"
      /\ push'[d].phase = "pushing" /\ push'[d].todo = Pending(d, u)
      /\ push'[d].batch = {} /\ push'[d].answers = {} /\ push'[d].failed = Unbroken
      /\ \A e \in Device \ {d} : push'[e] = push[e]
      /\ UNCHANGED <<outbox, local, form, cursor, store, feed, processed, thread, faults>>
  BY <1>1, StartSyncDoes
<1>3. NothingNew /\ Steady /\ \A e \in Device : Recorded(e)' = Recorded(e)
  BY <1>1, <1>2, OutboxStays
<1>4. Carried(d)' = Pending(d, u)
  BY <1>2 DEF Carried, Sent, OpsOf
<1>5. AllGo(d)'
  <2>1. \A i : i \in Pending(d, u) <=>
               i \in Recorded(d) /\ outbox[d][i].status = "pending" /\ outbox[d][i].actor = u
    BY <1>1 DEF Pending, Recorded, Inv, TypeOK
  <2>. QED BY <1>2, <1>4, <2>1 DEF AllGo, Before, Waits, Recorded
<1>6. FailedKnown(d)'
  BY <1>2, FailedNone
<1>7. form'[d] = None
  BY <1>2 DEF StartSync
<1>8. /\ Current(d, push'[d].answers) /\ BrokenStaysBroken(d, push'[d].answers)
      /\ SeenIn(d, push'[d].answers)
  BY <1>2 DEF Current, BrokenStaysBroken, SeenIn
<1>9. \A r \in Row : ~Overwriting(d, r)
  BY <1>2 DEF Overwriting
<1>10. \A j \in Recorded(d) : Waits(d, j) => Waits(d, j)'
  BY <1>2 DEF Waits
<1>11. DeviceKnown(d)'
  BY <1>1, <1>2, <1>3, <1>5, <1>6, <1>7, <1>8, <1>9, <1>10, DeviceMoves
<1>12. push[d].todo = {}
  BY <1>1, <1>2 DEF PhaseTidy
<1>. QED BY <1>2, <1>3, <1>10, <1>11, <1>12, SyncLeaves

(* The request fills, or an op behind a failure is marked with it. *)
LEMMA FillBatchKnown ==
    ASSUME HeldInv, HeldInv', KnownInv, NEW d \in Device, NEW n \in push[d].todo, FillBatch(d, n)
    PROVE  KnownInv'
<1>1. /\ Inv /\ Inv' /\ PhaseTidy(d) /\ SentFirst(d) /\ DeviceKnown(d) /\ AllGo(d) /\ FailedKnown(d)
      /\ Current(d, push[d].answers) /\ BrokenStaysBroken(d, push[d].answers)
      /\ SeenIn(d, push[d].answers)
      /\ push[d].phase # "idle" => form[d] = None
  BY AtSync
<1> PICK verdict : verdict = push[d].failed[outbox[d][n].row]
  OBVIOUS
<1>2. /\ First(n, push[d].todo)
      /\ push[d].phase = "pushing" /\ push'[d].phase = "pushing"
      /\ push'[d].todo = push[d].todo \ {n}
      /\ push'[d].answers = push[d].answers
      /\ push'[d].failed = push[d].failed
      /\ \/ /\ verdict = "none"
            /\ push'[d].batch = push[d].batch \cup {n}
            /\ UNCHANGED outbox
         \/ /\ verdict # "none" /\ verdict \in Failure
            /\ push'[d].batch = push[d].batch
            /\ SetStatus(d, n, verdict)
      /\ \A e \in Device \ {d} : push'[e] = push[e]
      /\ UNCHANGED <<local, form, cursor, store, feed, processed, thread, faults>>
  BY <1>1, FillBatchDoes
<1>3. n \in Recorded(d) /\ push[d].todo \subseteq Recorded(d)
  BY <1>1, AtPush
<1>4. /\ NothingNew /\ \A e \in Device \ {d} : outbox'[e] = outbox[e]
      /\ \A j \in Recorded(d) : Waits(d, j) => Waits(d, j)' \/ (j = n /\ verdict # "none")
      /\ verdict # "none" => ~Waits(d, n)'
  <2>1. CASE UNCHANGED outbox /\ verdict = "none"
    BY <2>1, OutboxSame DEF NothingNew, Waits
  <2>2. CASE verdict # "none" /\ verdict \in Failure /\ SetStatus(d, n, verdict)
    <3>1. verdict \in Status /\ verdict # "pending"
      BY <2>2 DEF Failure, Status
    <3>2. \A e \in Device : Recorded(e)' = Recorded(e)
      BY <1>1, <1>3, <2>2, <3>1, Marked DEF Inv
    <3>3. \A e \in Device : \A j \in Recorded(e) : outbox'[e][j] =
                 IF e = d /\ j = n THEN [outbox[d][n] EXCEPT !.status = verdict] ELSE outbox[e][j]
      BY <1>1, <1>3, <2>2, <3>1, Marked DEF Inv
    <3>4. SameOps
      BY <1>1, <1>3, <2>2, <3>1, MarkedKeeps DEF Inv
    <3>5. \A e \in Device \ {d} : outbox'[e] = outbox[e]
      BY <2>2 DEF SetStatus
    <3>6. outbox'[d][n].status = verdict
      <4>1. outbox[d][n] \in Op
        BY <1>1, <1>3, OpTyped
      <4>. QED BY <1>3, <3>3, <4>1 DEF Op
    <3>. QED BY <2>2, <3>1, <3>2, <3>3, <3>4, <3>5, <3>6 DEF NothingNew, Waits
  <2>. QED BY <1>2, <2>1, <2>2
<1>5. Steady /\ \A e \in Device : Recorded(e)' = Recorded(e)
  BY <1>1, <1>2, <1>4, QuietKeeps, FeedSame DEF NothingNew, Steady
<1>6. /\ Carried(d) = push[d].todo \cup push[d].batch \cup OpsOf(push[d].answers)
      /\ Carried(d)' = push'[d].todo \cup push'[d].batch \cup OpsOf(push[d].answers)
  BY <1>2 DEF Carried, Sent, OpsOf
<1>7. AllGo(d)'
  BY <1>1, <1>2, <1>4, <1>6, AllGoStays
<1>8. FailedKnown(d)'
  BY <1>1, <1>2, <1>5, FailedSame
<1>9. \A r \in Row : ~Overwriting(d, r)
  BY <1>2 DEF Overwriting
<1>10. verdict # "none" => Dead(outbox[d][n].row)' \/ ServerHad(outbox[d][n].row, local[d][outbox[d][n].row])
  <2> PICK r \in Row : r = outbox[d][n].row
    BY <1>1, <1>3, OpTyped
  <2>1. verdict \in Failure => Dead(r) \/ ServerHad(r, local[d][r])
    BY <1>1, <1>9 DEF FailedKnown, Failure
  <2>2. Dead(r) => Dead(r)'
    BY <1>5 DEF Steady, Keeps, DeadStays
  <2>3. outbox'[d][n].row = r
    BY <1>3, <1>5 DEF Steady, Keeps, SameOps, KeepsOp
  <2>4. Dead(r)' => Dead(outbox[d][n].row)'
    BY <2>3
  <2>. QED BY <1>2, <2>1, <2>2, <2>4
<1>11. form'[d] = None
  BY <1>1, <1>2
<1>12. DeviceKnown(d)'
  BY <1>1, <1>2, <1>4, <1>5, <1>7, <1>8, <1>9, <1>10, <1>11, DeviceMoves
<1>13. ASSUME NEW j \in Recorded(d), NEW i \in Recorded(d), MadeOn(d, j, i), Waits(d, i)',
              Waits(d, j) \/ (i \in push[d].todo /\ push[d].failed[outbox[d][i].row] # "none")
       PROVE  Waits(d, j)' \/ (i \in push'[d].todo /\ push'[d].failed[outbox[d][i].row] # "none")
  <2>1. Waits(d, i) /\ Before(d, j, i) /\ j < i /\ outbox[d][j].row = outbox[d][i].row
    BY <1>4, <1>13 DEF MadeOn, Before, NothingNew, SameOps, KeepsOp, Waits
  <2>2. CASE i \in push[d].todo /\ push[d].failed[outbox[d][i].row] # "none"
    BY <1>2, <1>4, <1>13, <2>2
  <2>3. CASE Waits(d, j) /\ ~Waits(d, j)'
    <3>1. j = n /\ verdict # "none"
      BY <1>4, <2>3
    <3>2. i \in Carried(d)
      BY <1>1, <1>6, <2>1, <3>1 DEF AllGo
    <3>3. i \notin Sent(d)
      <4>1. n \in Nat /\ i \in Nat
        BY <1>3 DEF Recorded
      <4>. QED BY <1>1, <2>1, <3>1, <4>1 DEF SentFirst
    <3>4. i \in push[d].todo /\ i # n
      BY <1>3, <2>1, <3>1, <3>2, <3>3 DEF Carried, Recorded
    <3>. QED BY <1>2, <2>1, <3>1, <3>4
  <2>. QED BY <1>13, <2>2, <2>3
<1>. QED BY <1>2, <1>4, <1>12, <1>13, SyncLeaves

(* The request goes out. *)
LEMMA SendBatchKnown ==
    ASSUME HeldInv, HeldInv', KnownInv, NEW d \in Device, NEW h \in Handler, SendBatch(d, h)
    PROVE  KnownInv'
<1>1. /\ Inv /\ Inv' /\ PhaseTidy(d) /\ DeviceKnown(d) /\ AllGo(d) /\ FailedKnown(d)
      /\ push[d].phase # "idle" => form[d] = None
  BY AtSync
<1>2. /\ push[d].phase = "pushing" /\ BatchReady(push[d]) /\ push[d].batch # {}
      /\ push'[d].phase = "waiting" /\ push'[d].on = h
      /\ push'[d].todo = push[d].todo /\ push'[d].batch = {}
      /\ push'[d].answers = push[d].answers /\ push'[d].failed = push[d].failed
      /\ \A e \in Device \ {d} : push'[e] = push[e]
      /\ thread[h] = Free
      /\ thread'[h].phase = "lookup" /\ thread'[h].dev = d
      /\ thread'[h].todo = push[d].batch /\ thread'[h].answers = {}
      /\ thread'[h].failed = Unbroken /\ thread'[h].verdict = "none"
      /\ \A g \in Handler \ {h} : thread'[g] = thread[g]
      /\ UNCHANGED <<outbox, local, form, cursor, store, feed, processed, faults>>
  BY <1>1, SendBatchDoes
<1>3. NothingNew /\ Steady /\ \A e \in Device : Recorded(e)' = Recorded(e)
  BY <1>1, <1>2, OutboxStays
<1>4. push[d].answers = {}
  BY <1>1, <1>2 DEF PhaseTidy
<1>5. Carried(d) = push[d].todo \cup push[d].batch /\ Carried(d)' = push[d].todo \cup push[d].batch
  BY <1>2, <1>4 DEF Carried, Sent, OpsOf
<1>6. AllGo(d)'
  BY <1>1, <1>3, <1>5, AllGoStays
<1>7. FailedKnown(d)'
  BY <1>1, <1>2, <1>3, FailedSame
<1>8. /\ Current(d, push'[d].answers) /\ BrokenStaysBroken(d, push'[d].answers)
      /\ SeenIn(d, push'[d].answers)
  BY <1>2, <1>4 DEF Current, BrokenStaysBroken, SeenIn
<1>9. \A r \in Row : ~Overwriting(d, r)
  BY <1>2 DEF Overwriting
<1>10. \A j \in Recorded(d) : Waits(d, j)' <=> Waits(d, j)
  BY <1>2 DEF Waits
<1>11. DeviceKnown(d)'
  BY <1>1, <1>2, <1>3, <1>6, <1>7, <1>8, <1>9, <1>10, DeviceMoves
<1>12. ThreadKnown(h)'
  <2>1. \A r \in Row : ~Broke(h, r)'
    BY <1>2 DEF Broke, Unbroken
  <2>. QED BY <1>2, <2>1 DEF ThreadKnown, Current, BrokenStaysBroken
<1>13. \A e \in Device \ {d} : push[e].phase = "waiting" => thread'[push[e].on] = thread[push[e].on]
  <2>1. \A e \in Device \ {d} : push[e].phase = "waiting" => push[e].on \in Handler /\ thread[push[e].on].phase # "free"
    BY <1>1 DEF Inv, InFlight, WaitsOnItsThread
  <2>. QED BY <1>2, <2>1 DEF Free
<1>. QED BY <1>2, <1>3, <1>10, <1>11, <1>12, <1>13, SyncLeaves

(* The answers come back. *)
LEMMA ReceiveKnown ==
    ASSUME HeldInv, HeldInv', KnownInv, NEW d \in Device, ReceiveAnswers(d)
    PROVE  KnownInv'
<1>1. /\ Inv /\ Inv' /\ ThreadsOK /\ PhaseTidy(d) /\ DeviceKnown(d) /\ AllGo(d) /\ FailedKnown(d)
      /\ push[d].phase # "idle" => form[d] = None
  BY AtSync
<1> PICK h : h = push[d].on
  OBVIOUS
<1>2. /\ push[d].phase = "waiting" /\ push'[d].phase = "reading"
      /\ push'[d].todo = push[d].todo /\ push'[d].batch = push[d].batch
      /\ push'[d].failed = push[d].failed
      /\ push'[d].answers = thread[h].answers
      /\ \A e \in Device \ {d} : push'[e] = push[e]
      /\ h \in Handler /\ thread[h].dev = d
      /\ thread[h].phase = "done" /\ thread'[h] = Free
      /\ \A g \in Handler \ {h} : thread'[g] = thread[g]
      /\ UNCHANGED <<outbox, local, form, cursor, store, feed, processed, faults>>
  BY <1>1, ReceiveAnswersDoes
<1>3. NothingNew /\ Steady /\ \A e \in Device : Recorded(e)' = Recorded(e)
  BY <1>1, <1>2, OutboxStays
<1>4. push[d].batch = {} /\ thread[h].todo = {}
  BY <1>1, <1>2 DEF PhaseTidy, ThreadsOK, ThreadTidy
<1>5. /\ Carried(d) = push[d].todo \cup OpsOf(thread[h].answers)
      /\ Carried(d)' = push[d].todo \cup OpsOf(thread[h].answers)
  BY <1>2, <1>4 DEF Carried, Sent, OpsOf
<1>6. AllGo(d)'
  BY <1>1, <1>3, <1>5, AllGoStays
<1>7. FailedKnown(d)'
  BY <1>1, <1>2, <1>3, FailedSame
<1>8. /\ Current(d, push'[d].answers) /\ BrokenStaysBroken(d, push'[d].answers)
      /\ SeenIn(d, push'[d].answers)
  <2>1. ThreadKnown(h)
    BY <1>2 DEF KnownInv
  <2>2. Current(d, thread[h].answers) /\ BrokenStaysBroken(d, thread[h].answers)
    BY <1>2, <2>1 DEF ThreadKnown
  <2>3. SeenIn(d, thread[h].answers)
    BY <1>1, <1>2 DEF DeviceKnown, SeenKnown
  <2>. QED BY <1>2, <2>2, <2>3
<1>9. \A r \in Row : ~Overwriting(d, r)
  BY <1>2 DEF Overwriting
<1>10. \A j \in Recorded(d) : Waits(d, j)' <=> Waits(d, j)
  BY <1>2 DEF Waits
<1>11. DeviceKnown(d)'
  BY <1>1, <1>2, <1>3, <1>6, <1>7, <1>8, <1>9, <1>10, DeviceMoves
<1>12. \A e \in Device \ {d} : push[e].phase = "waiting" => thread'[push[e].on] = thread[push[e].on]
  <2>1. \A e \in Device \ {d} : push[e].phase = "waiting" => push[e].on \in Handler /\ thread[push[e].on].dev = e
    BY <1>1 DEF Inv, InFlight, WaitsOnItsThread
  <2>. QED BY <1>2, <2>1
<1>. QED BY <1>2, <1>3, <1>10, <1>11, <1>12, SyncLeaves

(* The next batch. *)
LEMMA NextBatchKnown ==
    ASSUME HeldInv, HeldInv', KnownInv, NEW d \in Device, NextBatch(d)
    PROVE  KnownInv'
<1>1. /\ Inv /\ Inv' /\ DeviceKnown(d) /\ AllGo(d) /\ FailedKnown(d)
      /\ push[d].phase # "idle" => form[d] = None
  BY AtSync
<1>2. /\ push[d].phase = "reading" /\ push[d].answers = {}
      /\ push'[d].phase = "pushing"
      /\ push'[d].todo = push[d].todo /\ push'[d].batch = push[d].batch
      /\ push'[d].failed = push[d].failed
      /\ push'[d].answers = push[d].answers
      /\ \A e \in Device \ {d} : push'[e] = push[e]
      /\ UNCHANGED <<outbox, local, form, cursor, store, feed, processed, thread, faults>>
  BY <1>1, NextBatchDoes
<1>3. NothingNew /\ Steady /\ \A e \in Device : Recorded(e)' = Recorded(e)
  BY <1>1, <1>2, OutboxStays
<1>4. Carried(d)' = Carried(d)
  BY <1>2 DEF Carried, Sent, OpsOf
<1>5. AllGo(d)'
  BY <1>1, <1>3, <1>4, AllGoStays
<1>6. FailedKnown(d)'
  BY <1>1, <1>2, <1>3, FailedSame
<1>7. /\ Current(d, push'[d].answers) /\ BrokenStaysBroken(d, push'[d].answers)
      /\ SeenIn(d, push'[d].answers)
  BY <1>2 DEF Current, BrokenStaysBroken, SeenIn
<1>8. \A r \in Row : ~Overwriting(d, r)
  BY <1>2 DEF Overwriting
<1>9. \A j \in Recorded(d) : Waits(d, j)' <=> Waits(d, j)
  BY <1>2 DEF Waits
<1>10. DeviceKnown(d)'
  BY <1>1, <1>2, <1>3, <1>5, <1>6, <1>7, <1>8, <1>9, DeviceMoves
<1>. QED BY <1>2, <1>3, <1>9, <1>10, SyncLeaves

(* The push is over, at its end or before. *)
LEMMA OverKnown ==
    ASSUME HeldInv, HeldInv', KnownInv, CleanStop, NEW d \in Device,
           EndPush(d) \/ EndSync(d) \/ LoseConnection(d) \/ KillApp(d)
    PROVE  KnownInv'
<1>1. Inv /\ Inv' /\ DeviceKnown(d) /\ PhaseTidy(d) /\ (push[d].phase # "idle" => form[d] = None)
  BY AtSync
<1>2. /\ push'[d].phase \in {"idle", "pulling"}
      /\ EndPush(d) => push[d].phase = "pushing" /\ push[d].todo = {} /\ push[d].batch = {}
      /\ push'[d].todo = {} /\ push'[d].batch = {} /\ push'[d].answers = {}
      /\ push'[d].failed = Unbroken
      /\ \A e \in Device \ {d} : push'[e] = push[e]
      /\ form' = form \/ form' = [form EXCEPT ![d] = None]
      /\ UNCHANGED <<outbox, local, cursor, store, feed, processed, thread>>
  BY <1>1, OverDoes
<1>3. NothingNew /\ Steady /\ \A e \in Device : Recorded(e)' = Recorded(e)
  BY <1>1, <1>2, OutboxStays
<1>4. push[d].phase # "idle" /\ push[d].phase # "overwriting"
  BY <1>2 DEF EndSync, LoseConnection, KillApp, Syncing, CleanStop
<1>5. \A i \in push[d].todo : push[d].failed[outbox[d][i].row] = "none"
  <2>1. CASE EndPush(d) \/ EndSync(d)
    BY <1>1, <1>2, <2>1 DEF EndSync, PhaseTidy
  <2>2. CASE LoseConnection(d) \/ KillApp(d)
    BY <2>2 DEF CleanStop
  <2>. QED BY <2>1, <2>2
<1>6. Carried(d)' = {}
  BY <1>2 DEF Carried, Sent, OpsOf
<1>7. AllGo(d)'
  BY <1>6 DEF AllGo
<1>8. FailedKnown(d)'
  BY <1>2, FailedNone
<1>9. /\ Current(d, push'[d].answers) /\ BrokenStaysBroken(d, push'[d].answers)
      /\ SeenIn(d, push'[d].answers)
  BY <1>2 DEF Current, BrokenStaysBroken, SeenIn
<1>10. \A r \in Row : ~Overwriting(d, r)
  BY <1>4 DEF Overwriting
<1>11. \A j \in Recorded(d) : Waits(d, j)' <=> Waits(d, j)
  BY <1>2 DEF Waits
<1>12. form'[d] = None /\ \A e \in Device \ {d} : form'[e] = form[e]
  <2>1. DOMAIN form = Device
    BY <1>1 DEF Inv, TypeOK
  <2>. QED BY <1>1, <1>2, <1>4, <2>1
<1>13. DeviceKnown(d)'
  BY <1>1, <1>2, <1>3, <1>7, <1>8, <1>9, <1>10, <1>11, <1>12, DeviceMoves
<1>. QED BY <1>2, <1>3, <1>5, <1>11, <1>12, <1>13, SyncLeaves

(* A device takes a row of the server. *)
LEMMA DeviceTakes ==
    ASSUME Inv, Inv', Steady, NEW d \in Device, DeviceKnown(d), UNCHANGED outbox, form'[d] = None,
           NEW r \in Row, NEW w, ServerHad(r, w) \/ (w = local[d][r] /\ ~Overwriting(d, r)),
           \A q \in Row : local'[d][q] = IF q = r THEN w ELSE local[d][q],
           \A q \in Row : Overwriting(d, q) => q = r,
           push'[d].failed = push[d].failed, push'[d].phase # "idle",
           push'[d].answers \subseteq push[d].answers,
           AllGo(d)', SeenKnown(d)'
    PROVE  DeviceKnown(d)'
<1>1. Keeps /\ SameOps /\ FeedGrows
  BY DEF Steady, Keeps
<1>2. LocalKnown(d) /\ FailedKnown(d) /\ Current(d, push[d].answers) /\ BrokenStaysBroken(d, push[d].answers)
  BY DEF DeviceKnown, PushKnown
<1> PICK answers : answers = push'[d].answers
  OBVIOUS
<1>3. \A a \in answers : a.op \in Recorded(d)
  BY AtPush
<1>4. Current(d, answers)' /\ BrokenStaysBroken(d, answers)'
  <2>1. Current(d, answers) /\ BrokenStaysBroken(d, answers)
    BY <1>2 DEF Current, BrokenStaysBroken
  <2>. QED BY <1>1, <1>3, <2>1, CurrentStays, BrokenStays
<1>5. \A q \in Row : \A v : ServerHad(q, v) => ServerHad(q, v)'
  BY <1>1, HadStays
<1>6. ASSUME NEW q \in Row
      PROVE  ServerHad(q, local[d][q])' \/ OwnCopy(d, q, local[d][q])'
  <2> PICK v : v = local'[d][q]
    OBVIOUS
  <2>1. CASE q = r /\ ServerHad(r, w)
    <3>1. ServerHad(q, v)'
      BY <1>5, <2>1
    <3>. QED BY <3>1
  <2>2. CASE ~(q = r /\ ServerHad(r, w))
    <3>1. v = local[d][q] /\ ~Overwriting(d, q)
      BY <2>2
    <3>2. ServerHad(q, v) \/ OwnCopy(d, q, v)
      BY <1>2, <3>1 DEF LocalKnown
    <3>3. \A j \in Recorded(d) : Waits(d, j) => Waits(d, j)'
      BY DEF Waits
    <3>4. OwnCopy(d, q, v) => OwnCopy(d, q, v)'
      BY <1>1, <3>3, OwnCopyStays
    <3>5. ServerHad(q, v)' \/ OwnCopy(d, q, v)'
      BY <1>5, <3>2, <3>4
    <3>. QED BY <3>5
  <2>. QED BY <2>1, <2>2
<1>7. FailedKnown(d)'
  <2> SUFFICES ASSUME NEW q \in Row
               PROVE  /\ push[d].failed[q] = "conflict" => ServerHad(q, local[d][q])'
                      /\ push[d].failed[q] = "rejected" => Dead(q)'
    BY DEF FailedKnown
  <2>1. push[d].failed[q] = "rejected" => Dead(q)'
    BY <1>1, <1>2 DEF FailedKnown, Keeps, DeadStays
  <2>2. ASSUME push[d].failed[q] = "conflict"
        PROVE  ServerHad(q, local[d][q])'
    <3> PICK v : v = local'[d][q]
      OBVIOUS
    <3>1. ServerHad(q, local[d][q]) \/ Overwriting(d, q)
      BY <1>2, <2>2 DEF FailedKnown
    <3>2. ServerHad(q, v)
      BY <3>1
    <3>3. ServerHad(q, v)'
      BY <1>5, <3>2
    <3>. QED BY <3>3
  <2>. QED BY <2>1, <2>2
<1>8. PushKnown(d)'
  BY <1>4, <1>7 DEF PushKnown
<1>9. LocalKnown(d)' /\ FormKnown(d)'
  BY <1>6 DEF LocalKnown, FormKnown
<1>. QED BY <1>8, <1>9 DEF DeviceKnown

(* The server's row replaces the losing copy. *)
LEMMA OverwriteKnown ==
    ASSUME HeldInv, HeldInv', KnownInv, NEW d \in Device, NEW a \in push[d].answers, Overwrite(d, a)
    PROVE  KnownInv'
<1>1. /\ Inv /\ Inv' /\ PhaseTidy(d) /\ CarriedWait(d) /\ DeviceKnown(d) /\ AllGo(d)
      /\ Current(d, push[d].answers) /\ SeenIn(d, push[d].answers)
      /\ push[d].phase # "idle" => form[d] = None
  BY AtSync
<1> PICK r : r = outbox[d][a.op].row
  OBVIOUS
<1>2. /\ FirstAnswer(a, push[d].answers)
      /\ push[d].phase = "overwriting" /\ push'[d].phase = "reading"
      /\ push'[d].todo = push[d].todo /\ push'[d].batch = push[d].batch
      /\ push'[d].failed = push[d].failed
      /\ push'[d].answers = push[d].answers \ {a}
      /\ \A e \in Device \ {d} : push'[e] = push[e]
      /\ r \in Row
      /\ \A e \in Device, q \in Row : local'[e][q] =
            IF e = d /\ q = r THEN a.current ELSE local[e][q]
      /\ UNCHANGED <<outbox, form, cursor, store, feed, processed, thread, faults>>
  BY <1>1, OverwriteDoes
<1>3. NothingNew /\ Steady /\ \A e \in Device : Recorded(e)' = Recorded(e)
  BY <1>1, <1>2, OutboxStays
<1>4. a.op \in Recorded(d) /\ \A b \in push[d].answers : b.op \in Recorded(d)
  BY <1>1, AtPush
<1>5. IsFirst(d, a.op) /\ \A i : IsFirst(d, i) => i = a.op
  <2>1. \A b \in push[d].answers : FirstAnswer(b, push[d].answers) => b.op = a.op
    BY <1>2, <1>4 DEF FirstAnswer, Recorded
  <2>. QED BY <1>2, <2>1 DEF IsFirst
<1>6. \A q \in Row : Overwriting(d, q) => q = r
  BY <1>5 DEF Overwriting
<1>7. AllGo(d)'
  <2>1. OneEach(push[d].answers)
    BY <1>1 DEF PhaseTidy
  <2>2. OpsOf(push[d].answers \ {a}) = OpsOf(push[d].answers) \ {a.op}
    BY <2>1, OpsLess
  <2>3. /\ Carried(d) = push[d].todo \cup push[d].batch \cup OpsOf(push[d].answers)
        /\ Carried(d)' = push[d].todo \cup push[d].batch \cup (OpsOf(push[d].answers) \ {a.op})
    BY <1>2, <2>2 DEF Carried, Sent
  <2>4. a.op \in Carried(d)
    BY <2>3 DEF OpsOf
  <2>5. ~Waits(d, a.op)'
    BY <1>1, <1>2, <1>5, <2>4 DEF CarriedWait, Waits
  <2>. QED BY <1>1, <1>3, <2>3, <2>5, AllGoStays
<1>8. ServerHad(r, a.current)
  BY <1>1 DEF Current
<1>9. SeenKnown(d)'
  <2>1. cursor[d] <= Len(feed) /\ \A q \in Row : Seen(d, q, local[d][q])
    BY <1>1 DEF DeviceKnown, SeenKnown
  <2>2. Seen(d, r, a.current)
    BY <1>1 DEF SeenIn
  <2>3. \A q \in Row : Seen(d, q, local[d][q])'
    BY <1>2, <2>1, <2>2 DEF Seen
  <2>4. SeenIn(d, push[d].answers)'
    BY <1>1, <1>2 DEF SeenIn, Seen
  <2>. QED BY <1>2, <2>1, <2>3, <2>4 DEF SeenKnown
<1>10. form'[d] = None
  BY <1>1, <1>2
<1>11. \A q \in Row : local'[d][q] = IF q = r THEN a.current ELSE local[d][q]
  BY <1>2
<1>12. DeviceKnown(d)'
  BY <1>1, <1>2, <1>3, <1>6, <1>7, <1>8, <1>9, <1>10, <1>11, DeviceTakes
<1>13. \A e \in Device \ {d} : local'[e] = local[e]
  BY <1>1 DEF Overwrite, Inv, TypeOK
<1>14. \A j \in Recorded(d) : Waits(d, j)' <=> Waits(d, j)
  BY <1>2 DEF Waits
<1>. QED BY <1>2, <1>3, <1>12, <1>13, <1>14, SyncLeaves

(* A change of the feed comes in. *)
LEMMA PullKnown ==
    ASSUME HeldInv, HeldInv', KnownInv, NEW d \in Device, PullChange(d)
    PROVE  KnownInv'
<1>1. /\ Inv /\ Inv' /\ PhaseTidy(d) /\ DeviceKnown(d) /\ AllGo(d)
      /\ push[d].phase # "idle" => form[d] = None
  BY AtSync
<1> PICK n : n = cursor[d] + 1
  OBVIOUS
<1> PICK c : c = feed[n]
  OBVIOUS
<1>2. /\ push[d].phase = "pulling" /\ n \in DOMAIN feed
      /\ cursor'[d] = n /\ \A e \in Device \ {d} : cursor'[e] = cursor[e]
      /\ \A e \in Device, q \in Row : local'[e][q] =
            IF e = d /\ q = c.row /\ ~(local[d][q].version > c.version)
            THEN [version |-> c.version, by |-> c.by] ELSE local[e][q]
      /\ UNCHANGED <<outbox, form, push, store, feed, processed, thread, faults>>
  BY <1>1, PullChangeDoes
<1>3. NothingNew /\ Steady /\ \A e \in Device : Recorded(e)' = Recorded(e)
  BY <1>1, <1>2, OutboxStays
<1>4. /\ c.row \in Row /\ c.version \in Nat /\ cursor[d] \in Nat
      /\ \A m \in DOMAIN feed : m \in Nat /\ feed[m].version \in Nat
      /\ DOMAIN feed = 1..Len(feed) /\ Len(feed) \in Nat
      /\ local[d][c.row].version \in Nat
  <2>1. c.row \in Row /\ c.version \in Nat /\ cursor[d] \in Nat
    BY <1>1, <1>2, FeedPlaces DEF Inv, TypeOK
  <2>2. local[d][c.row].version \in Nat
    BY <1>1, <2>1 DEF Inv, TypeOK, View
  <2>. QED BY <1>1, <2>1, <2>2, FeedPlaces
<1> PICK r \in Row : r = c.row
  BY <1>4
<1> PICK w : w = local'[d][r]
  OBVIOUS
<1>5. \A q \in Row : local'[d][q] = IF q = r THEN w ELSE local[d][q]
  BY <1>2
<1>6. \A q \in Row : ~Overwriting(d, q)
  BY <1>2 DEF Overwriting
<1>7. ServerHad(r, w) \/ (w = local[d][r] /\ ~Overwriting(d, r))
  <2>1. CASE local[d][r].version > c.version
    BY <1>2, <1>6, <2>1
  <2>2. CASE ~(local[d][r].version > c.version)
    <3>1. w = [version |-> feed[n].version, by |-> feed[n].by] /\ feed[n].row = r
      BY <1>2, <2>2
    <3>. QED BY <1>2, <3>1 DEF ServerHad
  <2>. QED BY <2>1, <2>2
<1>8. Carried(d)' = Carried(d)
  BY <1>2 DEF Carried, Sent
<1>9. AllGo(d)'
  BY <1>1, <1>3, <1>8, AllGoStays
<1>10. SeenKnown(d)'
  <2>1. cursor[d] <= Len(feed) /\ \A q \in Row : Seen(d, q, local[d][q])
    BY <1>1 DEF DeviceKnown, SeenKnown
  <2>2. Seen(d, r, w)'
    <3> SUFFICES ASSUME NEW m \in DOMAIN feed, m <= n, feed[m].row = r
                 PROVE  feed[m].version <= w.version
      BY <1>2 DEF Seen
    <3>1. c.version <= w.version /\ (w = local[d][r] \/ w.version = c.version)
      <4>1. CASE local[d][r].version > c.version
        <5>1. w = local[d][r]
          BY <1>2, <4>1
        <5>. QED BY <1>4, <4>1, <5>1
      <4>2. CASE ~(local[d][r].version > c.version)
        <5>1. w = [version |-> c.version, by |-> c.by]
          BY <1>2, <4>2
        <5>. QED BY <1>4, <5>1
      <4>. QED BY <4>1, <4>2
    <3>2. CASE m = n
      BY <3>1, <3>2
    <3>3. CASE m < n
      <4>1. feed[m].version < c.version
        BY <1>2, <1>4, <3>3 DEF KnownInv, FeedKnown, FeedRises
      <4>2. w.version \in Nat
        BY <1>4, <3>1
      <4>. QED BY <1>4, <3>1, <4>1, <4>2
    <3>. QED BY <1>2, <1>4, <3>2, <3>3
  <2>3. ASSUME NEW q \in Row
        PROVE  Seen(d, q, local[d][q])'
    <3>1. CASE q = r
      BY <2>2, <3>1 DEF Seen
    <3>2. CASE q # r
      <4>1. local'[d][q] = local[d][q]
        BY <1>5, <3>2
      <4> SUFFICES ASSUME NEW m \in DOMAIN feed, m <= n, feed[m].row = q
                   PROVE  feed[m].version <= local[d][q].version
        BY <1>2, <4>1 DEF Seen
      <4>2. m <= cursor[d]
        BY <1>4, <3>2
      <4>. QED BY <2>1, <4>2 DEF Seen
    <3>. QED BY <3>1, <3>2
  <2>4. push'[d].answers = {} /\ push'[d].phase # "waiting"
    BY <1>1, <1>2 DEF PhaseTidy
  <2>5. cursor'[d] <= Len(feed')
    BY <1>2, <1>4
  <2>6. SeenIn(d, push[d].answers)'
    BY <2>4 DEF SeenIn
  <2>. QED BY <2>3, <2>4, <2>5, <2>6 DEF SeenKnown
<1>11. form'[d] = None
  BY <1>1, <1>2
<1>12. DeviceKnown(d)'
  BY <1>1, <1>2, <1>3, <1>5, <1>6, <1>7, <1>9, <1>10, <1>11, DeviceTakes
<1>13. \A e \in Device \ {d} : local'[e] = local[e]
  BY <1>1 DEF PullChange, Inv, TypeOK
<1>14. \A j \in Recorded(d) : Waits(d, j)' <=> Waits(d, j)
  BY <1>2 DEF Waits
<1>. QED BY <1>2, <1>3, <1>12, <1>13, <1>14, SyncLeaves

(* An answer is read. *)
LEMMA ReadKnown ==
    ASSUME HeldInv, HeldInv', KnownInv, NEW d \in Device, NEW a \in push[d].answers, ReadAnswer(d, a)
    PROVE  KnownInv'
<1>1. /\ Inv /\ Inv' /\ PhaseTidy(d) /\ SentFirst(d) /\ CarriedWait(d) /\ AnswersFinal(d)
      /\ DeviceKnown(d) /\ AllGo(d) /\ FailedKnown(d)
      /\ Current(d, push[d].answers) /\ BrokenStaysBroken(d, push[d].answers)
      /\ SeenIn(d, push[d].answers)
      /\ push[d].phase # "idle" => form[d] = None
      /\ OpsKnown
  BY AtSync DEF KnownInv
<1> PICK n : n = a.op
  OBVIOUS
<1> PICK r : r = outbox[d][n].row
  OBVIOUS
<1>2. /\ FirstAnswer(a, push[d].answers)
      /\ push[d].phase = "reading"
      /\ push'[d].todo = push[d].todo /\ push'[d].batch = push[d].batch
      /\ push'[d].failed = Broken(push[d].failed, outbox[d][n], a.verdict)
      /\ \A e \in Device \ {d} : push'[e] = push[e]
      /\ UNCHANGED <<local, form, cursor, store, feed, processed, thread, faults>>
  BY <1>1, ReadAnswerDoes
<1>3. \/ /\ a.verdict = "retry" /\ UNCHANGED outbox
         /\ push'[d].phase = "reading" /\ push'[d].answers = push[d].answers \ {a}
      \/ /\ a.verdict = "applied" /\ SetStatus(d, n, "acked")
         /\ push'[d].phase = "reading" /\ push'[d].answers = push[d].answers \ {a}
      \/ /\ a.verdict = "rejected" /\ SetStatus(d, n, "rejected")
         /\ push'[d].phase = "reading" /\ push'[d].answers = push[d].answers \ {a}
      \/ /\ a.verdict = "conflict" /\ SetStatus(d, n, "conflict")
         /\ push'[d].phase = "overwriting" /\ push'[d].answers = push[d].answers
  BY <1>1, ReadAnswerDoes
<1>4. /\ n \in Recorded(d) /\ outbox[d][n] \in Op /\ r \in Row /\ a \in Answer
      /\ \A b \in push[d].answers : b \in Answer /\ b.op \in Recorded(d)
      /\ push[d].todo \subseteq Recorded(d)
      /\ push[d].failed \in Chain
  <2>1. push[d].failed \in Chain
    BY <1>1, AtPush DEF PushState
  <2>. QED BY <1>1, <2>1, AtPush, OpTyped
<1>5. /\ NothingNew /\ \A e \in Device \ {d} : outbox'[e] = outbox[e]
      /\ \A j \in Recorded(d) \ {n} : outbox'[d][j] = outbox[d][j]
      /\ a.verdict = "retry" => UNCHANGED outbox
      /\ a.verdict # "retry" => ~Waits(d, n)'
  <2>1. CASE UNCHANGED outbox /\ a.verdict = "retry"
    BY <2>1, OutboxSame DEF NothingNew, Waits
  <2>2. ASSUME NEW s \in Status, s # "pending", SetStatus(d, n, s), a.verdict # "retry"
        PROVE  /\ NothingNew /\ \A e \in Device \ {d} : outbox'[e] = outbox[e]
               /\ \A j \in Recorded(d) \ {n} : outbox'[d][j] = outbox[d][j]
               /\ ~Waits(d, n)'
    <3>1. \A e \in Device : Recorded(e)' = Recorded(e)
      BY <1>1, <1>4, <2>2, Marked DEF Inv
    <3>2. \A e \in Device : \A j \in Recorded(e) : outbox'[e][j] =
                 IF e = d /\ j = n THEN [outbox[d][n] EXCEPT !.status = s] ELSE outbox[e][j]
      BY <1>1, <1>4, <2>2, Marked DEF Inv
    <3>3. SameOps
      BY <1>1, <1>4, <2>2, MarkedKeeps DEF Inv
    <3>4. \A e \in Device \ {d} : outbox'[e] = outbox[e]
      BY <2>2 DEF SetStatus
    <3>5. outbox'[d][n].status = s
      BY <1>4, <3>2 DEF Op
    <3>. QED BY <2>2, <3>1, <3>2, <3>3, <3>4, <3>5 DEF NothingNew, Waits
  <2>3. "acked" \in Status /\ "rejected" \in Status /\ "conflict" \in Status
    BY DEF Status
  <2>. QED BY <1>3, <2>1, <2>2, <2>3
<1>6. Steady /\ \A e \in Device : Recorded(e)' = Recorded(e)
  BY <1>1, <1>2, <1>5, QuietKeeps, FeedSame DEF NothingNew, Steady
<1>7. outbox'[d][n].row = r
  BY <1>4, <1>6 DEF Steady, Keeps, SameOps, KeepsOp
<1>8. /\ a.verdict # "retry" => processed[<<d, n>>] = a.verdict
      /\ a.verdict = "rejected" => Dead(r)
      /\ a.verdict = "conflict" => outbox[d][n].kind = "update"
      /\ a.verdict \in Verdict
      /\ \A b \in push[d].answers : b.verdict # "retry" => processed[<<d, b.op>>] = b.verdict /\ b.verdict # "none"
  <2>1. \A b \in push[d].answers : b.verdict \in Verdict
    BY <1>4 DEF Answer
  <2>2. \A b \in push[d].answers : b.verdict # "retry" => processed[<<d, b.op>>] = b.verdict
    BY <1>1 DEF AnswersFinal, RecordedFor
  <2>3. "none" \notin Verdict
    BY DEF Verdict, Outcome, Failure
  <2>4. OpKnown(d, n) /\ outbox[d][n].kind \in {"insert", "update"}
    BY <1>1, <1>4 DEF OpsKnown, Op, Kind
  <2>. QED BY <2>1, <2>2, <2>3, <2>4 DEF OpKnown, InsertKnown
<1>9. AllGo(d)'
  <2>1. push[d].batch = {} /\ OneEach(push[d].answers)
    BY <1>1, <1>2 DEF PhaseTidy
  <2>2. Carried(d) = push[d].todo \cup OpsOf(push[d].answers)
    BY <1>2, <2>1 DEF Carried, Sent
  <2>3. Carried(d)' = push[d].todo \cup OpsOf(push'[d].answers)
    BY <1>2, <1>3, <2>1 DEF Carried, Sent, OpsOf
  <2>4. CASE push'[d].answers = push[d].answers
    BY <1>1, <1>5, <2>2, <2>3, <2>4, AllGoStays
  <2>5. CASE push'[d].answers = push[d].answers \ {a}
    <3>1. OpsOf(push'[d].answers) = OpsOf(push[d].answers) \ {n}
      BY <2>1, <2>5, OpsLess
    <3>2. \A j \in Carried(d)' : ~(j < n)
      <4>1. \A j \in push[d].todo : ~(j < n)
        <5>1. n \in Sent(d)
          BY <1>2 DEF Sent, OpsOf
        <5>. QED BY <1>1, <1>4, <5>1 DEF SentFirst, Recorded
      <4>2. \A b \in push[d].answers : ~(b.op < n)
        BY <1>2, <1>4 DEF FirstAnswer, Recorded
      <4>. QED BY <2>3, <2>5, <4>1, <4>2 DEF OpsOf
    <3>. QED BY <1>1, <1>5, <2>2, <2>3, <3>1, <3>2, AllGoStays
  <2>. QED BY <1>3, <2>4, <2>5
<1>10. a.verdict = "conflict" => Overwriting(d, r)'
  <2> SUFFICES ASSUME a.verdict = "conflict"
               PROVE  Overwriting(d, r)'
    OBVIOUS
  <2>1. push'[d].phase = "overwriting" /\ push'[d].answers = push[d].answers
    BY <1>3
  <2>2. IsFirst(d, n)'
    BY <1>2, <2>1 DEF IsFirst
  <2>3. n \in Recorded(d)'
    BY <1>4, <1>6
  <2>. QED BY <1>7, <2>1, <2>2, <2>3 DEF Overwriting
<1>11. Dead(r) => Dead(r)'
  BY <1>4, <1>6 DEF Steady, Keeps, DeadStays
<1>12. \A q \in Row : push'[d].failed[q] = push[d].failed[q] \/ (q = r /\ push'[d].failed[q] = a.verdict)
  BY <1>2, <1>4, BrokenMore
<1>13. FailedKnown(d)'
  <2> SUFFICES ASSUME NEW q \in Row
               PROVE  /\ push'[d].failed[q] = "conflict" => ServerHad(q, local[d][q])' \/ Overwriting(d, q)'
                      /\ push'[d].failed[q] = "rejected" => Dead(q)'
    BY <1>3 DEF FailedKnown
  <2>1. CASE push'[d].failed[q] = push[d].failed[q]
    <3> PICK v : v = local[d][q]
      OBVIOUS
    <3>1. push[d].failed[q] = "conflict" => ServerHad(q, v)
      BY <1>1, <1>2 DEF FailedKnown, Overwriting
    <3>2. ServerHad(q, v) => ServerHad(q, v)'
      BY <1>6, HadStays DEF Steady
    <3>3. local'[d][q] = v
      BY <1>2
    <3>4. push[d].failed[q] = "rejected" => Dead(q)'
      BY <1>1, <1>6 DEF FailedKnown, Steady, Keeps, DeadStays
    <3>. QED BY <2>1, <3>1, <3>2, <3>3, <3>4
  <2>2. CASE q = r /\ push'[d].failed[q] = a.verdict
    BY <1>8, <1>10, <1>11, <2>2
  <2>. QED BY <1>12, <2>1, <2>2
<1>14. push'[d].answers \subseteq push[d].answers /\ push'[d].phase # "waiting"
  BY <1>3
<1>15. /\ Current(d, push'[d].answers) /\ BrokenStaysBroken(d, push'[d].answers)
       /\ SeenIn(d, push'[d].answers)
  BY <1>1, <1>14 DEF Current, BrokenStaysBroken, SeenIn
<1>16. \A q \in Row : ~Overwriting(d, q)
  BY <1>2 DEF Overwriting
<1>17. \A j \in Recorded(d) : Waits(d, j) =>
           \/ Waits(d, j)' \/ Taken(d, j)' \/ Dead(outbox[d][j].row)'
           \/ Overwriting(d, outbox[d][j].row)'
  <2> SUFFICES ASSUME NEW j \in Recorded(d), Waits(d, j), ~Waits(d, j)'
               PROVE  Taken(d, j)' \/ Dead(outbox[d][j].row)' \/ Overwriting(d, outbox[d][j].row)'
    OBVIOUS
  <2>1. j = n /\ a.verdict # "retry"
    BY <1>5 DEF Waits
  <2>2. a.verdict = "applied" => Taken(d, j)'
    BY <1>2, <1>8, <2>1 DEF Taken
  <2>3. a.verdict = "rejected" => Dead(r)'
    BY <1>8, <1>11
  <2>4. Dead(r)' => Dead(outbox[d][j].row)'
    BY <1>7, <2>1
  <2>5. Overwriting(d, r)' => Overwriting(d, outbox[d][j].row)'
    BY <1>7, <2>1
  <2>6. a.verdict \in {"applied", "rejected", "conflict"}
    BY <1>8, <2>1 DEF Verdict, Outcome, Failure
  <2>. QED BY <1>10, <2>2, <2>3, <2>4, <2>5, <2>6
<1>18. form'[d] = None
  BY <1>1, <1>2
<1>19. DeviceKnown(d)'
  BY <1>1, <1>2, <1>6, <1>9, <1>13, <1>14, <1>15, <1>16, <1>17, <1>18, DeviceMoves
<1>20. ASSUME NEW j \in Recorded(d), NEW i \in Recorded(d), MadeOn(d, j, i), ~Taken(d, j), Waits(d, i)',
              processed[<<d, i>>] = "none",
              Waits(d, j) \/ (i \in push[d].todo /\ push[d].failed[outbox[d][i].row] # "none")
       PROVE  \/ Waits(d, j)'
              \/ i \in push'[d].todo /\ push'[d].failed[outbox[d][i].row] # "none"
              \/ Dead(outbox[d][i].row)
  <2>1. Waits(d, i) /\ Before(d, j, i) /\ j < i /\ outbox[d][j].row = outbox[d][i].row /\ outbox[d][i].row \in Row
    BY <1>1, <1>5, <1>20, OpTyped DEF MadeOn, Before, NothingNew, SameOps, KeepsOp, Waits
  <2>2. CASE i \in push[d].todo /\ push[d].failed[outbox[d][i].row] # "none"
    BY <1>2, <1>4, <2>1, <2>2, BrokenMore
  <2>3. CASE Waits(d, j) /\ ~Waits(d, j)'
    <3>1. j = n /\ a.verdict # "retry" /\ outbox[d][i].row = r
      BY <1>5, <2>1, <2>3 DEF Waits
    <3>2. a.verdict = "rejected" \/ a.verdict = "conflict"
      BY <1>8, <1>20, <3>1 DEF Taken, Verdict, Outcome, Failure
    <3>3. CASE a.verdict = "rejected"
      BY <1>8, <3>1, <3>3
    <3>4. CASE a.verdict = "conflict"
      <4>1. BreaksChain(outbox[d][n].kind, a.verdict) /\ Breaks(d, a)
        BY <1>8, <3>4 DEF BreaksChain, Breaks
      <4>2. push'[d].failed[r] # "none"
        BY <1>2, <1>4, <3>4, <4>1, BrokenMore
      <4>3. i \in Carried(d)
        <5>1. n \in Carried(d)
          BY <1>2 DEF Carried, Sent, OpsOf
        <5>. QED BY <1>1, <2>1, <3>1, <5>1 DEF AllGo
      <4>4. ASSUME NEW b \in push[d].answers, b.op = i
            PROVE  FALSE
        <5>1. b.verdict = "retry"
          BY <1>8, <1>20, <4>4
        <5>. QED BY <1>1, <2>1, <3>1, <4>1, <4>4, <5>1 DEF BrokenStaysBroken
      <4>5. push[d].batch = {}
        BY <1>1, <1>2 DEF PhaseTidy
      <4>6. i \in push[d].todo
        BY <1>2, <4>3, <4>4, <4>5 DEF Carried, Sent, OpsOf
      <4>. QED BY <1>2, <3>1, <4>2, <4>6
    <3>. QED BY <3>2, <3>3, <3>4
  <2>. QED BY <1>20, <2>2, <2>3
<1>. QED BY <1>2, <1>5, <1>19, <1>20, SyncLeaves

(* Every step of a sync. *)
LEMMA SyncKnown ==
    ASSUME HeldInv, HeldInv', KnownInv, ~EditDuringSync, CleanStop, NEW d \in Device,
           \/ SyncStep(d) \/ LoseConnection(d) \/ KillApp(d)
           \/ \E u \in User : StartSync(d, u)
    PROVE  KnownInv'
BY StartSyncKnown, FillBatchKnown, SendBatchKnown, ReceiveKnown, ReadKnown, OverwriteKnown,
   NextBatchKnown, PullKnown, OverKnown DEF SyncStep

-----------------------------------------------------------------------------
(* The server's threads. *)

(* What a thread does to the rows: nothing, or it writes the op it answers. *)
Writes(h, i, a) ==
    /\ i \in thread[h].todo /\ a \in Answer /\ AnswersOp(h, i, "applied", a)
    /\ processed[IdOf(h, i)] = "none" /\ Fits(OpOf(h, i))
    /\ processed' = [processed EXCEPT ![IdOf(h, i)] = "applied"]
    /\ Write(OpOf(h, i).row, IdOf(h, i))

(* A step of a thread writes one row at most. *)
LEMMA ServerWritesOne ==
    ASSUME NEW h \in Handler, ThreadEffect(h)
    PROVE  UNCHANGED <<store, feed>> \/ \E i \in thread[h].todo, a \in Answer : Writes(h, i, a)
<1>1. CASE TurnsTo(h) \/ ThreadEnds(h)
  BY <1>1 DEF TurnsTo, ThreadEnds
<1>2. ASSUME NEW i \in thread[h].todo, NEW v \in Verdict, NEW a \in Answer, AnswersOp(h, i, v, a)
      PROVE  UNCHANGED <<store, feed>> \/ Writes(h, i, a)
  <2>1. Records(h, i, v)
    BY <1>2 DEF AnswersOp
  <2>. QED BY <1>2, <2>1 DEF Records, Writes
<1>. QED BY <1>1, <1>2 DEF ThreadEffect

(* An op a thread writes was made on the version it replaces. *)
LEMMA WritesOnBase ==
    ASSUME Inv, OpsKnown, NEW h \in Handler, NEW i, NEW a, Writes(h, i, a)
    PROVE  /\ thread[h].dev \in Device /\ i \in Recorded(thread[h].dev) /\ OpOf(h, i).row \in Row
           /\ OpOf(h, i) = outbox[thread[h].dev][i] /\ IdOf(h, i) = <<thread[h].dev, i>>
           /\ OpOf(h, i).base = store[OpOf(h, i).row].version
           /\ OpOf(h, i).kind = "insert" <=> store[OpOf(h, i).row].version = 0
           /\ OpOf(h, i).kind \in Kind
<1>1. thread[h].dev \in Device /\ i \in Recorded(thread[h].dev) /\ OpOf(h, i) \in Op
  BY AtWork DEF Writes, Inv, InFlight, ThreadNamesOps
<1>2. OpKnown(thread[h].dev, i)
  BY <1>1 DEF OpsKnown
<1>3. OpOf(h, i) = outbox[thread[h].dev][i] /\ IdOf(h, i) = <<thread[h].dev, i>>
  BY DEF OpOf, IdOf
<1>4. OpOf(h, i).row \in Row /\ OpOf(h, i).kind \in Kind
  BY <1>1 DEF Op
<1>5. Fits(OpOf(h, i))
  BY DEF Writes
<1>. QED BY <1>1, <1>2, <1>3, <1>4, <1>5 DEF Fits, Kind, OpKnown, InsertKnown

(* The feed and the rows after a step of a thread. *)
LEMMA ServerFeed ==
    ASSUME Inv, FeedKnown, OpsKnown, NEW h \in Handler, ThreadEffect(h), UNCHANGED outbox
    PROVE  /\ FeedGrows /\ FeedKnown'
           /\ \A r \in Row : store[r].version \in Nat /\ store'[r].version \in Nat
                             /\ store[r].version <= store'[r].version
<1>1. \A r \in Row : store[r].version \in Nat
  BY DEF Inv, TypeOK, View
<1>2. CASE UNCHANGED <<store, feed>>
  <2>1. FeedKnown'
    BY <1>2 DEF FeedKnown, FeedRises, StoreIsLast, WrittenOnBase, ServerHad, Recorded
  <2>. QED BY <1>1, <1>2, <2>1, FeedSame
<1>3. ASSUME NEW i \in thread[h].todo, NEW a \in Answer, Writes(h, i, a)
      PROVE  /\ FeedGrows /\ FeedKnown'
             /\ \A r \in Row : store'[r].version \in Nat /\ store[r].version <= store'[r].version
  <2> PICK q : q = OpOf(h, i).row
    OBVIOUS
  <2> PICK w : w = IdOf(h, i)
    OBVIOUS
  <2>1. /\ q \in Row /\ w = <<thread[h].dev, i>>
        /\ outbox[thread[h].dev][i].row = q
        /\ outbox[thread[h].dev][i].base = store[q].version
    BY <1>3, WritesOnBase
  <2>2. Write(q, w)
    BY <1>3 DEF Writes
  <2>3. FeedKnown'
    BY <2>1, <2>2, FeedWritten
  <2>4. FeedGrows /\ store'[q] = [version |-> store[q].version + 1, by |-> w] /\ \A r \in Row \ {q} : store'[r] = store[r]
    BY <2>1, <2>2, WriteDoes
  <2>5. store'[q].version = store[q].version + 1
    BY <2>4
  <2>. QED BY <1>1, <2>1, <2>3, <2>4, <2>5
<1>. QED BY <1>1, <1>2, <1>3, ServerWritesOne

(* What is known of the ops after it. *)
LEMMA ServerOps ==
    ASSUME Inv, FeedKnown, OpsKnown, InsertIsFirst, NEW h \in Handler, ThreadKnown(h), ThreadEffect(h),
           UNCHANGED outbox, Keeps
    PROVE  OpsKnown'
<1> SUFFICES ASSUME NEW d \in Device, NEW k \in Recorded(d)
             PROVE  OpKnown(d, k)'
  BY DEF OpsKnown, Recorded
<1> PICK r \in Row : r = outbox[d][k].row
  BY OpTyped
<1>1. OpKnown(d, k) /\ <<d, k>> \in OpId
  BY OpTyped DEF OpsKnown
<1>2. store[r].version \in Nat /\ store'[r].version \in Nat /\ store[r].version <= store'[r].version
  BY ServerFeed
<1>3. processed[<<d, k>>] # "none" => processed'[<<d, k>>] = processed[<<d, k>>]
  BY <1>1 DEF Keeps, OutcomesAreFinal
<1>4. \/ processed'[<<d, k>>] = processed[<<d, k>>]
      \/ \E i \in thread[h].todo, v \in Outcome, a \in Answer :
            AnswersOp(h, i, v, a) /\ <<d, k>> = IdOf(h, i) /\ processed'[<<d, k>>] = v
  BY <1>1, ServerKeeps
<1>5. ASSUME processed[<<d, k>>] = "none", processed'[<<d, k>>] \in Failure
      PROVE  /\ thread[h].phase = "settle" /\ thread[h].verdict = processed'[<<d, k>>]
             /\ thread[h].dev = d /\ First(k, thread[h].todo) /\ UNCHANGED store
  <2>1. processed'[<<d, k>>] # "none"
    BY <1>5 DEF Failure
  <2> PICK i \in thread[h].todo, v \in Outcome, a \in Answer :
            AnswersOp(h, i, v, a) /\ <<d, k>> = IdOf(h, i) /\ processed'[<<d, k>>] = v
    BY <1>4, <1>5, <2>1
  <2>2. thread[h].dev = d /\ i = k
    BY DEF IdOf
  <2>3. Records(h, i, v) /\ First(i, thread[h].todo) /\ v \in Failure
    BY <1>5 DEF AnswersOp
  <2>4. /\ thread[h].phase = "settle" /\ v = thread[h].verdict /\ UNCHANGED store
    BY <1>5, <2>3 DEF Records, Failure
  <2>. QED BY <2>2, <2>3, <2>4
<1>6. ASSUME processed[<<d, k>>] = "none", processed'[<<d, k>>] = "rejected"
      PROVE  Dead(r)'
  <2>0. /\ thread[h].phase = "settle" /\ thread[h].verdict = "rejected"
        /\ thread[h].dev = d /\ First(k, thread[h].todo) /\ k \in thread[h].todo
    BY <1>5, <1>6 DEF Failure, First
  <2>1. outbox[d][k].kind = "insert" \/ Dead(r)
    BY <2>0 DEF ThreadKnown
  <2>2. CASE outbox[d][k].kind = "insert"
    <3>1. store'[r].version = 0
      <4>1. store'[r].version = store[r].version
        BY <1>5, <1>6 DEF Failure
      <4>2. ~(store[r].version > 0)
        BY <1>1, <1>6, <2>2 DEF OpKnown, InsertKnown
      <4>. QED BY <1>2, <4>1, <4>2
    <3>2. k \in Recorded(d)' /\ outbox'[d][k].row = r /\ outbox'[d][k].kind = "insert"
      BY <2>2 DEF Recorded
    <3>. QED BY <1>6, <3>1, <3>2 DEF Dead
  <2>3. Dead(r) => Dead(r)'
    BY DEF Keeps, DeadStays
  <2>. QED BY <2>1, <2>2, <2>3
<1>7. processed'[<<d, k>>] = "rejected" => Dead(r)'
  <2>1. Dead(r) => Dead(r)'
    BY DEF Keeps, DeadStays
  <2>. QED BY <1>1, <1>3, <1>6, <2>1 DEF OpKnown
<1>8. ASSUME outbox[d][k].kind = "insert", store'[r].version > 0
      PROVE  processed'[<<d, k>>] = "applied"
  <2>1. CASE store[r].version > 0
    BY <1>1, <1>3, <1>8, <2>1 DEF OpKnown, InsertKnown
  <2>2. CASE ~(store[r].version > 0)
    <3>1. store[r].version = 0 /\ store'[r] # store[r]
      BY <1>2, <1>8, <2>2
    <3> PICK i \in thread[h].todo, a \in Answer : Writes(h, i, a)
      BY <3>1, ServerWritesOne
    <3> PICK q : q = OpOf(h, i).row
      OBVIOUS
    <3>2. /\ thread[h].dev \in Device /\ i \in Recorded(thread[h].dev) /\ q \in Row
          /\ OpOf(h, i) = outbox[thread[h].dev][i] /\ IdOf(h, i) = <<thread[h].dev, i>>
          /\ OpOf(h, i).kind = "insert" <=> store[q].version = 0
      BY WritesOnBase
    <3>3. Write(q, IdOf(h, i)) /\ processed' = [processed EXCEPT ![IdOf(h, i)] = "applied"]
      BY DEF Writes
    <3>4. q = r
      BY <3>1, <3>2, <3>3, WriteDoes
    <3>5. OpOf(h, i).kind = "insert"
      BY <3>1, <3>2, <3>4
    <3>6. <<thread[h].dev, i>> = <<d, k>>
      BY <1>8, <3>2, <3>4, <3>5 DEF InsertIsFirst
    <3>7. <<d, k>> \in DOMAIN processed
      BY <1>1 DEF Inv, TypeOK
    <3>. QED BY <3>2, <3>3, <3>6, <3>7
  <2>. QED BY <2>1, <2>2
<1>9. outbox[d][k].kind = "insert" => processed'[<<d, k>>] # "conflict"
  <2>1. ASSUME outbox[d][k].kind = "insert", processed[<<d, k>>] = "none", processed'[<<d, k>>] = "conflict"
        PROVE  FALSE
    <3>1. /\ thread[h].phase = "settle" /\ thread[h].verdict = "conflict"
          /\ thread[h].dev = d /\ First(k, thread[h].todo) /\ k \in thread[h].todo
      BY <1>5, <2>1 DEF Failure, First
    <3>. QED BY <2>1, <3>1 DEF ThreadKnown
  <2>. QED BY <1>1, <1>3, <2>1 DEF OpKnown, InsertKnown
<1>10. store'[r].version = 0 => HasInsert(d, r)'
  <2>1. store'[r].version = 0 => store[r].version = 0
    BY <1>2
  <2>. QED BY <1>1, <2>1, HasInsertStays DEF OpKnown, Keeps
<1>11. outbox' = outbox /\ outbox'[d][k].row = r
  OBVIOUS
<1>12. (Dead(r)' => Dead(outbox[d][k].row)') /\ (HasInsert(d, r)' => HasInsert(d, outbox[d][k].row)')
  BY <1>11
<1>. QED BY <1>1, <1>7, <1>8, <1>9, <1>10, <1>11, <1>12 DEF OpKnown, InsertKnown, EditKnown

(* A thread turns to deciding or settling its op. *)
LEMMA TurnKnown ==
    ASSUME Inv, Inv', InsertIsFirst, ThreadAnswersFinal, OpsKnown, FinalRefusals \subseteq {"insert"},
           NEW h \in Handler, ThreadKnown(h), TurnsTo(h), UNCHANGED outbox
    PROVE  ThreadKnown(h)'
<1> PICK d : d = thread[h].dev
  OBVIOUS
<1> PICK answers : answers = thread[h].answers
  OBVIOUS
<1> PICK todo : todo = thread[h].todo
  OBVIOUS
<1>1. /\ thread'[h].dev = d /\ thread'[h].todo = todo
      /\ thread'[h].failed = thread[h].failed /\ thread'[h].answers = answers
      /\ UNCHANGED <<store, feed, processed>>
  BY DEF TurnsTo
<1> PICK i \in todo :
          /\ First(i, todo)
          /\ \/ thread'[h].phase = "apply" /\ ~Broke(h, OpOf(h, i).row)
             \/ /\ thread'[h].phase = "settle"
                /\ \/ /\ Broke(h, OpOf(h, i).row)
                      /\ thread'[h].verdict = thread[h].failed[OpOf(h, i).row]
                   \/ thread'[h].verdict = "rejected" /\ OpOf(h, i).kind \in FinalRefusals
                   \/ thread'[h].verdict = "conflict" /\ Loses(OpOf(h, i))
  BY DEF TurnsTo
<1>2. /\ thread[h].phase # "free" /\ d \in Device /\ todo \subseteq Recorded(d)
      /\ \A a \in answers : a.op \in Recorded(d)
  BY DEF Inv, InFlight, ThreadNamesOps, AnswersNameOps
<1>3. /\ \A a \in answers : \A k \in todo : a.op < k
      /\ Current(d, answers) /\ BrokenStaysBroken(d, answers)
      /\ \A a \in answers : Breaks(d, a) => Broke(h, outbox[d][a.op].row)
      /\ \A r \in Row : Broke(h, r) =>
            \E a \in answers : outbox[d][a.op].row = r /\ a.verdict = thread[h].failed[r]
  BY <1>2 DEF ThreadKnown
<1> PICK r \in Row : r = outbox[d][i].row
  BY <1>2, OpTyped
<1>4. OpOf(h, i) = outbox[d][i] /\ OpOf(h, i).kind \in {"insert", "update"} /\ OpKnown(d, i) /\ store[r].version \in Nat
  <2>1. outbox[d][i] \in Op /\ store[r].version \in Nat
    BY <1>2, OpTyped DEF Inv, TypeOK, View
  <2>. QED BY <1>2, <2>1 DEF OpOf, Op, Kind, OpsKnown
<1>5. \A k \in todo : First(k, todo) => k = i
  BY <1>2 DEF First, Recorded
<1>6. ASSUME thread'[h].phase = "settle"
      PROVE  /\ thread'[h].verdict = "rejected" => outbox[d][i].kind = "insert" \/ Dead(r)
             /\ thread'[h].verdict = "conflict" => outbox[d][i].kind = "update" \/ processed[<<d, i>>] = "applied"
  <2>1. CASE Broke(h, r) /\ thread'[h].verdict = thread[h].failed[r]
    <3> PICK a \in answers : outbox[d][a.op].row = r /\ a.verdict = thread[h].failed[r]
      BY <1>3, <2>1
    <3>1. a.op < i /\ a.op \in Recorded(d) /\ i \in Nat /\ a.op \in Nat
      <4>1. a.op \in Recorded(d) /\ i \in Recorded(d)
        BY <1>2
      <4>2. a.op < i
        BY <1>3
      <4>. QED BY <4>1, <4>2 DEF Recorded
    <3>2. outbox[d][i].kind # "insert"
      <4>1. outbox[d][i].kind = "insert" => i < a.op
        BY <1>2, <3>1 DEF InsertIsFirst
      <4>. QED BY <3>1, <4>1
    <3>3. a.verdict = "rejected" => processed[<<d, a.op>>] = "rejected"
      BY <1>2 DEF ThreadAnswersFinal, RecordedFor
    <3>4. a.verdict = "rejected" => Dead(r)
      BY <1>2, <3>1, <3>3 DEF OpsKnown, OpKnown
    <3>. QED BY <1>4, <2>1, <3>2, <3>4
  <2>2. CASE thread'[h].verdict = "rejected" /\ OpOf(h, i).kind \in FinalRefusals
    BY <1>4, <2>2
  <2>3. CASE thread'[h].verdict = "conflict" /\ Loses(OpOf(h, i))
    <3>1. outbox[d][i].kind = "insert" => store[r].version # 0
      BY <1>4, <2>3 DEF Loses
    <3>2. outbox[d][i].kind = "insert" => store[r].version > 0
      BY <1>4, <3>1
    <3>. QED BY <1>4, <2>3, <3>2 DEF OpKnown, InsertKnown
  <2>. QED BY <1>4, <1>6, <2>1, <2>2, <2>3
<1>7. Dead(r) => Dead(r)'
  BY <1>1 DEF Dead, Recorded
<1>8. thread'[h].phase = "settle" => \A k \in todo : First(k, todo) =>
          /\ thread'[h].verdict = "rejected" => outbox'[d][k].kind = "insert" \/ Dead(outbox[d][k].row)'
          /\ thread'[h].verdict = "conflict" => outbox'[d][k].kind = "update" \/ processed'[<<d, k>>] = "applied"
  <2>1. outbox'[d][i].row = r
    OBVIOUS
  <2>2. Dead(r)' => Dead(outbox[d][i].row)'
    BY <2>1
  <2>. QED BY <1>1, <1>5, <1>6, <1>7, <2>2
<1>9. Current(d, answers)' /\ BrokenStaysBroken(d, answers)'
  BY <1>1, <1>2, <1>3, CurrentStays, BrokenStays, FeedSame, OutboxSame
<1>10. \A q \in Row : Broke(h, q)' <=> Broke(h, q)
  BY <1>1 DEF Broke
<1>11. \A a \in answers : Breaks(d, a)' => Broke(h, outbox[d][a.op].row)'
  BY <1>1, <1>3 DEF Breaks, Broke
<1>12. \A q \in Row : Broke(h, q)' =>
           \E a \in answers : outbox'[d][a.op].row = q /\ a.verdict = thread'[h].failed[q]
  BY <1>1, <1>3, <1>10
<1>13. \A a \in answers : \A k \in todo : a.op < k
  BY <1>3
<1>14. (\A a \in thread[h].answers : \A k \in thread[h].todo : a.op < k)'
  BY <1>1, <1>13
<1>15. (Current(thread[h].dev, thread[h].answers) /\ BrokenStaysBroken(thread[h].dev, thread[h].answers))'
  BY <1>1, <1>9
<1>16. (\A a \in thread[h].answers :
          Breaks(thread[h].dev, a) => Broke(h, outbox[thread[h].dev][a.op].row))'
  BY <1>1, <1>11
<1>17. (\A q \in Row : Broke(h, q) =>
          \E a \in thread[h].answers :
             outbox[thread[h].dev][a.op].row = q /\ a.verdict = thread[h].failed[q])'
  BY <1>1, <1>12
<1>18. (thread[h].phase = "settle" => \A k \in thread[h].todo : First(k, thread[h].todo) =>
          /\ thread[h].verdict = "rejected" =>
                outbox[thread[h].dev][k].kind = "insert" \/ Dead(outbox[thread[h].dev][k].row)
          /\ thread[h].verdict = "conflict" =>
                outbox[thread[h].dev][k].kind = "update" \/ processed[<<thread[h].dev, k>>] = "applied")'
  BY <1>1, <1>8
<1>. QED BY <1>14, <1>15, <1>16, <1>17, <1>18 DEF ThreadKnown

(* A thread answers its op. *)
LEMMA AnswerKnown ==
    ASSUME Inv, NotBroke, FeedKnown', FeedGrows, NEW h \in Handler, ThreadKnown(h), UNCHANGED outbox,
           NEW i \in thread[h].todo, NEW v \in Verdict, NEW a \in Answer, AnswersOp(h, i, v, a)
    PROVE  ThreadKnown(h)'
<1> PICK d : d = thread[h].dev
  OBVIOUS
<1> PICK answers : answers = thread[h].answers
  OBVIOUS
<1> PICK todo : todo = thread[h].todo
  OBVIOUS
<1>1. /\ First(i, todo)
      /\ a.op = i /\ a.verdict = v /\ a.current = store'[OpOf(h, i).row]
      /\ thread'[h].phase \in {"lookup", "done"}
      /\ thread'[h].dev = d /\ thread'[h].todo = todo \ {i}
      /\ thread'[h].failed = Broken(thread[h].failed, OpOf(h, i), v)
      /\ thread'[h].answers = answers \cup {a}
      /\ Records(h, i, v)
  BY DEF AnswersOp
<1>2. /\ thread[h].phase # "free" /\ d \in Device /\ todo \subseteq Recorded(d)
      /\ \A b \in answers : b.op \in Recorded(d)
      /\ thread[h].failed \in Chain
  <2>1. thread[h].phase # "free" /\ thread[h].failed \in Chain
    BY AtWork DEF Inv, ThreadState
  <2>. QED BY <2>1 DEF Inv, InFlight, ThreadNamesOps, AnswersNameOps
<1>3. /\ \A b \in answers : \A k \in todo : b.op < k
      /\ Current(d, answers) /\ BrokenStaysBroken(d, answers)
      /\ \A b \in answers : Breaks(d, b) => Broke(h, outbox[d][b.op].row)
      /\ \A r \in Row : Broke(h, r) =>
            \E b \in answers : outbox[d][b.op].row = r /\ b.verdict = thread[h].failed[r]
  BY <1>2 DEF ThreadKnown
<1> PICK r \in Row : r = outbox[d][i].row
  BY <1>2, OpTyped
<1>4. OpOf(h, i) = outbox[d][i] /\ outbox[d][i] \in Op
  BY <1>2, OpTyped DEF OpOf
<1>5. \A k \in todo \ {i} : i < k
  BY <1>1, <1>2 DEF First, Recorded
<1>6. \A b \in answers \cup {a} : \A k \in todo \ {i} : b.op < k
  BY <1>1, <1>3, <1>5
<1>7. Current(d, answers \cup {a})'
  <2>1. Current(d, answers)'
    BY <1>2, <1>3, CurrentStays, OutboxSame
  <2>2. ServerHad(r, store[r])'
    BY DEF FeedKnown, StoreIsLast
  <2>3. a.current = store'[r] /\ outbox'[d][a.op].row = r
    BY <1>1, <1>4
  <2>4. ServerHad(outbox[d][a.op].row, a.current)'
    BY <2>2, <2>3
  <2>. QED BY <2>1, <2>4 DEF Current
<1>8. v = "retry" => ~Broke(h, r)
  <2> SUFFICES ASSUME v = "retry" PROVE ~Broke(h, r)
    OBVIOUS
  <2>1. RefuseForNow(h, i) \/ NotThereYet(h, i)
    BY <1>1 DEF Records, Outcome, Failure
  <2>2. thread[h].phase = "apply"
    BY <2>1 DEF RefuseForNow, NotThereYet, At
  <2>. QED BY <1>1, <1>4, <2>2 DEF NotBroke
<1>9. BrokenStaysBroken(d, answers \cup {a})'
  <2> SUFFICES ASSUME NEW x \in answers \cup {a}, NEW y \in answers \cup {a},
                      Before(d, x.op, y.op), Breaks(d, x)
               PROVE  y.verdict # "retry"
    BY DEF BrokenStaysBroken, Before, Breaks, Recorded
  <2>1. x.op < y.op /\ outbox[d][x.op].row = outbox[d][y.op].row
    BY DEF Before
  <2>2. i \in Nat /\ \A b \in answers : b.op \in Nat
    BY <1>2 DEF Recorded
  <2>3. CASE x \in answers /\ y \in answers
    BY <1>3, <2>3 DEF BrokenStaysBroken
  <2>4. CASE y = a /\ x \in answers
    BY <1>1, <1>3, <1>8, <2>1, <2>4
  <2>5. CASE x = a
    BY <1>1, <1>3, <2>1, <2>2, <2>5
  <2>. QED BY <2>3, <2>4, <2>5
<1>10. /\ \A q \in Row : Broke(h, q) => thread'[h].failed[q] # "none"
       /\ BreaksChain(outbox[d][i].kind, v) => thread'[h].failed[r] = v /\ v \in Failure
       /\ \A q \in Row : ~(BreaksChain(outbox[d][i].kind, v) /\ q = r) => thread'[h].failed[q] = thread[h].failed[q]
  BY <1>1, <1>2, <1>4, BrokenMore DEF Broke
<1>11. ASSUME NEW b \in answers \cup {a}, Breaks(d, b)'
       PROVE  Broke(h, outbox[d][b.op].row)'
  <2>1. Breaks(d, b)
    BY <1>11 DEF Breaks
  <2>2. CASE b = a
    <3>1. thread'[h].failed[r] \in Failure
      BY <1>1, <1>10, <2>1, <2>2 DEF Breaks
    <3>. QED BY <1>1, <2>2, <3>1 DEF Broke, Failure
  <2>3. CASE b \in answers
    <3>1. Broke(h, outbox[d][b.op].row) /\ outbox[d][b.op].row \in Row
      BY <1>2, <1>3, <2>1, <2>3, OpTyped
    <3>. QED BY <1>10, <3>1 DEF Broke
  <2>. QED BY <2>2, <2>3
<1>12. ASSUME NEW q \in Row, Broke(h, q)'
       PROVE  \E b \in answers \cup {a} : outbox'[d][b.op].row = q /\ b.verdict = thread'[h].failed[q]
  <2>1. CASE BreaksChain(outbox[d][i].kind, v) /\ q = r
    BY <1>1, <1>10, <2>1
  <2>2. CASE ~(BreaksChain(outbox[d][i].kind, v) /\ q = r)
    <3>1. thread'[h].failed[q] = thread[h].failed[q]
      BY <1>10, <2>2
    <3>2. Broke(h, q)
      BY <1>12, <3>1 DEF Broke
    <3>3. PICK b \in answers : outbox[d][b.op].row = q /\ b.verdict = thread[h].failed[q]
      BY <1>3, <3>2
    <3>. QED BY <3>1, <3>3
  <2>. QED BY <2>1, <2>2
<1>. QED BY <1>1, <1>6, <1>7, <1>9, <1>11, <1>12 DEF ThreadKnown

(* A set of positions that is not empty has a last one. *)
LEMMA LastPlace ==
    ASSUME NEW n \in Nat, NEW S, S \subseteq 1..n, S # {}
    PROVE  \E m \in S : \A k \in S : k <= m
<1> DEFINE Gaps == {n - m : m \in S}
<1>1. Gaps \subseteq Nat /\ Gaps # {}
  <2>1. \A m \in S : n - m \in Nat
    OBVIOUS
  <2>2. PICK m \in S : TRUE
    OBVIOUS
  <2>3. n - m \in Gaps
    OBVIOUS
  <2>. QED BY <2>1, <2>3
<1> HIDE DEF Gaps
<1>2. PICK x \in Gaps : \A y \in Gaps : ~(<<y, x>> \in OpToRel(<, Nat))
  BY <1>1, NatLessThanWellFounded, WFMin
<1>3. \A y \in Gaps : ~(y < x)
  BY <1>1, <1>2 DEF OpToRel
<1>4. PICK m \in S : x = n - m
  BY <1>2 DEF Gaps
<1>5. \A k \in S : k <= m
  <2> SUFFICES ASSUME NEW k \in S PROVE k <= m
    OBVIOUS
  <2>1. n - k \in Gaps
    BY DEF Gaps
  <2>2. ~(n - k < n - m)
    BY <1>3, <1>4, <2>1
  <2>. QED BY <2>2
<1>. QED BY <1>5

(* What a change of the feed replaced stays so. *)
LEMMA ReplacedStays ==
    ASSUME Inv, FeedGrows, NEW n \in DOMAIN feed
    PROVE  Replaced(n)' = Replaced(n)
<1> DEFINE earlier == {m \in 1..(n - 1) : feed[m].row = feed[n].row}
<1>1. n \in Nat /\ n \in 1..Len(feed) /\ DOMAIN feed = 1..Len(feed) /\ Len(feed) \in Nat
  BY FeedPlaces
<1>2. 1..(n - 1) \subseteq DOMAIN feed /\ n - 1 \in Nat
  BY <1>1
<1>3. {m \in 1..(n - 1) : feed'[m].row = feed'[n].row} = earlier
  BY <1>2 DEF FeedGrows
<1> DEFINE last == CHOOSE x \in earlier : \A l \in earlier : l <= x
<1>4. earlier # {} => last \in earlier
  <2>1. earlier \subseteq 1..(n - 1)
    OBVIOUS
  <2>2. earlier # {} => \E x \in earlier : \A l \in earlier : l <= x
    BY <1>2, <2>1, LastPlace
  <2> HIDE DEF earlier
  <2>. QED BY <2>2
<1>5. last \in earlier => feed'[last] = feed[last]
  BY <1>2 DEF FeedGrows
<1>6. Replaced(n) = IF earlier = {} THEN Origin ELSE feed[last].by
  BY DEF Replaced
<1>7. Replaced(n)' = IF earlier = {} THEN Origin ELSE feed'[last].by
  <2>1. Replaced(n)' =
          IF {m \in 1..(n - 1) : feed'[m].row = feed'[n].row} = {} THEN Origin
          ELSE feed'[CHOOSE x \in {m \in 1..(n - 1) : feed'[m].row = feed'[n].row} :
                        \A l \in {m \in 1..(n - 1) : feed'[m].row = feed'[n].row} : l <= x].by
    BY DEF Replaced
  <2>. QED BY <1>3, <2>1
<1> HIDE DEF earlier, last
<1>. QED BY <1>4, <1>5, <1>6, <1>7

(* No edit overwrites a write its author had not seen, as long as the new writes do not. *)
LEMMA UnseenKept ==
    ASSUME Inv, Inv', OutcomesOfRecorded, OutcomesOfRecorded', SameOps, FeedGrows, NoUnseenOverwrite,
           \A n \in DOMAIN feed' \ DOMAIN feed : \A d \in Device : \A i \in Recorded(d)' :
               feed'[n].by = <<d, i>> => outbox'[d][i].parent = Replaced(n)'
    PROVE  NoUnseenOverwrite'
<1> SUFFICES ASSUME NEW n \in DOMAIN feed', feed'[n].by \in OpId
             PROVE  outbox'[feed'[n].by[1]][feed'[n].by[2]].parent = Replaced(n)'
  BY DEF NoUnseenOverwrite
<1> PICK d \in Device, i \in 1..MaxOps : feed'[n].by = <<d, i>>
  BY DEF OpId
<1>1. feed'[n].by[1] = d /\ feed'[n].by[2] = i /\ <<d, i>> \in OpId
  BY DEF OpId
<1>2. CASE n \in DOMAIN feed
  <2>1. feed[n].by = <<d, i>> /\ n \in WrittenBy(<<d, i>>)
    BY <1>2 DEF FeedGrows, WrittenBy
  <2>2. processed[<<d, i>>] = "applied"
    BY <1>1, <2>1 DEF Inv, AppliedOnce
  <2>3. i \in Recorded(d)
    BY <2>2 DEF OutcomesOfRecorded
  <2>4. outbox[d][i].parent = Replaced(n)
    BY <1>1, <1>2, <2>1 DEF NoUnseenOverwrite
  <2>5. outbox'[d][i].parent = outbox[d][i].parent
    BY <2>3 DEF SameOps, KeepsOp
  <2>. QED BY <1>1, <1>2, <2>4, <2>5, ReplacedStays
<1>3. CASE n \notin DOMAIN feed
  <2>1. n \in WrittenBy(<<d, i>>)'
    BY DEF WrittenBy
  <2>2. processed'[<<d, i>>] = "applied"
    BY <1>1, <2>1 DEF Inv, AppliedOnce
  <2>3. i \in Recorded(d)'
    BY <2>2 DEF OutcomesOfRecorded
  <2>. QED BY <1>1, <1>3, <2>3
<1>. QED BY <1>2, <1>3

(* An op that a thread takes was made on one that was taken, if on an own one at all. *)
LEMMA ParentTaken ==
    ASSUME HeldInv, HeldInv', OpsKnown', Keeps, NEW h \in Handler, ThreadEffect(h),
           UNCHANGED <<outbox, push>>,
           NEW d \in Device, NEW i \in Recorded(d), ~Taken(d, i), Taken(d, i)',
           NEW j \in Recorded(d), MadeOn(d, j, i), Follows(d, j, i)
    PROVE  Taken(d, j)' \/ Dead(outbox[d][i].row)'
<1>1. /\ Inv /\ Inv' /\ InTurn' /\ StatusesStand' /\ PushOK(d)' /\ SameOps
  BY DEF HeldInv, ThreadsOK, Keeps
<1>2. /\ outbox[d][i] \in Op /\ <<d, i>> \in OpId /\ outbox[d][j] \in Op /\ <<d, j>> \in OpId
      /\ Recorded(d)' = Recorded(d)
  BY <1>1, OpTyped DEF Recorded
<1>3. processed'[<<d, i>>] = "applied" /\ processed[<<d, i>>] = "none"
  BY <1>2 DEF Taken, Keeps, OutcomesAreFinal
<1>4. ~Doomed(d, i)'
  BY <1>3 DEF Doomed
<1>5. Waits(d, i)
  <2>1. outbox[d][i].status # "acked"
    BY <1>1, <1>3 DEF Inv, AnswersAreTrue
  <2>2. outbox[d][i].status \notin Failure \cup {"dismissed"}
    <3>1. ~NeverTaken(d, i)'
      BY <1>3, <1>4 DEF NeverTaken, Failure
    <3>. QED BY <1>1, <1>2, <3>1 DEF StatusesStand
  <2>3. outbox[d][i].status \in Status
    BY <1>2 DEF Op
  <2>. QED BY <2>1, <2>2, <2>3 DEF Status, Failure, Waits
<1>6. CASE Taken(d, j)
  BY <1>1, <1>6, TakenStays DEF Keeps
<1>7. CASE Waits(d, j)
  <2>1. Before(d, j, i)' /\ Waits(d, j)' /\ Waits(d, i)'
    BY <1>1, <1>5, <1>7, BeforeKept DEF MadeOn, Waits
  <2>2. Passed(d, j)'
    BY <1>1, <1>2, <1>3, <2>1 DEF InTurn
  <2>3. OpKnown(d, j)'
    BY <1>2 DEF OpsKnown
  <2>4. outbox'[d][j].kind \in Kind /\ processed'[<<d, j>>] \in {"none"} \cup Outcome /\ outbox'[d][j].row = outbox[d][i].row
    BY <1>1, <1>2, <2>1 DEF Op, Inv, TypeOK, Before
  <2>5. Dead(outbox[d][j].row)' => Dead(outbox[d][i].row)'
    BY <2>4
  <2>6. processed'[<<d, j>>] # "conflict"
    BY <2>2, <2>3, <2>4 DEF Passed, BrokeChain, BreaksChain, OpKnown, InsertKnown, Kind
  <2>7. processed'[<<d, j>>] # "none"
    BY <2>2 DEF Passed
  <2>. QED BY <2>3, <2>4, <2>5, <2>6, <2>7 DEF OpKnown, Taken, Outcome, Failure
<1>8. CASE i \in push[d].todo /\ push[d].failed[outbox[d][i].row] # "none"
  BY <1>1, <1>4, <1>8 DEF PushOK, RestDoomed
<1>. QED BY <1>3, <1>5, <1>6, <1>7, <1>8 DEF Follows

(* A thread's step leaves the devices what they know. *)
LEMMA ServerDevices ==
    ASSUME Inv, Inv', Steady, FeedKnown', NEW h \in Handler, ThreadEffect(h),
           \A g \in Handler \ {h} : thread'[g] = thread[g],
           UNCHANGED <<outbox, local, form, push, cursor>>, NEW e \in Device, DeviceKnown(e)
    PROVE  DeviceKnown(e)'
<1>1. Recorded(e)' = Recorded(e) /\ \A i \in Recorded(e) : Waits(e, i) => Waits(e, i)'
  BY DEF Recorded, Waits
<1>2. push[e].phase = "waiting" =>
          push[e].on \in Handler /\ thread[push[e].on].phase # "free" /\ thread[push[e].on].dev = e
  BY DEF Inv, InFlight, WaitsOnItsThread
<1>3. CASE push[e].phase = "waiting" /\ push[e].on = h
  <2>1. ~ThreadEnds(h)
    BY <1>3 DEF ThreadEnds
  <2>2. CASE TurnsTo(h)
    <3>1. Carried(e)' = Carried(e) /\ thread'[h].answers = thread[h].answers
      BY <1>3, <2>2 DEF TurnsTo, Carried, Sent
    <3>. QED BY <1>1, <1>3, <3>1, DeviceAside
  <2>3. ASSUME NEW i \in thread[h].todo, NEW v \in Verdict, NEW a \in Answer, AnswersOp(h, i, v, a)
        PROVE  DeviceKnown(e)'
    <3>1. /\ a.op = i /\ a.current = store'[OpOf(h, i).row]
          /\ thread'[h].todo = thread[h].todo \ {i} /\ thread'[h].answers = thread[h].answers \cup {a}
      BY <2>3 DEF AnswersOp
    <3>2. OpsOf(thread[h].answers \cup {a}) = OpsOf(thread[h].answers) \cup {i}
      BY <3>1 DEF OpsOf
    <3>3. Carried(e)' = Carried(e)
      <4>1. /\ Sent(e) = thread[h].todo \cup OpsOf(thread[h].answers)
            /\ Sent(e)' = thread'[h].todo \cup OpsOf(thread'[h].answers)
        BY <1>3 DEF Sent, OpsOf
      <4>2. thread'[h].todo \cup OpsOf(thread'[h].answers)
                = (thread[h].todo \ {i}) \cup (OpsOf(thread[h].answers) \cup {i})
        BY <3>1, <3>2
      <4>3. (thread[h].todo \ {i}) \cup (OpsOf(thread[h].answers) \cup {i})
                = thread[h].todo \cup OpsOf(thread[h].answers)
        <5> DEFINE ops == OpsOf(thread[h].answers)
        <5> HIDE DEF ops
        <5>1. (thread[h].todo \ {i}) \cup (ops \cup {i}) = thread[h].todo \cup ops
          BY <2>3
        <5>. QED BY <5>1 DEF ops
      <4>4. Sent(e)' = Sent(e)
        BY <4>1, <4>2, <4>3
      <4>. QED BY <4>4 DEF Carried
    <3> PICK r : r = outbox[e][i].row
      OBVIOUS
    <3>4. a.current = store'[r]
      BY <1>2, <1>3, <3>1 DEF OpOf
    <3>5. Seen(e, outbox[e][a.op].row, a.current)'
      <4>1. outbox'[e][a.op].row = r
        BY <3>1
      <4>2. \A n \in DOMAIN feed' : feed'[n].row = r => feed'[n].version <= store'[r].version
        BY DEF FeedKnown, FeedRises
      <4>. QED BY <3>4, <4>1, <4>2 DEF Seen
    <3>. QED BY <1>1, <1>3, <3>1, <3>3, <3>5, DeviceAside
  <2>. QED BY <2>1, <2>2, <2>3 DEF ThreadEffect
<1>4. CASE ~(push[e].phase = "waiting" /\ push[e].on = h)
  <2>1. push[e].phase = "waiting" => thread'[push[e].on] = thread[push[e].on]
    BY <1>2, <1>4
  <2>2. Carried(e)' = Carried(e)
    BY <2>1 DEF Carried, Sent
  <2>. QED BY <1>1, <2>1, <2>2, DeviceAside
<1>. QED BY <1>3, <1>4

(* A step of a thread. *)
LEMMA ServerKnown ==
    ASSUME HeldInv, HeldInv', HeldBack, KnownInv, NoUnseenOverwrite, FinalRefusals \subseteq {"insert"},
           NEW h \in Handler, ServerStep(h)
    PROVE  KnownInv' /\ NoUnseenOverwrite'
<1>1. /\ Inv /\ Inv' /\ ThreadsOK /\ ThreadsOK'
      /\ FeedKnown /\ OpsKnown /\ \A g \in Handler : ThreadKnown(g)
  BY DEF HeldInv, KnownInv
<1>2. /\ InsertIsFirst /\ OutcomesOfRecorded /\ OutcomesOfRecorded' /\ NotBroke /\ ThreadAnswersFinal
  BY <1>1 DEF ThreadsOK
<1>3. /\ ThreadEffect(h) /\ \A g \in Handler \ {h} : thread'[g] = thread[g]
      /\ UNCHANGED <<outbox, local, form, push, cursor>>
  BY <1>1, ServerDoes
<1>4. Keeps /\ SameOps
  BY <1>1, <1>3, ServerThreads DEF Keeps
<1>5. /\ FeedGrows /\ FeedKnown'
      /\ \A r \in Row : store[r].version \in Nat /\ store'[r].version \in Nat
  BY <1>1, <1>3, ServerFeed
<1>6. Steady
  BY <1>4, <1>5 DEF Steady
<1>7. OpsKnown'
  BY <1>1, <1>2, <1>3, <1>4, ServerOps
<1>8. ASSUME NEW g \in Handler
      PROVE  ThreadKnown(g)'
  <2>1. CASE g # h
    BY <1>1, <1>3, <1>6, <2>1, ThreadKept
  <2>2. CASE ThreadEnds(h) /\ g = h
    BY <1>1, <1>6, <2>2, ThreadKept DEF ThreadEnds
  <2>3. CASE TurnsTo(h) /\ g = h
    BY <1>1, <1>2, <1>3, <2>3, TurnKnown
  <2>4. CASE g = h /\ \E i \in thread[h].todo, v \in Verdict, a \in Answer : AnswersOp(h, i, v, a)
    BY <1>1, <1>2, <1>3, <1>5, <2>4, AnswerKnown
  <2>. QED BY <1>3, <2>1, <2>2, <2>3, <2>4 DEF ThreadEffect
<1>9. \A e \in Device : DeviceKnown(e)'
  BY <1>1, <1>3, <1>5, <1>6, ServerDevices DEF KnownInv
<1>10. \A d \in Device : Recorded(d)' = Recorded(d)
  BY <1>3 DEF Recorded
<1>11. ASSUME NEW d \in Device, NEW i \in Recorded(d)
       PROVE  Parented(d, i)'
  <2>1. Parented(d, i)
    BY DEF KnownInv
  <2> SUFFICES ASSUME NEW j \in Recorded(d), MadeOn(d, j, i), Follows(d, j, i)
               PROVE  Follows(d, j, i)' \/ Dead(outbox[d][i].row)'
    BY <1>1, <1>6, <2>1, ParentKept
  <2>2. CASE Taken(d, i)' => Taken(d, i)
    BY <1>1, <1>3, <1>4, <2>2, FollowsKept DEF Waits
  <2>3. CASE ~(Taken(d, i)' => Taken(d, i))
    <3>1. Taken(d, j)' \/ Dead(outbox[d][i].row)'
      BY <1>3, <1>4, <1>7, <2>3, ParentTaken
    <3>. QED BY <3>1 DEF Follows
  <2>. QED BY <2>2, <2>3
<1>12. KnownInv'
  BY <1>5, <1>7, <1>8, <1>9, <1>10, <1>11 DEF KnownInv
<1>13. ASSUME NEW i \in thread[h].todo, NEW a \in Answer, Writes(h, i, a)
       PROVE  NoUnseenOverwrite'
  <2> PICK d : d = thread[h].dev
    OBVIOUS
  <2> PICK r : r = OpOf(h, i).row
    OBVIOUS
  <2> PICK n : n = Len(feed) + 1
    OBVIOUS
  <2>1. /\ d \in Device /\ i \in Recorded(d) /\ r \in Row
        /\ OpOf(h, i) = outbox[d][i] /\ IdOf(h, i) = <<d, i>>
        /\ outbox[d][i].base = store[r].version
        /\ outbox[d][i].kind = "insert" <=> store[r].version = 0
        /\ outbox[d][i].kind \in Kind
    BY <1>1, <1>13, WritesOnBase
  <2>2. Write(r, <<d, i>>) /\ processed[<<d, i>>] = "none"
        /\ processed' = [processed EXCEPT ![<<d, i>>] = "applied"]
    BY <1>13, <2>1 DEF Writes
  <2>3. /\ DOMAIN feed' = DOMAIN feed \cup {n} /\ feed'[n].by = <<d, i>>
        /\ store'[r] = [version |-> store[r].version + 1, by |-> <<d, i>>]
    BY <1>1, <2>1, <2>2, WriteDoes
  <2>4. Replaced(n)' = store[r].by
    BY <1>1, <2>1, <2>2, ReplacedIsStored
  <2>5. ServerHad(r, store[r]) /\ store[r] \in View
    BY <1>1, <2>1 DEF FeedKnown, StoreIsLast, Inv, TypeOK
  <2>6. ASSUME outbox[d][i].kind = "insert"
        PROVE  outbox[d][i].parent = store[r].by
    <3>1. store[r].version = 0 /\ outbox[d][i].parent = Origin
      BY <1>1, <2>1, <2>6 DEF OpsKnown, OpKnown, InsertKnown
    <3>2. \A k \in DOMAIN feed : feed[k].row # r
      BY <1>1, <2>1, <3>1, NeverThere
    <3>3. store[r] = Seeded(r)
      BY <2>5, <3>2 DEF ServerHad
    <3>4. store[r].by = Origin
      BY <3>3 DEF Seeded, Absent
    <3>. QED BY <3>1, <3>4
  <2>7. ASSUME outbox[d][i].kind = "update"
        PROVE  outbox[d][i].parent = store[r].by
    <3> PICK v : v = [version |-> outbox[d][i].base, by |-> outbox[d][i].parent]
      OBVIOUS
    <3>1. ~Dead(r)
      BY <1>1, <1>2, <1>13, <2>1, <2>2, WrittenIsAlive DEF Writes
    <3>2. ~Dead(r)'
      <4>1. store'[r].version = store[r].version + 1
        BY <2>3
      <4>2. store'[r].version # 0
        BY <1>5, <2>1, <4>1
      <4>. QED BY <4>2 DEF Dead
    <3>3. ASSUME NEW j \in Recorded(d), MadeOn(d, j, i), Follows(d, j, i)
          PROVE  ServerHad(r, v)
      <4>1. <<d, i>> \in OpId /\ <<d, i>> \in DOMAIN processed
        BY <1>1, <2>1, OpTyped DEF Inv, TypeOK
      <4>2. ~Taken(d, i) /\ Taken(d, i)'
        BY <2>2, <4>1 DEF Taken
      <4>3. Dead(outbox[d][i].row)' => Dead(r)'
        BY <1>3, <2>1
      <4>4. Taken(d, j)'
        BY <1>3, <1>4, <1>7, <2>1, <3>2, <3>3, <4>2, <4>3, ParentTaken
      <4>5. j # i /\ outbox[d][j].row = r
        <5>1. j < i /\ outbox[d][j].row = outbox[d][i].row
          BY <3>3 DEF MadeOn, Before
        <5>2. outbox[d][i].row = r
          BY <2>1
        <5>3. i \in Int
          BY <2>1 DEF Recorded
        <5>4. j # i
          BY <5>1, <5>3
        <5>. QED BY <5>1, <5>2, <5>4
      <4>6. Taken(d, j)
        BY <2>2, <4>4, <4>5 DEF Taken
      <4>7. Own(d, r, v, j)
        BY <3>3, <4>5 DEF MadeOn, Own
      <4>. QED BY <1>1, <2>1, <4>6, <4>7, TakenHad
    <3>4. Parented(d, i) /\ outbox[d][i].row = r
      BY <2>1 DEF KnownInv
    <3>5. ServerHad(r, v)
      BY <2>7, <3>1, <3>3, <3>4 DEF Parented
    <3>6. v.version = store[r].version
      BY <2>1
    <3>7. v = store[r]
      BY <1>1, <2>1, <3>5, <3>6, HadVersions
    <3>8. v.by = outbox[d][i].parent
      OBVIOUS
    <3>. QED BY <3>7, <3>8
  <2>8. outbox[d][i].parent = Replaced(n)'
    BY <2>1, <2>4, <2>6, <2>7 DEF Kind
  <2>9. ASSUME NEW m \in DOMAIN feed' \ DOMAIN feed, NEW e \in Device, NEW k \in Recorded(e)',
               feed'[m].by = <<e, k>>
        PROVE  outbox'[e][k].parent = Replaced(m)'
    <3>1. m = n /\ e = d /\ k = i
      BY <2>3, <2>9
    <3>2. Replaced(m)' = Replaced(n)'
      BY <3>1
    <3>. QED BY <1>3, <2>8, <3>1, <3>2
  <2>. QED BY <1>1, <1>2, <1>4, <1>5, <2>9, UnseenKept
<1>14. ASSUME UNCHANGED <<store, feed>>
       PROVE  NoUnseenOverwrite'
  <2>1. DOMAIN feed' \ DOMAIN feed = {}
    BY <1>14
  <2>. QED BY <1>1, <1>2, <1>4, <1>5, <2>1, UnseenKept
<1>15. UNCHANGED <<store, feed>> \/ \E i \in thread[h].todo, a \in Answer : Writes(h, i, a)
  BY <1>3, ServerWritesOne
<1>16. NoUnseenOverwrite'
  BY <1>13, <1>14, <1>15
<1>. QED BY <1>12, <1>16

(* A write through the REST API replaces a row that is there. *)
LEMMA RestKnown ==
    ASSUME HeldInv, HeldInv', KnownInv, NoUnseenOverwrite, NEW r \in Row, RestEdit(r)
    PROVE  KnownInv' /\ NoUnseenOverwrite'
<1> PICK w : w = <<Rest, faults.rest + 1>>
  OBVIOUS
<1>1. /\ Inv /\ Inv' /\ OutcomesOfRecorded /\ OutcomesOfRecorded'
      /\ FeedKnown /\ OpsKnown
  BY DEF HeldInv, ThreadsOK, KnownInv
<1>2. /\ store[r].version > 0 /\ Write(r, w)
      /\ UNCHANGED <<outbox, local, form, push, cursor, processed, thread>>
  BY DEF RestEdit, clientVars
<1>3. \A d \in Device, i \in Nat : w # <<d, i>>
  BY SetsAssumption
<1>4. /\ FeedGrows
      /\ DOMAIN feed' = DOMAIN feed \cup {Len(feed) + 1} /\ feed'[Len(feed) + 1].by = w
      /\ store'[r].version > 0 /\ \A q \in Row \ {r} : store'[q] = store[q]
  <2>1. /\ store[r].version \in Nat
        /\ store'[r] = [version |-> store[r].version + 1, by |-> w]
        /\ DOMAIN feed' = DOMAIN feed \cup {Len(feed) + 1} /\ feed'[Len(feed) + 1].by = w
        /\ FeedGrows /\ \A q \in Row \ {r} : store'[q] = store[q]
    BY <1>1, <1>2, WriteDoes
  <2>2. store'[r].version = store[r].version + 1
    BY <2>1
  <2>. QED BY <2>1, <2>2
<1>5. \A d \in Device : Recorded(d)' = Recorded(d) /\ \A i \in Recorded(d) : i \in Nat
  BY <1>2 DEF Recorded
<1>6. FeedKnown'
  BY <1>1, <1>2, <1>3, <1>5, FeedWritten
<1>7. Keeps /\ SameOps /\ Steady
  <2>1. \A q \in Row : Dead(q) => store'[q].version = 0
    BY <1>2, <1>4 DEF Dead
  <2>2. SameOps /\ OutcomesAreFinal
    BY <1>2, OutboxSame DEF OutcomesAreFinal
  <2>. QED BY <1>1, <1>4, <2>1, <2>2, DeadKept DEF Keeps, Steady
<1>8. ASSUME NEW d \in Device, NEW k \in Recorded(d)
      PROVE  OpKnown(d, k)'
  <2> PICK q \in Row : q = outbox[d][k].row
    BY <1>1, OpTyped
  <2>1. /\ store'[q].version > 0 => store[q].version > 0
        /\ store'[q].version = 0 => store[q].version = 0
    BY <1>2, <1>4
  <2>2. OpKnown(d, k)
    BY <1>1 DEF OpsKnown
  <2>3. HasInsert(d, q) => HasInsert(d, q)'
    BY <1>2, <1>5 DEF HasInsert
  <2>4. Dead(q) => Dead(q)'
    BY <1>7 DEF Keeps, DeadStays
  <2>5. InsertKnown(d, k)' /\ EditKnown(d, k)'
    BY <1>2, <2>1, <2>2 DEF OpKnown, InsertKnown, EditKnown
  <2>. QED BY <1>2, <2>1, <2>2, <2>3, <2>4, <2>5 DEF OpKnown
<1>9. \A h \in Handler : ThreadKnown(h)'
  BY <1>1, <1>2, <1>7, ThreadKept DEF KnownInv
<1>10. ASSUME NEW e \in Device
       PROVE  DeviceKnown(e)'
  <2>1. Carried(e)' = Carried(e)
    BY <1>2 DEF Carried, Sent
  <2>2. \A i \in Recorded(e) : Waits(e, i) => Waits(e, i)'
    BY <1>2 DEF Waits
  <2>. QED BY <1>1, <1>2, <1>5, <1>7, <2>1, <2>2, DeviceAside DEF KnownInv
<1>11. ASSUME NEW d \in Device, NEW i \in Recorded(d)
       PROVE  Parented(d, i)'
  <2>1. Parented(d, i)
    BY DEF KnownInv
  <2>2. \A j \in Recorded(d) : Follows(d, j, i) => Follows(d, j, i)'
    BY <1>2 DEF Follows, Taken, Waits
  <2>. QED BY <1>1, <1>7, <2>1, <2>2, ParentKept
<1>12. OpsKnown'
  BY <1>5, <1>8 DEF OpsKnown
<1>13. KnownInv'
  BY <1>5, <1>6, <1>9, <1>10, <1>11, <1>12 DEF KnownInv
<1>14. NoUnseenOverwrite'
  <2>1. \A n \in DOMAIN feed' \ DOMAIN feed : \A d \in Device : \A i \in Recorded(d)' :
            feed'[n].by # <<d, i>>
    BY <1>3, <1>4, <1>5
  <2>. QED BY <1>1, <1>4, <1>7, <2>1, UnseenKept
<1>. QED BY <1>13, <1>14

(* A sync changes only the status of ops, and nothing on the server but threads. *)
LEMMA SyncMarks ==
    ASSUME Inv, NEW d \in Device,
           \/ SyncStep(d) \/ LoseConnection(d) \/ KillApp(d)
           \/ \E u \in User : StartSync(d, u)
    PROVE  SameOps /\ FeedGrows /\ DOMAIN feed' \ DOMAIN feed = {}
<1>1. push[d].todo \subseteq Recorded(d) /\ TypeOK /\ \A a \in push[d].answers : a.op \in Recorded(d)
  BY AtPush DEF Inv
<1>2. UNCHANGED feed
  BY DEF SyncStep, FillBatch, SendBatch, EndPush, ReceiveAnswers, ReadAnswer, Overwrite, NextBatch,
         PullChange, EndSync, LoseConnection, KillApp, StartSync, serverVars
<1>3. ASSUME NEW n \in Recorded(d), NEW s \in Status \ {"pending"}, SetStatus(d, n, s)
      PROVE  SameOps
  BY <1>1, <1>3, MarkedKeeps
<1>4. ASSUME NEW n \in push[d].todo, FillBatch(d, n)
      PROVE  SameOps
  <2>1. \/ UNCHANGED outbox
        \/ \E s \in Failure : SetStatus(d, n, s)
    BY <1>4, FillBatchDoes
  <2>. QED BY <1>1, <1>3, <2>1, OutboxSame DEF Failure, Status
<1>5. ASSUME NEW a \in push[d].answers, ReadAnswer(d, a)
      PROVE  SameOps
  <2>1. \/ UNCHANGED outbox
        \/ SetStatus(d, a.op, "acked")
        \/ \E s \in Failure : SetStatus(d, a.op, s)
    BY <1>5, ReadAnswerDoes DEF Failure
  <2>. QED BY <1>1, <1>3, <2>1, OutboxSame DEF Failure, Status
<1>6. \/ UNCHANGED outbox
      \/ \E n \in push[d].todo : FillBatch(d, n)
      \/ \E a \in push[d].answers : ReadAnswer(d, a)
  BY DEF SyncStep, SendBatch, EndPush, ReceiveAnswers, Overwrite, NextBatch,
         PullChange, EndSync, LoseConnection, KillApp, StartSync
<1>7. SameOps
  BY <1>4, <1>5, <1>6, OutboxSame
<1>. QED BY <1>2, <1>7, FeedSame

(* What is known holds at the start. *)
LEMMA InitiallyKnown == Init => KnownInv /\ NoUnseenOverwrite
<1> SUFFICES ASSUME Init PROVE KnownInv /\ NoUnseenOverwrite
  OBVIOUS
<1>1. /\ DOMAIN feed = {} /\ Len(feed) = 0
      /\ \A r \in Row : store[r] = Seeded(r)
      /\ \A d \in Device : Recorded(d) = {} /\ form[d] = None /\ cursor[d] = 0
      /\ \A d \in Device : \A r \in Row : local[d][r] = Seeded(r)
  BY DEF Init, Recorded
<1>2. FeedKnown
  BY <1>1 DEF FeedKnown, FeedRises, StoreIsLast, WrittenOnBase, ServerHad
<1>3. OpsKnown
  BY <1>1 DEF OpsKnown
<1>4. \A h \in Handler : ThreadKnown(h)
  BY DEF Init, Free, ThreadKnown
<1>5. ASSUME NEW d \in Device
      PROVE  DeviceKnown(d)
  <2>1. push[d].phase = "idle" /\ push[d].failed = Unbroken /\ push[d].answers = {}
    BY DEF Init, Idle
  <2>2. Current(d, push[d].answers) /\ BrokenStaysBroken(d, push[d].answers)
    BY <2>1 DEF Current, BrokenStaysBroken
  <2>3. FailedKnown(d)
    BY <2>1 DEF FailedKnown, Unbroken
  <2>4. AllGo(d)
    BY <1>1 DEF AllGo
  <2>5. LocalKnown(d)
    BY <1>1 DEF LocalKnown, ServerHad
  <2>6. FormKnown(d)
    BY <1>1 DEF FormKnown
  <2>7. SeenKnown(d)
    BY <1>1, <2>1 DEF SeenKnown, Seen, SeenIn
  <2>. QED BY <2>2, <2>3, <2>4, <2>5, <2>6, <2>7 DEF DeviceKnown, PushKnown
<1>6. KnownInv
  BY <1>1, <1>2, <1>3, <1>4, <1>5 DEF KnownInv
<1>7. NoUnseenOverwrite
  BY <1>1 DEF NoUnseenOverwrite
<1>. QED BY <1>6, <1>7

(* What is known stays known, as long as the conditions hold. *)
LEMMA KnownNext ==
    ASSUME HeldInv, HeldInv', KnownInv, NoUnseenOverwrite, ~EditDuringSync,
           FinalRefusals \subseteq {"insert"}, [Next /\ HeldBack /\ CleanStop /\ OwnChain]_vars
    PROVE  KnownInv' /\ NoUnseenOverwrite'
<1>1. /\ Inv /\ Inv' /\ FormStands /\ OutcomesOfRecorded /\ OutcomesOfRecorded'
  BY DEF HeldInv, ThreadsOK
<1>2. CASE UNCHANGED vars
  <2>1. UNCHANGED <<outbox, local, form, push, cursor, store, feed, processed, thread>>
    BY <1>2 DEF vars
  <2>2. KnownInv'
    <3>1. \A d \in Device : Recorded(d)' = Recorded(d)
      BY <2>1 DEF Recorded
    <3>2. Keeps /\ Steady
      BY <1>1, <2>1, OutboxStays, OutboxSame, QuietKeeps DEF Steady
    <3>3. FeedKnown'
      BY <1>1, <2>1, <3>2, FeedKept DEF Keeps, KnownInv
    <3>4. OpsKnown'
      BY <1>1, <2>1, <3>1, <3>2, OpsKept DEF KnownInv
    <3>5. \A h \in Handler : ThreadKnown(h)'
      BY <1>1, <2>1, <3>2, ThreadKept DEF KnownInv
    <3>6. ASSUME NEW e \in Device
          PROVE  DeviceKnown(e)'
      <4>1. Carried(e)' = Carried(e)
        BY <2>1 DEF Carried, Sent
      <4>2. \A i \in Recorded(e) : Waits(e, i) => Waits(e, i)'
        BY <2>1 DEF Waits
      <4>. QED BY <1>1, <2>1, <3>1, <3>2, <4>1, <4>2, DeviceAside DEF KnownInv
    <3>7. ASSUME NEW d \in Device, NEW i \in Recorded(d)
          PROVE  Parented(d, i)'
      <4>1. Parented(d, i)
        BY DEF KnownInv
      <4>2. \A j \in Recorded(d) : Follows(d, j, i) => Follows(d, j, i)'
        BY <2>1 DEF Follows, Taken, Waits
      <4>. QED BY <1>1, <3>2, <4>1, <4>2, ParentKept
    <3>. QED BY <3>1, <3>3, <3>4, <3>5, <3>6, <3>7 DEF KnownInv
  <2>3. NoUnseenOverwrite' = NoUnseenOverwrite
    BY <2>1 DEF NoUnseenOverwrite, Replaced
  <2>. QED BY <2>2, <2>3
<1>3. CASE Next /\ HeldBack /\ CleanStop /\ OwnChain
  <2>1. ASSUME NEW d \in Device, UserStep(d)
        PROVE  KnownInv' /\ NoUnseenOverwrite'
    <3>1. KnownInv'
      BY <1>3, <2>1, UserKnown
    <3>2. UserEffect(d) /\ UNCHANGED feed
      BY <1>1, <2>1, UserDoes
    <3>3. NoUnseenOverwrite'
      BY <1>1, <3>2, FeedSame, UnseenKept DEF UserEffect
    <3>. QED BY <3>1, <3>3
  <2>2. ASSUME NEW d \in Device,
               \/ SyncStep(d) \/ LoseConnection(d) \/ KillApp(d)
               \/ \E u \in User : StartSync(d, u)
        PROVE  KnownInv' /\ NoUnseenOverwrite'
    <3>1. KnownInv'
      BY <1>3, <2>2, SyncKnown
    <3>2. SameOps /\ FeedGrows /\ DOMAIN feed' \ DOMAIN feed = {}
      BY <1>1, <2>2, SyncMarks
    <3>3. NoUnseenOverwrite'
      BY <1>1, <3>2, UnseenKept
    <3>. QED BY <3>1, <3>3
  <2>3. ASSUME NEW h \in Handler, ServerStep(h)
        PROVE  KnownInv' /\ NoUnseenOverwrite'
    BY <1>3, <2>3, ServerKnown
  <2>4. ASSUME NEW r \in Row, RestEdit(r)
        PROVE  KnownInv' /\ NoUnseenOverwrite'
    BY <2>4, RestKnown
  <2>. QED BY <1>3, <2>1, <2>2, <2>3, <2>4 DEF Next
<1>. QED BY <1>2, <1>3

(* A device that has caught up holds the server's rows. *)
LEMMA KnownAgrees ==
    ASSUME HeldInv, KnownInv PROVE DeviceAgrees
<1> SUFFICES ASSUME NEW d \in Device, ~Syncing(d), cursor[d] = Len(feed),
                    NEW r \in Row, Settled(d, r), ~RowRefused(d, r)
             PROVE  local[d][r] = store[r]
  BY DEF DeviceAgrees
<1>1. /\ Inv /\ FeedKnown /\ OpsKnown /\ LocalKnown(d) /\ SeenKnown(d)
      /\ DOMAIN outbox[d] = Recorded(d)
  BY DEF HeldInv, KnownInv, DeviceKnown, Inv, TypeOK, Recorded
<1>2. ~Overwriting(d, r)
  BY DEF Overwriting, Syncing
<1>3. ServerHad(r, local[d][r])
  <2> SUFFICES ASSUME NEW j \in Recorded(d), Own(d, r, local[d][r], j), Alive(d, j)
               PROVE  ServerHad(r, local[d][r])
    BY <1>1, <1>2 DEF LocalKnown, OwnCopy
  <2>1. outbox[d][j].row = r
    BY DEF Own
  <2>2. ~Waits(d, j)
    BY <1>1, <2>1 DEF Settled, Waits
  <2>3. ~Dead(r)
    <3> SUFFICES ASSUME store[r].version = 0 PROVE FALSE
      BY DEF Dead
    <3>1. OpKnown(d, j)
      BY <1>1 DEF OpsKnown
    <3>2. HasInsert(d, r)
      BY <2>1, <3>1 DEF OpKnown
    <3>. QED BY <1>1, <3>2 DEF HasInsert, RowRefused
  <2>4. Taken(d, j)
    BY <2>1, <2>2, <2>3 DEF Alive
  <2>. QED BY <1>1, <2>4, TakenHad
<1> PICK v : v = local[d][r]
  OBVIOUS
<1>4. /\ v.version \in Nat /\ store[r].version \in Nat
      /\ v.version <= store[r].version
      /\ v.version = store[r].version => v = store[r]
      /\ Seeded(r).version \in Nat /\ Seeded(r).version <= v.version
  BY <1>1, <1>3, HadVersions
<1>5. store[r].version <= v.version
  <2>1. ServerHad(r, store[r])
    BY <1>1 DEF FeedKnown, StoreIsLast
  <2>2. CASE store[r] = Seeded(r)
    BY <1>4, <2>2
  <2>3. ASSUME NEW n \in DOMAIN feed, feed[n].row = r,
               store[r] = [version |-> feed[n].version, by |-> feed[n].by]
        PROVE  store[r].version <= v.version
    <3>1. n <= cursor[d]
      BY <1>1, FeedPlaces
    <3>2. feed[n].version <= v.version
      BY <1>1, <2>3, <3>1 DEF SeenKnown, Seen
    <3>. QED BY <2>3, <3>2
  <2>. QED BY <2>1, <2>2, <2>3 DEF ServerHad
<1>. QED BY <1>4, <1>5

(* What the devices know follows them through every step. *)
LEMMA AllKnown ==
    ASSUME ~EditDuringSync, FinalRefusals \subseteq {"insert"}
    PROVE  Spec /\ [][HeldBack /\ CleanStop /\ OwnChain]_vars
               => [](HeldInv /\ KnownInv /\ NoUnseenOverwrite)
<1>1. Init => HeldInv /\ KnownInv /\ NoUnseenOverwrite
  BY InitiallyHeld, InitiallyKnown
<1>2. HeldInv /\ KnownInv /\ NoUnseenOverwrite /\ [Next]_vars /\ [HeldBack /\ CleanStop /\ OwnChain]_vars
          => (HeldInv /\ KnownInv /\ NoUnseenOverwrite)'
  <2> SUFFICES ASSUME HeldInv, KnownInv, NoUnseenOverwrite, [Next]_vars,
                      [HeldBack /\ CleanStop /\ OwnChain]_vars
               PROVE  HeldInv' /\ KnownInv' /\ NoUnseenOverwrite'
    OBVIOUS
  <2>1. HeldInv'
    <3>1. [Next /\ HeldBack]_vars
      OBVIOUS
    <3>. QED BY <3>1, HeldNext
  <2>2. [Next /\ HeldBack /\ CleanStop /\ OwnChain]_vars
    OBVIOUS
  <2>. QED BY <2>1, <2>2, KnownNext
<1>. QED BY <1>1, <1>2, PTL DEF Spec

(* No edit overwrites, without review, a write its author had not seen: what   *)
(* push and pushPending do with the ops behind one that failed is enough, where *)
(* a sync ends in order, nobody builds on another's unsynced edit, and no       *)
(* version is counted that the server refused.                                  *)
THEOREM NothingUnseenIsOverwritten ==
    ASSUME ~EditDuringSync, FinalRefusals \subseteq {"insert"}
    PROVE  Spec /\ [][HeldBack /\ CleanStop /\ OwnChain]_vars => []NoUnseenOverwrite
<1>1. Spec /\ [][HeldBack /\ CleanStop /\ OwnChain]_vars
          => [](HeldInv /\ KnownInv /\ NoUnseenOverwrite)
  BY AllKnown
<1>. QED BY <1>1, PTL

(* Under the same conditions a device with nothing left to push that has read   *)
(* the feed to its end holds the server's rows: what a conflict brings back and *)
(* what a pull skips leave nothing behind (_apply, pushPending, pullSince).     *)
THEOREM SettledRowsAgree ==
    ASSUME ~EditDuringSync, FinalRefusals \subseteq {"insert"}
    PROVE  Spec /\ [][HeldBack /\ CleanStop /\ OwnChain]_vars => []DeviceAgrees
<1>1. Spec /\ [][HeldBack /\ CleanStop /\ OwnChain]_vars
          => [](HeldInv /\ KnownInv /\ NoUnseenOverwrite)
  BY AllKnown
<1>2. HeldInv /\ KnownInv => DeviceAgrees
  BY KnownAgrees
<1>. QED BY <1>1, <1>2, PTL

(* A sync that sends everything in one request knows no failed row before it   *)
(* has sent its last op.                                                       *)
OneRequest(d) ==
    push[d].todo = {} \/ (push[d].phase = "pushing" /\ push[d].failed = Unbroken)

(* The request takes everything there is, when it is not smaller than an outbox. *)
LEMMA AllInOne ==
    ASSUME MaxOps <= PushBatch, Inv, NEW d \in Device, PushOK(d),
           push[d].phase = "pushing", BatchReady(push[d])
    PROVE  push[d].todo = {}
<1> SUFFICES ASSUME NEW i \in push[d].todo PROVE FALSE
  OBVIOUS
<1>1. push[d].batch \subseteq 1..MaxOps /\ push[d].todo \subseteq 1..MaxOps
  BY DEF Inv, TypeOK, PushState
<1>2. MaxOps \in Nat /\ PushBatch \in Nat /\ MaxOps # 0
  BY CountsAssumption
<1>3. IsFiniteSet(1..MaxOps) /\ Cardinality(1..MaxOps) = MaxOps
  BY <1>2, FS_Interval
<1>4. /\ IsFiniteSet(push[d].batch) /\ Cardinality(push[d].batch) <= MaxOps
      /\ Cardinality(push[d].batch) = MaxOps => push[d].batch = 1..MaxOps
  BY <1>1, <1>3, FS_Subset
<1>5. Cardinality(push[d].batch) \in Nat
  BY <1>4, FS_CardinalityType
<1>6. Cardinality(push[d].batch) = PushBatch
  BY DEF BatchReady
<1>7. i \in push[d].batch
  BY <1>1, <1>2, <1>4, <1>5, <1>6
<1>8. push[d].batch \subseteq Sent(d)
  BY DEF Sent
<1>9. i < i /\ i \in Nat
  BY <1>1, <1>7, <1>8 DEF PushOK, SentFirst
<1>. QED BY <1>9

(* A sync stays one request. *)
LEMMA OneRequestStays ==
    ASSUME MaxOps <= PushBatch, HeldInv, [Next]_vars, NEW d \in Device, OneRequest(d)
    PROVE  OneRequest(d)'
<1>1. Inv /\ FormStands /\ PushOK(d) /\ PhaseTidy(d)
  BY DEF HeldInv, PushOK
<1>2. CASE push'[d] = push[d]
  BY <1>2 DEF OneRequest
<1>3. ASSUME NEW e \in Device, NEW u \in User, StartSync(e, u)
      PROVE  OneRequest(d)'
  <2>1. push'[e].phase = "pushing" /\ push'[e].failed = Unbroken
        /\ \A c \in Device \ {e} : push'[c] = push[c]
    BY <1>1, <1>3, StartSyncDoes
  <2>. QED BY <1>2, <2>1 DEF OneRequest
<1>4. ASSUME NEW e \in Device, NEW i \in push[e].todo, FillBatch(e, i)
      PROVE  OneRequest(d)'
  <2>1. /\ push'[e].phase = push[e].phase /\ push'[e].failed = push[e].failed
        /\ push'[e].todo = push[e].todo \ {i}
        /\ \A c \in Device \ {e} : push'[c] = push[c]
    BY <1>1, <1>4, FillBatchDoes
  <2>. QED BY <1>2, <2>1 DEF OneRequest
<1>5. ASSUME NEW e \in Device, NEW h \in Handler, SendBatch(e, h)
      PROVE  OneRequest(d)'
  <2>1. /\ push[e].phase = "pushing" /\ BatchReady(push[e]) /\ push'[e].todo = push[e].todo
        /\ \A c \in Device \ {e} : push'[c] = push[c]
    BY <1>1, <1>5, SendBatchDoes
  <2>2. CASE d = e
    BY <1>1, <2>1, <2>2, AllInOne DEF OneRequest
  <2>. QED BY <1>2, <2>1, <2>2
<1>6. ASSUME NEW e \in Device, push[e].phase # "pushing", push'[e].todo = push[e].todo,
             \A c \in Device \ {e} : push'[c] = push[c]
      PROVE  OneRequest(d)'
  BY <1>2, <1>6 DEF OneRequest
<1>7. ASSUME NEW e \in Device, EndPush(e) \/ EndSync(e) \/ LoseConnection(e) \/ KillApp(e)
      PROVE  OneRequest(d)'
  <2>1. push'[e].todo = {} /\ \A c \in Device \ {e} : push'[c] = push[c]
    BY <1>1, <1>7, OverDoes
  <2>. QED BY <1>2, <2>1 DEF OneRequest
<1>8. ASSUME NEW e \in Device, ReceiveAnswers(e)
      PROVE  OneRequest(d)'
  BY <1>1, <1>6, <1>8, ReceiveAnswersDoes
<1>9. ASSUME NEW e \in Device, NEW a \in push[e].answers, ReadAnswer(e, a) \/ Overwrite(e, a)
      PROVE  OneRequest(d)'
  <2>1. /\ push[e].phase # "pushing" /\ push'[e].todo = push[e].todo
        /\ \A c \in Device \ {e} : push'[c] = push[c]
    BY <1>1, <1>9, ReadAnswerDoes, OverwriteDoes
  <2>. QED BY <1>6, <2>1
<1>10. ASSUME NEW e \in Device, NextBatch(e)
       PROVE  OneRequest(d)'
  BY <1>1, <1>6, <1>10, NextBatchDoes
<1>11. ASSUME NEW e \in Device, PullChange(e)
       PROVE  OneRequest(d)'
  BY <1>1, <1>2, <1>11, PullChangeDoes
<1>12. ASSUME NEW e \in Device, UserStep(e)
       PROVE  OneRequest(d)'
  BY <1>1, <1>2, <1>12, UserDoes
<1>13. ASSUME NEW h \in Handler, ServerStep(h)
       PROVE  OneRequest(d)'
  BY <1>1, <1>2, <1>13, ServerDoes
<1>14. ASSUME NEW r \in Row, RestEdit(r)
       PROVE  OneRequest(d)'
  BY <1>2, <1>14 DEF RestEdit, clientVars
<1>15. CASE UNCHANGED vars
  BY <1>2, <1>15 DEF vars
<1>. QED BY <1>3, <1>4, <1>5, <1>7, <1>8, <1>9, <1>10, <1>11, <1>12, <1>13, <1>14, <1>15
     DEF Next, SyncStep

(* Such a sync can be cut off without harm, as long as the app is not killed. *)
LEMMA OneRequestStops ==
    ASSUME MaxKilled = 0, HeldInv, \A d \in Device : OneRequest(d)
    PROVE  CleanStop
<1> SUFFICES ASSUME NEW d \in Device, LoseConnection(d) \/ KillApp(d)
             PROVE  /\ push[d].phase # "overwriting"
                    /\ \A i \in push[d].todo : push[d].failed[outbox[d][i].row] = "none"
  BY DEF CleanStop
<1>1. Inv
  BY DEF HeldInv
<1>2. ~KillApp(d)
  <2>1. faults.killed \in 0..MaxKilled
    BY <1>1 DEF Inv, TypeOK, Faults
  <2>. QED BY <2>1 DEF KillApp
<1>3. push[d].phase # "overwriting"
  BY <1>2 DEF LoseConnection
<1>4. \A i \in push[d].todo : outbox[d][i].row \in Row
  BY <1>1, AtPush, OpTyped DEF Inv
<1>. QED BY <1>3, <1>4 DEF OneRequest, Unbroken

(* With one user, nobody builds on another's edit. *)
LEMMA OneUserChain ==
    ASSUME Inv, \A u, v \in User : u = v PROVE OwnChain
<1> SUFFICES ASSUME NEW d \in Device, NEW u \in User, NEW j \in Recorded(d)
             PROVE  outbox[d][j].actor = u
  BY Zenon DEF OwnChain
<1>1. outbox[d][j].actor \in User
  BY OpTyped DEF Op
<1>. QED BY <1>1

(* The same with no condition on the behaviour.  Where an outbox fits one       *)
(* request (pushBatch), every row is on the server and no rule refuses an edit, *)
(* a user alone with the till is safe: whatever requests and answers are lost,  *)
(* whatever other tills and REST write, nothing unseen is overwritten, and who  *)
(* has caught up agrees with the server.                                        *)
THEOREM EditsInOneRequest ==
    ASSUME SeededRow = Row, TransientRefusals = {}, FinalRefusals \subseteq {"insert"},
           ~EditDuringSync, MaxOps <= PushBatch, MaxKilled = 0, \A u, v \in User : u = v
    PROVE  Spec => []NoUnseenOverwrite /\ []DeviceAgrees
<1> DEFINE Request == \A d \in Device : OneRequest(d)
<1>1. Spec => [][HeldBack]_vars
  BY KnownRowsHeldBack
<1>2. Init => HeldInv
  BY InitiallyHeld
<1>3. HeldInv /\ [Next]_vars /\ [HeldBack]_vars => HeldInv'
  <2> SUFFICES ASSUME HeldInv, [Next]_vars, [HeldBack]_vars PROVE HeldInv'
    OBVIOUS
  <2>1. [Next /\ HeldBack]_vars
    OBVIOUS
  <2>. QED BY <2>1, HeldNext
<1>4. Init => Request
  BY DEF Init, OneRequest, Idle
<1>5. HeldInv /\ Request /\ [Next]_vars => Request'
  BY OneRequestStays
<1>6. HeldInv /\ Request => [CleanStop]_vars
  BY OneRequestStops
<1>7. HeldInv => [OwnChain]_vars
  BY OneUserChain DEF HeldInv
<1>8. [HeldBack]_vars /\ [CleanStop]_vars /\ [OwnChain]_vars
          => [HeldBack /\ CleanStop /\ OwnChain]_vars
  OBVIOUS
<1>9. Spec /\ [][HeldBack /\ CleanStop /\ OwnChain]_vars => []NoUnseenOverwrite
  BY NothingUnseenIsOverwritten
<1>10. Spec /\ [][HeldBack /\ CleanStop /\ OwnChain]_vars => []DeviceAgrees
  BY SettledRowsAgree
<1> HIDE DEF Request
<1>. QED BY <1>1, <1>2, <1>3, <1>4, <1>5, <1>6, <1>7, <1>8, <1>9, <1>10, PTL DEF Spec
=============================================================================
