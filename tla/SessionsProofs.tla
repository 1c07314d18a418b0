---------------------------- MODULE SessionsProofs ----------------------------
(***************************************************************************)
(* Theorems about Sessions, for any number of users, sessions, renewals,   *)
(* threads, tokens and faults: what the server keeps of a session is       *)
(* final, what a till keeps is of the user who is signed in, a renewal     *)
(* that is tried again is not taken for theft, and no till ends a session  *)
(* that goes on.                                                           *)
(***************************************************************************)
EXTENDS Sessions, TLAPS

(***************************************************************************)
(* The inductive invariant.  Who a step is for is known as long as it is   *)
(* under way; a session belongs to a user from the moment it is there.     *)
(***************************************************************************)
Known(s) == s \in Session /\ sess[s].state # "none"

TxnOK ==
    \A w \in Worker :
        /\ txn[w].kind \in {"bootstrap", "signin"} => txn[w].user \in User
        /\ txn[w].kind = "refresh" => txn[w].request \in Request /\ Known(txn[w].request.sess)

AskOK ==
    \A r \in Renewal :
        /\ ask[r].step \in {"sent", "unanswered", "got", "refused"} => Known(ask[r].sess)
        /\ ask[r].step # "idle" /\ ~ask[r].stale => till.sess # None

NetOK == (\A m \in net : Known(m.sess)) /\ (\A o \in out : Known(o.sess))

SessOK ==
    \A s \in Session : IF sess[s].state = "none" THEN sess[s] = NoSession
                                                ELSE sess[s].user \in User

TillOK == till.sess # None => sess[till.sess].state # "none"

CheckOK ==
    \A c \in Revalidation :
        /\ check[c].step \in {"asked", "confirmed"} => check[c].sess \in Session
        /\ check[c].step = "waiting" => check[c].ask \in Renewal

\* While no sign-in is saved as a revalidation waits: it is about the till's session.
OwnOK ==
    "revalidate" \in Apart =>
        /\ till.sess # None => sess[till.sess].user = till.user
        /\ \A c \in Revalidation :
              check[c].sess # None /\ till.sess # None => check[c].sess = till.sess

\* While no account is reset or disabled in the middle of a sign-in to it.
SignInOK ==
    "signin" \in Apart =>
        /\ outdated = {}
        /\ \A w \in Worker : txn[w].kind = "signin" => account[txn[w].user] = "active"
        /\ \A s \in Session : sess[s].state = "live" => account[sess[s].user] = "active"

Inv ==
    /\ TypeOK /\ TxnOK /\ AskOK /\ NetOK /\ SessOK /\ TillOK /\ CheckOK /\ OwnOK /\ SignInOK

(* Nothing under way. *)
LEMMA IdleTyped ==
    /\ Idle \in Txn /\ Idle.kind = "idle"
    /\ NoAsk \in Ask /\ NoAsk.step = "idle"
    /\ NoCheck \in Checking /\ NoCheck.step = "idle" /\ NoCheck.sess = None
    /\ NoSession \in SessionRow /\ NoSession.state = "none"
  BY BoundsAssumption DEF Idle, Txn, NoAsk, Ask, NoCheck, Checking, NoSession, SessionRow, Token

LEMMA InvInit == Init => Inv
<1> SUFFICES ASSUME Init PROVE Inv
  OBVIOUS
<1>1. TypeOK
  <2>1. till \in Till
    BY BoundsAssumption DEF Init, Till, Token
  <2>. QED BY <2>1, IdleTyped, BoundsAssumption DEF Init, TypeOK, Status
<1>2. TxnOK /\ AskOK /\ NetOK /\ SessOK /\ TillOK /\ CheckOK /\ OwnOK /\ SignInOK
  BY IdleTyped DEF Init, TxnOK, AskOK, NetOK, SessOK, TillOK, CheckOK, OwnOK, SignInOK
<1>. QED BY <1>1, <1>2 DEF Inv

-----------------------------------------------------------------------------
(* A session keeps its user, and once revoked stays as it is. *)
SessKept ==
    /\ sess' \in [Session -> SessionRow]
    /\ \A s \in Session :
         /\ sess'[s].user = sess[s].user
         /\ sess[s].state = "none" => sess'[s] = sess[s]
         /\ sess[s].state # "none" => sess'[s].state # "none"
         /\ sess'[s].state = "live" => sess[s].state = "live"
         /\ IsRevoked(s) => sess'[s].state = sess[s].state /\ sess'[s].hash = sess[s].hash

(* A till that keeps its session keeps its user, where no sign-in is saved as a *)
(* revalidation waits.                                                          *)
TillKept ==
    \/ till'.sess = None
    \/ till'.sess = till.sess /\ ("revalidate" \in Apart => till'.user = till.user)

(* A revalidation asks with the token of the session the till has. *)
ChecksKept ==
    /\ check' \in [Revalidation -> Checking]
    /\ \A c \in Revalidation :
         /\ check'[c].step \in {"asked", "confirmed"} => check'[c].sess \in Session
         /\ check'[c].step = "waiting" => check'[c].ask \in Renewal
         /\ check'[c].sess # None => check'[c].sess \in {check[c].sess, till.sess}

(* A session's row is one of three. *)
LEMMA States ==
    ASSUME TypeOK, NEW s \in Session
    PROVE  /\ sess[s].state = "none" \/ IsRevoked(s) \/ sess[s].state = "live"
           /\ sess[s].state = "live" => ~IsRevoked(s)
           /\ sess[s].state = "none" => ~IsRevoked(s)
  BY DEF TypeOK, SessionRow, IsRevoked, Revoked

(* What the rows and the renewals are typed as. *)
LEMMA RowTyped ==
    ASSUME TypeOK, NEW s \in Session
    PROVE  sess[s] \in SessionRow
  BY DEF TypeOK

LEMMA RenewalTyped ==
    ASSUME TypeOK, NEW r \in Renewal
    PROVE  ask[r] \in Ask
  BY DEF TypeOK

LEMMA Untouched ==
    ASSUME TypeOK, UNCHANGED sess
    PROVE  SessKept
  BY DEF SessKept, TypeOK

(* One session that was there is changed. *)
LEMMA OneTouched ==
    ASSUME TypeOK, NEW s \in Session, NEW row \in SessionRow,
           sess' = [sess EXCEPT ![s] = row],
           row.user = sess[s].user, row.state # "none",
           \/ sess[s].state = "live"
           \/ sess[s].state # "none" /\ row.state = sess[s].state /\ row.hash = sess[s].hash
    PROVE  SessKept
  BY States DEF SessKept, TypeOK, IsRevoked

(* A session that was there is still there. *)
LEMMA KnownKept ==
    ASSUME SessKept, NEW s, Known(s)
    PROVE  Known(s)'
  BY DEF SessKept, Known

(* Revalidations that nothing happens to. *)
LEMMA CheckUntouched ==
    ASSUME Inv, UNCHANGED check
    PROVE  ChecksKept
  BY DEF ChecksKept, Inv, TypeOK, CheckOK

(* What a step that opens no session has to show. *)
LEMMA Kept ==
    ASSUME Inv, TypeOK', SessKept, TillKept, ChecksKept
    PROVE  SessOK' /\ TillOK' /\ CheckOK' /\ OwnOK'
<1>1. SessOK'
  BY DEF Inv, SessOK, SessKept
<1>2. till'.sess # None => till'.sess = till.sess /\ till.sess \in Session
  BY DEF TillKept, TypeOK, Till, Inv
<1>3. TillOK'
  BY <1>2 DEF Inv, TillOK, SessKept
<1>4. CheckOK'
  BY DEF CheckOK, ChecksKept
<1>5. OwnOK'
  <2> SUFFICES ASSUME "revalidate" \in Apart, till'.sess # None
               PROVE  /\ sess'[till'.sess].user = till'.user
                      /\ \A c \in Revalidation : check'[c].sess # None => check'[c].sess = till'.sess
    BY DEF OwnOK
  <2>1. sess'[till'.sess].user = till'.user
    BY <1>2, IdsAssumption DEF TillKept, SessKept, Inv, OwnOK
  <2>2. \A c \in Revalidation : check'[c].sess # None => check'[c].sess = till'.sess
    BY <1>2 DEF ChecksKept, Inv, OwnOK
  <2>. QED BY <2>1, <2>2
<1>. QED BY <1>1, <1>3, <1>4, <1>5

(* What a step leaves of SignInOK that changes no account and signs nobody in. *)
LEMMA SignInKept ==
    ASSUME Inv, SessKept, UNCHANGED <<account, outdated>>,
           \A w \in Worker : txn'[w] = txn[w] \/ txn'[w].kind # "signin"
    PROVE  SignInOK'
  BY DEF Inv, SignInOK, SessKept

(* A renewal of a session the till has left is the same but for that. *)
LEMMA StaleTyped ==
    ASSUME NEW a \in Ask
    PROVE  /\ [a EXCEPT !.stale = TRUE] \in Ask
           /\ [a EXCEPT !.stale = TRUE].step = a.step
           /\ [a EXCEPT !.stale = TRUE].sess = a.sess
  BY DEF Ask

(* Every session of a user is revoked. *)
LEMMA RevokeAllKept ==
    ASSUME TypeOK, SessOK, NEW u \in User, RevokeAll(u)
    PROVE  /\ SessKept
           /\ \A s \in Session : sess[s].user = u => sess'[s].state # "live"
<1>1. \A s \in Session : sess'[s] = IF sess[s].user = u /\ ~IsRevoked(s) /\ sess[s] # NoSession
                                    THEN [sess[s] EXCEPT !.state = "revoked"] ELSE sess[s]
  BY DEF RevokeAll
<1>2. ASSUME NEW s \in Session
      PROVE  /\ [sess[s] EXCEPT !.state = "revoked"] \in SessionRow
             /\ [sess[s] EXCEPT !.state = "revoked"].user = sess[s].user
             /\ [sess[s] EXCEPT !.state = "revoked"].state = "revoked"
  BY DEF TypeOK, SessionRow, Revoked
<1>3. sess' \in [Session -> SessionRow]
  BY <1>2 DEF TypeOK, RevokeAll
<1>4. ASSUME NEW s \in Session
      PROVE  /\ sess'[s].user = sess[s].user
             /\ sess[s].state = "none" => sess'[s] = sess[s]
             /\ sess[s].state # "none" => sess'[s].state # "none"
             /\ sess'[s].state = "live" => sess[s].state = "live" /\ sess[s].user # u
             /\ IsRevoked(s) => sess'[s] = sess[s]
  BY <1>1, <1>2, States, IdleTyped DEF SessOK
<1>. QED BY <1>3, <1>4 DEF SessKept

-----------------------------------------------------------------------------
(* Signing in *)

(* A session is opened by a user, and the till may get it. *)
LEMMA IssueInv ==
    ASSUME Inv, NEW w \in Worker, txn[w].kind \in {"bootstrap", "signin"}, Issue(w),
           account' = account \/ account' = [account EXCEPT ![txn[w].user] = "active"],
           "signin" \in Apart => account'[txn[w].user] = "active"
    PROVE  Inv' /\ \A s \in Session : IsRevoked(s) => sess'[s] = sess[s]
<1> DEFINE u == txn[w].user
<1>1. PICK s \in Session :
        /\ sess[s] = NoSession
        /\ sess' = [sess EXCEPT ![s] = [state |-> "live", user |-> u, hash |-> 1, prev |-> 0, fresh |-> FALSE]]
        /\ \/ CanSave /\ Saves(s, 1, u) /\ Leave /\ UNCHANGED faults
           \/ Fault /\ UNCHANGED <<till, ask>>
        /\ outdated' = IF w \in outdated THEN (outdated \ {w}) \cup {s} ELSE outdated
        /\ txn' = [txn EXCEPT ![w] = Idle]
        /\ UNCHANGED <<net, out, check, lost>>
  BY DEF Issue, GoOn
<1>2. u \in User
  BY DEF Inv, TxnOK
<1>3. [state |-> "live", user |-> u, hash |-> 1, prev |-> 0, fresh |-> FALSE] \in SessionRow
  BY <1>2, BoundsAssumption DEF SessionRow, Token
<1>4. /\ sess' \in [Session -> SessionRow]
      /\ sess'[s].state = "live" /\ sess'[s].user = u
      /\ \A q \in Session : q # s => sess'[q] = sess[q]
  BY <1>1, <1>3 DEF Inv, TypeOK
<1>5. /\ txn' \in [Worker -> Txn] /\ txn'[w].kind = "idle"
      /\ \A v \in Worker : v # w => txn'[v] = txn[v]
  BY <1>1, IdleTyped DEF Inv, TypeOK
<1>6. /\ ask' \in [Renewal -> Ask]
      /\ \A r \in Renewal :
           /\ ask'[r].step = ask[r].step /\ ask'[r].sess = ask[r].sess
           /\ (ask'[r].stale = ask[r].stale \/ till'.sess # None)
  <2>1. CASE UNCHANGED ask
    BY <2>1 DEF Inv, TypeOK
  <2>2. CASE Leave
    <3>1. ASSUME NEW r \in Renewal
          PROVE  /\ [ask[r] EXCEPT !.stale = TRUE] \in Ask
                 /\ [ask[r] EXCEPT !.stale = TRUE].step = ask[r].step
                 /\ [ask[r] EXCEPT !.stale = TRUE].sess = ask[r].sess
      <4>1. ask[r] \in Ask
        BY DEF Inv, TypeOK
      <4>. QED BY <4>1, StaleTyped
    <3>2. till' = till \/ till'.sess = s
      BY <1>1 DEF Saves
    <3>3. \A r \in Renewal : ask'[r].stale = ask[r].stale \/ till'.sess # None
      BY <1>1, <3>2, IdsAssumption DEF Saves
    <3>. QED BY <2>2, <3>1, <3>3, IdleTyped DEF Leave
  <2>. QED BY <1>1, <2>1, <2>2
<1>7. till' \in Till /\ ((till'.sess = s /\ till'.user = u) \/ UNCHANGED till)
  <2>1. CASE UNCHANGED till
    BY <2>1 DEF Inv, TypeOK
  <2>2. CASE Saves(s, 1, u)
    BY <1>2, <2>2, BoundsAssumption DEF Saves, Inv, TypeOK, Till, Token
  <2>. QED BY <1>1, <2>1, <2>2
<1>8. faults' \in 0 .. MaxFault
  BY <1>1, BoundsAssumption DEF Inv, TypeOK, Fault
<1>9. account' \in [User -> Status]
  BY <1>2 DEF Inv, TypeOK, Status
<1>10. TypeOK'
  BY <1>1, <1>4, <1>5, <1>6, <1>7, <1>8, <1>9 DEF Inv, TypeOK
<1>11. TxnOK' /\ AskOK' /\ NetOK'
  <2>1. \A q : Known(q) => Known(q)'
    BY <1>4 DEF Known
  <2>2. TxnOK' /\ NetOK'
    BY <1>1, <1>5, <2>1 DEF Inv, TxnOK, NetOK
  <2>3. s # None
    BY IdsAssumption
  <2>4. ASSUME NEW r \in Renewal
        PROVE  /\ ask'[r].step \in {"sent", "unanswered", "got", "refused"} =>
                     ask'[r].sess \in Session /\ sess'[ask'[r].sess].state # "none"
               /\ ask'[r].step # "idle" /\ ~ask'[r].stale => till'.sess # None
    <3>1. ask[r].step \in {"sent", "unanswered", "got", "refused"} => Known(ask[r].sess)
      BY DEF Inv, AskOK
    <3>2. ASSUME ask'[r].step \in {"sent", "unanswered", "got", "refused"}
          PROVE  ask'[r].sess \in Session /\ sess'[ask'[r].sess].state # "none"
      <4>1. PICK q : q = ask[r].sess
        OBVIOUS
      <4>2. q \in Session /\ sess[q].state # "none" /\ ask'[r].sess = q
        <5>1. ask'[r].step = ask[r].step /\ ask'[r].sess = ask[r].sess
          BY <1>6
        <5>2. Known(ask[r].sess)
          BY <3>1, <3>2, <5>1
        <5>. QED BY <4>1, <5>1, <5>2 DEF Known
      <4>3. sess'[q].state # "none"
        BY <1>4, <4>2
      <4>. QED BY <4>2, <4>3
    <3>3. ask[r].step # "idle" /\ ~ask[r].stale => till.sess # None
      BY DEF Inv, AskOK
    <3>. QED BY <1>6, <1>7, <2>3, <3>2, <3>3
  <2>5. AskOK'
    BY <2>4 DEF AskOK, Known
  <2>. QED BY <2>2, <2>5
<1>12. SessOK'
  BY <1>2, <1>4 DEF Inv, SessOK
<1>13. TillOK' /\ CheckOK' /\ OwnOK'
  <2>1. ASSUME UNCHANGED till, till.sess # None
        PROVE  till.sess # s /\ till.sess \in Session
    BY <1>1, <2>1, IdleTyped DEF Inv, TillOK, TypeOK, Till
  <2>2. TillOK'
    BY <1>4, <1>7, <2>1 DEF Inv, TillOK
  <2>3. CheckOK'
    BY <1>1 DEF Inv, CheckOK
  <2>4. CASE UNCHANGED till
    <3>1. OwnOK'
      BY <1>1, <1>4, <2>1, <2>4 DEF Inv, OwnOK
    <3>. QED BY <2>2, <2>3, <3>1
  <2>5. CASE CanSave /\ Saves(s, 1, u)
    <3>1. till'.sess = s /\ till'.user = u
      BY <2>5 DEF Saves
    <3>2. "revalidate" \in Apart => \A c \in Revalidation : check'[c].sess = None
      BY <1>1, <2>5, IdleTyped DEF CanSave
    <3>3. OwnOK'
      BY <1>4, <3>1, <3>2 DEF OwnOK
    <3>. QED BY <2>2, <2>3, <3>3
  <2>. QED BY <1>1, <2>4, <2>5
<1>14. SignInOK'
  <2> SUFFICES ASSUME "signin" \in Apart
               PROVE  /\ outdated' = {}
                      /\ \A v \in Worker : txn'[v].kind = "signin" => account'[txn'[v].user] = "active"
                      /\ \A q \in Session : sess'[q].state = "live" => account'[sess'[q].user] = "active"
    BY DEF SignInOK
  <2>1. \A v \in User : account[v] = "active" => account'[v] = "active"
    BY <1>2 DEF Inv, TypeOK
  <2>2. outdated' = {}
    BY <1>1 DEF Inv, SignInOK
  <2>3. \A v \in Worker : txn'[v].kind = "signin" => account'[txn'[v].user] = "active"
    BY <1>5, <2>1 DEF Inv, SignInOK, TxnOK
  <2>4. \A q \in Session : sess'[q].state = "live" => account'[sess'[q].user] = "active"
    BY <1>4, <2>1 DEF Inv, SignInOK, SessOK
  <2>. QED BY <2>2, <2>3, <2>4
<1>15. \A q \in Session : IsRevoked(q) => sess'[q] = sess[q]
  BY <1>1, <1>4, States, IdleTyped DEF Inv
<1>. QED BY <1>10, <1>11, <1>12, <1>13, <1>14, <1>15 DEF Inv

-----------------------------------------------------------------------------
(* Steps that open no session *)

DeadKept ==
    \A s \in Session : IsRevoked(s) => sess'[s].state = sess[s].state /\ sess'[s].hash = sess[s].hash

LEMMA StepInv ==
    ASSUME Inv, TypeOK', SessKept, TillKept, ChecksKept, TxnOK', AskOK', NetOK', SignInOK'
    PROVE  Inv' /\ DeadKept
  BY Kept DEF Inv, SessKept, DeadKept

(* A step of the till that asks nothing new of the server's rows. *)
LEMMA TillStepInv ==
    ASSUME Inv, UNCHANGED <<account, sess, txn, outdated>>, TillKept, ChecksKept, AskOK',
           till' \in Till, ask' \in [Renewal -> Ask],
           \A m \in net' : m \in net \/ (m \in Request /\ Known(m.sess)),
           \A o \in out' : o \in out \/ (o \in [sess : Session, token : Token] /\ Known(o.sess)),
           lost' \subseteq Session, faults' \in 0 .. MaxFault
    PROVE  Inv' /\ DeadKept
<1>1. SessKept
  BY Untouched DEF Inv
<1>2. TypeOK' /\ TxnOK' /\ NetOK'
  <2>1. net' \subseteq Request /\ out' \subseteq [sess : Session, token : Token]
    BY DEF Inv, TypeOK
  <2>. QED BY <2>1 DEF Inv, TypeOK, TxnOK, NetOK, Known, ChecksKept
<1>3. SignInOK'
  BY <1>1, SignInKept
<1>. QED BY <1>1, <1>2, <1>3, StepInv

(* One renewal goes on. *)
LEMMA AskTyped ==
    ASSUME Inv, UNCHANGED sess \/ SessKept, till'.sess = till.sess,
           NEW r \in Renewal, NEW a \in Ask, ask' = [ask EXCEPT ![r] = a],
           a.step \in {"sent", "unanswered", "got", "refused"} => Known(a.sess),
           a.step = "idle" \/ till.sess # None \/ (ask[r].step # "idle" /\ a.stale = ask[r].stale)
    PROVE  ask' \in [Renewal -> Ask] /\ AskOK'
<1>1. SessKept
  BY Untouched DEF Inv
<1>2. \A q \in Renewal : ask'[q] = IF q = r THEN a ELSE ask[q]
  BY DEF Inv, TypeOK
<1>3. \A q \in Renewal : ask'[q].step \in {"sent", "unanswered", "got", "refused"} => Known(ask'[q].sess)
  BY <1>2 DEF Inv, AskOK
<1>4. ASSUME NEW q \in Renewal, ask'[q].step # "idle", ~ask'[q].stale
      PROVE  till'.sess # None
  BY <1>2, <1>4 DEF Inv, AskOK
<1>5. AskOK'
  BY <1>1, <1>3, <1>4, KnownKept DEF AskOK
<1>. QED BY <1>5 DEF Inv, TypeOK

LEMMA FaultTyped ==
    ASSUME TypeOK, Fault \/ UNCHANGED faults
    PROVE  faults' \in 0 .. MaxFault
  BY BoundsAssumption DEF TypeOK, Fault

LEMMA OutageTyped ==
    ASSUME TypeOK, NEW r, Outage(r)
    PROVE  faults' \in 0 .. MaxFault
  BY FaultTyped DEF Outage

(* The till leaves its session. *)
LEMMA LeaveTyped ==
    ASSUME Inv, Leave, UNCHANGED sess
    PROVE  ask' \in [Renewal -> Ask] /\ AskOK'
<1>1. ASSUME NEW r \in Renewal
      PROVE  /\ ask'[r] \in Ask /\ ask'[r].step = ask[r].step /\ ask'[r].sess = ask[r].sess
             /\ ask'[r].step # "idle" => ask'[r].stale
  <2>1. ask[r] \in Ask
    BY DEF Inv, TypeOK
  <2>2. ask'[r] = IF ask[r] = NoAsk THEN NoAsk ELSE [ask[r] EXCEPT !.stale = TRUE]
    BY DEF Leave
  <2>3. [ask[r] EXCEPT !.stale = TRUE].stale = TRUE
    BY <2>1 DEF Ask
  <2>. QED BY <2>1, <2>2, <2>3, StaleTyped, IdleTyped
<1>2. ask' \in [Renewal -> Ask]
  BY <1>1 DEF Leave
<1>. QED BY <1>1, <1>2 DEF Inv, AskOK, Known

(* What a revalidation is told when a renewal is over. *)
LEMMA ToldTyped ==
    ASSUME Inv
    PROVE  /\ NotAccepted \in Checking /\ NotAccepted.step \in {"idle", "refused"}
           /\ NotAccepted.sess = None
           /\ \A s \in Session, step \in {"asked", "confirmed"} :
                 Checks(step, s) \in Checking /\ Checks(step, s).sess = s /\ Checks(step, s).step = step
  BY IdleTyped DEF NotAccepted, Checks, Checking

LEMMA TellKept ==
    ASSUME Inv, NEW r, NEW outcome \in Checking, Tell(r, outcome),
           \/ outcome.step \in {"idle", "refused"} /\ outcome.sess = None
           \/ outcome.step = "asked" /\ outcome.sess = till.sess /\ till.sess \in Session
    PROVE  ChecksKept
<1>1. check' \in [Revalidation -> Checking] /\ \A c \in Revalidation : check'[c] = outcome \/ check'[c] = check[c]
  BY DEF Tell, Inv, TypeOK
<1>2. ASSUME NEW c \in Revalidation
      PROVE  /\ check'[c].step \in {"asked", "confirmed"} => check'[c].sess \in Session
             /\ check'[c].step = "waiting" => check'[c].ask \in Renewal
             /\ check'[c].sess # None => check'[c].sess \in {check[c].sess, till.sess}
  <2>1. CASE check'[c] = outcome
    BY <2>1
  <2>2. CASE check'[c] = check[c]
    BY <2>2 DEF Inv, CheckOK
  <2>. QED BY <1>1, <2>1, <2>2
<1>. QED BY <1>1, <1>2 DEF ChecksKept

LEMMA ToldOver ==
    ASSUME Inv, NEW r, Tell(r, NotAccepted) \/ Tell(r, NoCheck)
    PROVE  ChecksKept
<1>1. PICK x : x = NotAccepted
  OBVIOUS
<1>2. PICK y : y = NoCheck
  OBVIOUS
<1>3. Tell(r, x) \/ Tell(r, y)
  BY <1>1, <1>2 DEF Tell
<1>4. /\ x \in Checking /\ x.step \in {"idle", "refused"} /\ x.sess = None
      /\ y \in Checking /\ y.step \in {"idle", "refused"} /\ y.sess = None
  BY <1>1, <1>2, ToldTyped, IdleTyped
<1>5. CASE Tell(r, x)
  BY <1>4, <1>5, TellKept
<1>6. CASE Tell(r, y)
  BY <1>4, <1>6, TellKept
<1>. QED BY <1>3, <1>5, <1>6

LEMMA ToldAgain ==
    ASSUME Inv, NEW r, till.sess \in Session, Tell(r, Checks("asked", till.sess))
    PROVE  ChecksKept
<1>1. PICK x : x = Checks("asked", till.sess)
  OBVIOUS
<1>2. Tell(r, x)
  BY <1>1 DEF Tell
<1>3. x \in Checking /\ x.step = "asked" /\ x.sess = till.sess
  BY <1>1, ToldTyped
<1>. QED BY <1>2, <1>3, TellKept

(* One revalidation goes on. *)
LEMMA CheckKept ==
    ASSUME Inv, NEW c \in Revalidation, NEW v \in Checking, check' = [check EXCEPT ![c] = v],
           v.step \in {"asked", "confirmed"} => v.sess \in Session,
           v.step = "waiting" => v.ask \in Renewal,
           v.sess # None => v.sess \in {check[c].sess, till.sess}
    PROVE  ChecksKept
<1>1. \A d \in Revalidation : check'[d] = IF d = c THEN v ELSE check[d]
  BY DEF Inv, TypeOK
<1>2. check' \in [Revalidation -> Checking]
  BY DEF Inv, TypeOK
<1>. QED BY <1>1, <1>2 DEF ChecksKept, Inv, CheckOK

LEMMA StartRenewalInv ==
    ASSUME Inv, NEW r \in Renewal, StartRenewal(r)
    PROVE  Inv' /\ DeadKept
<1> DEFINE a == [ask[r] EXCEPT !.step = "reading"]
<1>1. a \in Ask /\ a.step = "reading"
  <2>1. ask[r] \in Ask
    BY RenewalTyped DEF Inv
  <2>. QED BY <2>1 DEF Ask
<1>2. ask' = [ask EXCEPT ![r] = a]
  BY DEF StartRenewal, Inv, TypeOK
<1> HIDE DEF a
<1>3. ask' \in [Renewal -> Ask] /\ AskOK'
  BY <1>1, <1>2, AskTyped DEF StartRenewal
<1>. QED BY <1>3, CheckUntouched, TillStepInv DEF StartRenewal, TillKept, Inv, TypeOK

LEMMA SendRefreshInv ==
    ASSUME Inv, NEW r \in Renewal, SendRefresh(r)
    PROVE  Inv' /\ DeadKept
<1>1. CASE till.sess = None
  <2>1. ask' = [ask EXCEPT ![r] = NoAsk] /\ UNCHANGED <<net, sess, till>>
    BY <1>1 DEF SendRefresh
  <2>2. ask' \in [Renewal -> Ask] /\ AskOK'
    BY <2>1, IdleTyped, AskTyped
  <2>3. ChecksKept
    BY <1>1, ToldOver DEF SendRefresh
  <2>. QED BY <2>1, <2>2, <2>3, TillStepInv DEF SendRefresh, TillKept, Inv, TypeOK
<1>2. CASE till.sess # None
  <2> DEFINE a == [ask[r] EXCEPT !.step = "sent", !.sess = till.sess, !.token = till.token]
  <2>1. till.sess \in Session /\ till.token \in Token /\ Known(till.sess)
    BY <1>2 DEF Inv, TypeOK, Till, TillOK, Known
  <2>2. a \in Ask /\ a.sess = till.sess /\ a.token = till.token /\ a.try \in {1, 2}
    <3>1. ask[r] \in Ask
      BY RenewalTyped DEF Inv
    <3>. QED BY <2>1, <3>1 DEF Ask
  <2>3. ask' = [ask EXCEPT ![r] = a] /\ net' = net \cup {RequestOf(r)'} /\ UNCHANGED <<sess, till>>
    BY <1>2 DEF SendRefresh, Inv, TypeOK
  <2>4. ask'[r] = a
    BY <2>3 DEF Inv, TypeOK
  <2> HIDE DEF a
  <2>5. ask' \in [Renewal -> Ask] /\ AskOK'
    BY <1>2, <2>1, <2>2, <2>3, AskTyped
  <2>6. RequestOf(r)' \in Request /\ Known(RequestOf(r)'.sess)
    BY <2>1, <2>2, <2>4 DEF RequestOf, Request
  <2>7. ChecksKept
    BY <1>2, CheckUntouched DEF SendRefresh
  <2>. QED BY <2>3, <2>5, <2>6, <2>7, TillStepInv DEF SendRefresh, TillKept, Inv, TypeOK
<1>. QED BY <1>1, <1>2

LEMMA NoAnswerInv ==
    ASSUME Inv, NEW r \in Renewal, NoAnswer(r)
    PROVE  Inv' /\ DeadKept
<1> DEFINE a == [ask[r] EXCEPT !.step = "unanswered"]
<1>1. a \in Ask /\ a.sess = ask[r].sess /\ a.stale = ask[r].stale
  <2>1. ask[r] \in Ask
    BY RenewalTyped DEF Inv
  <2>. QED BY <2>1 DEF Ask
<1>2. ask' = [ask EXCEPT ![r] = a] /\ net' \subseteq net /\ ask[r].step = "sent" /\ UNCHANGED <<sess, till>>
  BY DEF NoAnswer, Inv, TypeOK
<1> HIDE DEF a
<1>3. ask' \in [Renewal -> Ask] /\ AskOK'
  <2>1. Known(ask[r].sess)
    BY DEF Inv, AskOK, NoAnswer
  <2>. QED BY <1>1, <1>2, <2>1, AskTyped
<1>4. faults' \in 0 .. MaxFault
  BY OutageTyped DEF NoAnswer, Inv
<1>. QED BY <1>2, <1>3, <1>4, CheckUntouched, TillStepInv DEF NoAnswer, TillKept, Inv, TypeOK

LEMMA RetryInv ==
    ASSUME Inv, NEW r \in Renewal, Retry(r)
    PROVE  Inv' /\ DeadKept
<1> DEFINE a == [ask[r] EXCEPT !.step = "sent", !.try = 2]
<1>1. /\ a \in Ask /\ a.sess = ask[r].sess /\ a.token \in Token /\ a.try = 2 /\ a.stale = ask[r].stale
      /\ ask[r].sess \in Session /\ Known(ask[r].sess)
  <2>1. ask[r] \in Ask
    BY RenewalTyped DEF Inv
  <2>2. Known(ask[r].sess)
    BY DEF Inv, AskOK, Retry
  <2>3. a \in Ask /\ a.sess = ask[r].sess /\ a.token \in Token /\ a.try = 2 /\ a.stale = ask[r].stale
    BY <2>1 DEF Ask
  <2>. QED BY <2>2, <2>3 DEF Known
<1>2. /\ ask' = [ask EXCEPT ![r] = a] /\ net' = net \cup {RequestOf(r)'}
      /\ ask[r].step = "unanswered" /\ UNCHANGED <<sess, till>>
  BY DEF Retry, Inv, TypeOK
<1>3. ask'[r] = a
  BY <1>2 DEF Inv, TypeOK
<1> HIDE DEF a
<1>4. ask' \in [Renewal -> Ask] /\ AskOK'
  BY <1>1, <1>2, AskTyped
<1>5. RequestOf(r)' \in Request /\ Known(RequestOf(r)'.sess)
  BY <1>1, <1>3 DEF RequestOf, Request
<1>. QED BY <1>2, <1>4, <1>5, CheckUntouched, TillStepInv DEF Retry, TillKept, Inv, TypeOK

LEMMA GiveUpInv ==
    ASSUME Inv, NEW r \in Renewal, GiveUp(r)
    PROVE  Inv' /\ DeadKept
<1>0. ask' = [ask EXCEPT ![r] = NoAsk] /\ UNCHANGED <<sess, till>>
  BY DEF GiveUp
<1>1. ask' \in [Renewal -> Ask] /\ AskOK'
  BY <1>0, IdleTyped, AskTyped
<1>2. lost' \subseteq Session
  BY DEF GiveUp, Inv, TypeOK, AskOK, Known
<1>3. ChecksKept
  BY ToldOver DEF GiveUp
<1>. QED BY <1>1, <1>2, <1>3, TillStepInv DEF GiveUp, TillKept, Inv, TypeOK

LEMMA SaveRenewedInv ==
    ASSUME Inv, NEW r \in Renewal, SaveRenewed(r)
    PROVE  Inv' /\ DeadKept
<1>1. till' \in Till /\ till'.sess = till.sess /\ till'.user = till.user
  <2>1. ask[r].token \in Token
    BY RenewalTyped DEF Inv, Ask
  <2>. QED BY <2>1 DEF SaveRenewed, Inv, TypeOK, Till
<1>2. ask' = [ask EXCEPT ![r] = NoAsk] /\ UNCHANGED <<account, sess, txn, net, out, outdated, lost, faults>>
  BY DEF SaveRenewed
<1>3. ask' \in [Renewal -> Ask] /\ AskOK'
  BY <1>1, <1>2, IdleTyped, AskTyped
<1>4. ChecksKept
  <2>1. CASE ask[r].stale
    BY <2>1, ToldOver DEF SaveRenewed
  <2>2. CASE ~ask[r].stale
    <3>1. Tell(r, Checks("asked", till.sess)) /\ ask[r].step = "got"
      BY <2>2 DEF SaveRenewed
    <3>2. till.sess \in Session
      BY <2>2, <3>1 DEF Inv, AskOK, TypeOK, Till
    <3>. QED BY <3>1, <3>2, ToldAgain
  <2>. QED BY <2>1, <2>2
<1>. QED BY <1>1, <1>2, <1>3, <1>4, TillStepInv DEF TillKept, Inv, TypeOK

LEMMA RenewalRefusedInv ==
    ASSUME Inv, NEW r \in Renewal, RenewalRefused(r)
    PROVE  Inv' /\ DeadKept
<1>1. till' \in Till /\ till'.sess = till.sess /\ till'.user = till.user
  BY DEF RenewalRefused, Inv, TypeOK, Till
<1>2. ask' = [ask EXCEPT ![r] = NoAsk] /\ UNCHANGED <<account, sess, txn, net, out, outdated, lost, faults>>
  BY DEF RenewalRefused
<1>3. ask' \in [Renewal -> Ask] /\ AskOK'
  BY <1>1, <1>2, IdleTyped, AskTyped
<1>4. ChecksKept
  BY ToldOver DEF RenewalRefused
<1>. QED BY <1>1, <1>2, <1>3, <1>4, TillStepInv DEF TillKept, Inv, TypeOK

LEMMA CallRefusedInv ==
    ASSUME Inv, CallRefused
    PROVE  Inv' /\ DeadKept
<1>1. till' \in Till /\ till'.sess = till.sess /\ till'.user = till.user
  BY DEF CallRefused, Inv, TypeOK, Till
<1>2. AskOK'
  BY DEF CallRefused, Inv, AskOK, Known
<1>. QED BY <1>1, <1>2, CheckUntouched, TillStepInv DEF CallRefused, TillKept, Inv, TypeOK

(* Nothing is saved any more. *)
LEMMA ClearsTyped ==
    ASSUME NEW u \in User \cup {None}, Clears(u)
    PROVE  till' \in Till /\ till'.sess = None
  BY BoundsAssumption DEF Clears, Till, Token

LEMMA EndSessionInv ==
    ASSUME Inv, EndSession
    PROVE  Inv' /\ DeadKept
<1>1. till' \in Till /\ till'.sess = None
  BY ClearsTyped DEF EndSession, Inv, TypeOK, Till
<1>2. ask' \in [Renewal -> Ask] /\ AskOK'
  BY LeaveTyped DEF EndSession
<1>. QED BY <1>1, <1>2, CheckUntouched, TillStepInv DEF EndSession, TillKept, Inv, TypeOK

LEMMA SignOutInv ==
    ASSUME Inv, SignOut
    PROVE  Inv' /\ DeadKept
<1>1. till' \in Till /\ till'.sess = None
  BY ClearsTyped DEF SignOut
<1>2. ask' \in [Renewal -> Ask] /\ AskOK'
  BY LeaveTyped DEF SignOut
<1>3. faults' \in 0 .. MaxFault
  BY FaultTyped DEF SignOut, Inv
<1>4. \A o \in out' : o \in out \/ (o \in [sess : Session, token : Token] /\ Known(o.sess))
  BY DEF SignOut, Inv, TypeOK, Till, TillOK, Known
<1>. QED BY <1>1, <1>2, <1>3, <1>4, CheckUntouched, TillStepInv DEF SignOut, TillKept, Inv, TypeOK

LEMMA KillInv ==
    ASSUME Inv, Kill
    PROVE  Inv' /\ DeadKept
<1>1. till' \in Till /\ till'.sess = till.sess /\ till'.user = till.user
  BY DEF Kill, Inv, TypeOK, Till
<1>2. ask' \in [Renewal -> Ask] /\ AskOK'
  BY IdleTyped DEF Kill, AskOK, Known
<1>3. faults' \in 0 .. MaxFault
  BY FaultTyped DEF Kill, Inv
<1>4. lost' \subseteq Session /\ net' \subseteq net
  BY DEF Kill, Inv, TypeOK, Ask
<1>5. ChecksKept
  BY IdleTyped DEF Kill, ChecksKept
<1>. QED BY <1>1, <1>2, <1>3, <1>4, <1>5, TillStepInv DEF Kill, TillKept, Inv, TypeOK

-----------------------------------------------------------------------------
(* The server's steps *)

(* An answer reaches the till, or does not. *)
LEMMA AnswerTyped ==
    ASSUME Inv, SessKept, NEW m \in Request, NEW step \in {"got", "refused"}, NEW token \in Token,
           UNCHANGED till,
           Answer(m, step, token)
    PROVE  ask' \in [Renewal -> Ask] /\ AskOK' /\ faults' \in 0 .. MaxFault
<1> DEFINE r == m.r
           a == [ask[r] EXCEPT !.step = step, !.token = token]
           b == [ask[r] EXCEPT !.step = "unanswered"]
<1>1. r \in Renewal /\ ask[r] \in Ask
  BY DEF Request, Inv, TypeOK
<1>2. /\ a \in Ask /\ b \in Ask /\ a.sess = ask[r].sess /\ b.sess = ask[r].sess
      /\ a.stale = ask[r].stale /\ b.stale = ask[r].stale
  BY <1>1 DEF Ask
<1>3. \/ UNCHANGED <<ask, faults>>
      \/ ask[r].step = "sent" /\ ask' = [ask EXCEPT ![r] = a] /\ UNCHANGED faults
      \/ ask[r].step = "sent" /\ ask' = [ask EXCEPT ![r] = b] /\ Outage(r)
  BY DEF Answer
<1> HIDE DEF a, b
<1>4. ask[r].step = "sent" => Known(ask[r].sess)
  BY <1>1 DEF Inv, AskOK
<1>5. faults' \in 0 .. MaxFault
  BY <1>3, FaultTyped, OutageTyped DEF Inv
<1>6. CASE UNCHANGED ask
  BY <1>5, <1>6, KnownKept DEF Inv, TypeOK, AskOK
<1>7. CASE ask[r].step = "sent" /\ ask' = [ask EXCEPT ![r] = a]
  BY <1>1, <1>2, <1>4, <1>5, <1>7, AskTyped
<1>8. CASE ask[r].step = "sent" /\ ask' = [ask EXCEPT ![r] = b]
  BY <1>1, <1>2, <1>4, <1>5, <1>8, AskTyped
<1>. QED BY <1>3, <1>6, <1>7, <1>8

(* A step of the server that leaves accounts and the till alone. *)
LEMMA ServerStepInv ==
    ASSUME Inv, UNCHANGED <<account, till, check, outdated, lost>>, SessKept,
           txn' \in [Worker -> Txn], TxnOK',
           \A w \in Worker : txn'[w] = txn[w] \/ txn'[w].kind # "signin",
           net' \subseteq net, out' \subseteq out,
           ask' \in [Renewal -> Ask], AskOK', faults' \in 0 .. MaxFault
    PROVE  Inv' /\ DeadKept
<1>1. TypeOK'
  BY DEF Inv, TypeOK, SessKept
<1>2. SignInOK'
  BY SignInKept
<1>3. TillKept
  BY DEF TillKept
<1>4. NetOK'
  BY KnownKept DEF Inv, NetOK
<1>. QED BY <1>1, <1>2, <1>3, <1>4, CheckUntouched, StepInv

LEMMA RefreshReadInv ==
    ASSUME Inv, NEW w \in Worker, NEW m \in net, RefreshRead(w, m)
    PROVE  Inv' /\ DeadKept
<1>1. m \in Request /\ m.sess \in Session /\ m.token \in Token
  BY DEF Inv, TypeOK, Request
<1>2. UNCHANGED <<account, out, till, check, outdated, lost>> /\ net' \subseteq net
  BY DEF RefreshRead
<1>3. CASE ComesBackLate(m)
  <2> DEFINE row == [sess[m.sess] EXCEPT !.state = "reuse"]
  <2>1. sess' = [sess EXCEPT ![m.sess] = row] /\ Answer(m, "refused", m.token) /\ UNCHANGED txn
    BY <1>1, <1>3 DEF RefreshRead, Inv, TypeOK
  <2>2. row \in SessionRow /\ row.user = sess[m.sess].user /\ row.state = "reuse"
    <3>1. sess[m.sess] \in SessionRow
      BY <1>1, RowTyped DEF Inv
    <3>. QED BY <3>1 DEF SessionRow, Revoked
  <2>3. sess[m.sess].state # "none"
    BY <1>1, <1>3, IdleTyped DEF ComesBackLate, Inv, SessOK, NoSession, Found
  <2>4. sess[m.sess].state = "live"
    BY <1>1, <1>3, <2>3, States DEF ComesBackLate, Found, Inv
  <2> HIDE DEF row
  <2>5. SessKept
    BY <1>1, <2>1, <2>2, <2>4, OneTouched DEF Inv
  <2>6. ask' \in [Renewal -> Ask] /\ AskOK' /\ faults' \in 0 .. MaxFault
    BY <1>1, <1>2, <2>1, <2>5, AnswerTyped
  <2>7. txn' \in [Worker -> Txn] /\ TxnOK'
    BY <2>1, <2>5, KnownKept DEF Inv, TypeOK, TxnOK
  <2>. QED BY <1>2, <2>1, <2>5, <2>6, <2>7, ServerStepInv
<1>4. CASE Answer(m, "refused", m.token) /\ UNCHANGED <<sess, txn>>
  <2>1. SessKept
    BY <1>4, Untouched DEF Inv
  <2>2. ask' \in [Renewal -> Ask] /\ AskOK' /\ faults' \in 0 .. MaxFault
    BY <1>1, <1>2, <1>4, <2>1, AnswerTyped
  <2>3. txn' \in [Worker -> Txn] /\ TxnOK'
    BY <1>4, <2>1, KnownKept DEF Inv, TypeOK, TxnOK
  <2>. QED BY <1>2, <1>4, <2>1, <2>2, <2>3, ServerStepInv
<1>5. CASE /\ GoOn(w, [Idle EXCEPT !.kind = "refresh", !.request = m, !.replacing = sess[m.sess].hash])
           /\ UNCHANGED <<sess, ask, faults>>
  <2> DEFINE t == [Idle EXCEPT !.kind = "refresh", !.request = m, !.replacing = sess[m.sess].hash]
  <2>1. sess[m.sess].hash \in Token
    BY <1>1 DEF Inv, TypeOK, SessionRow
  <2>2. t \in Txn /\ t.kind = "refresh" /\ t.request = m
    BY <1>1, <2>1, IdleTyped DEF Txn, Idle
  <2>3. txn' = [txn EXCEPT ![w] = t]
    BY <1>5 DEF GoOn
  <2> HIDE DEF t
  <2>4. txn' \in [Worker -> Txn] /\ \A v \in Worker : txn'[v] = IF v = w THEN t ELSE txn[v]
    BY <2>2, <2>3 DEF Inv, TypeOK
  <2>5. TxnOK'
    BY <1>1, <1>5, <2>2, <2>4 DEF Inv, TxnOK, NetOK, Known
  <2>6. \A v \in Worker : txn'[v] = txn[v] \/ txn'[v].kind # "signin"
    BY <2>2, <2>4
  <2>7. SessKept
    BY <1>5, Untouched DEF Inv
  <2>8. ask' \in [Renewal -> Ask] /\ AskOK' /\ faults' \in 0 .. MaxFault
    BY <1>2, <1>5 DEF Inv, TypeOK, AskOK, Known
  <2>. QED BY <1>2, <2>4, <2>5, <2>6, <2>7, <2>8, ServerStepInv
<1>. QED BY <1>3, <1>4, <1>5 DEF RefreshRead

(* The thread is done with its request. *)
LEMMA DoneTyped ==
    ASSUME Inv, SessKept, NEW w \in Worker, GoOn(w, Idle)
    PROVE  /\ txn' \in [Worker -> Txn] /\ TxnOK'
           /\ \A v \in Worker : txn'[v] = txn[v] \/ txn'[v].kind # "signin"
<1>1. txn' \in [Worker -> Txn] /\ \A v \in Worker : txn'[v] = IF v = w THEN Idle ELSE txn[v]
  BY IdleTyped DEF GoOn, Inv, TypeOK
<1>. QED BY <1>1, IdleTyped, KnownKept DEF Inv, TxnOK

LEMMA RefreshWriteInv ==
    ASSUME Inv, NEW w \in Worker, RefreshWrite(w)
    PROVE  Inv' /\ DeadKept
<1> DEFINE t == txn[w]
           s == t.request.sess
<1>1. t.request \in Request /\ s \in Session /\ t.request.token \in Token /\ sess[s].state # "none"
  BY DEF RefreshWrite, Inv, TxnOK, Request, Known
<1>2. GoOn(w, Idle) /\ UNCHANGED <<account, net, out, till, check, outdated, lost>>
  BY DEF RefreshWrite
<1>3. CASE CanRotate(t)
  <2> DEFINE new == t.replacing + 1
             row == [sess[s] EXCEPT !.hash = new, !.prev = t.replacing, !.fresh = TRUE]
  <2>1. /\ new <= MaxIssued
        /\ sess' = [sess EXCEPT ![s] = row]
        /\ Answer(t.request, "got", new)
    BY <1>1, <1>3 DEF RefreshWrite, Inv, TypeOK
  <2>2. t.replacing \in Token /\ new \in Token
    BY <2>1, BoundsAssumption DEF Inv, TypeOK, Txn, Token
  <2>3. row \in SessionRow /\ row.user = sess[s].user /\ row.state = sess[s].state
    <3>1. sess[s] \in SessionRow
      BY <1>1, RowTyped DEF Inv
    <3>. QED BY <2>2, <3>1 DEF SessionRow
  <2>4. sess[s].state = "live"
    BY <1>1, <1>3, States DEF CanRotate, Inv
  <2> HIDE DEF row, new
  <2>5. SessKept
    BY <1>1, <2>1, <2>3, <2>4, OneTouched DEF Inv
  <2>6. ask' \in [Renewal -> Ask] /\ AskOK' /\ faults' \in 0 .. MaxFault
    BY <1>1, <1>2, <2>1, <2>2, <2>5, AnswerTyped
  <2>. QED BY <1>2, <2>5, <2>6, DoneTyped, ServerStepInv
<1>4. CASE ~CanRotate(t)
  <2>1. UNCHANGED sess /\ Answer(t.request, "refused", t.request.token)
    BY <1>4 DEF RefreshWrite
  <2>2. SessKept
    BY <2>1, Untouched DEF Inv
  <2>3. ask' \in [Renewal -> Ask] /\ AskOK' /\ faults' \in 0 .. MaxFault
    BY <1>1, <1>2, <2>1, <2>2, AnswerTyped
  <2>. QED BY <1>2, <2>2, <2>3, DoneTyped, ServerStepInv
<1>. QED BY <1>3, <1>4

(* Only sessions change, each the way SessKept says. *)
LEMMA SessStepInv ==
    ASSUME Inv, SessKept, UNCHANGED <<account, txn, net, till, ask, check, outdated, lost, faults>>,
           out' \subseteq out
    PROVE  Inv' /\ DeadKept
<1>1. TxnOK' /\ AskOK'
  BY KnownKept DEF Inv, TxnOK, AskOK
<1>. QED BY <1>1, ServerStepInv DEF Inv, TypeOK

(* Either token of the pair ends the session. *)
LEMMA LogOutInv ==
    ASSUME Inv, NEW o \in out, LogOut(o)
    PROVE  Inv' /\ DeadKept
<1> DEFINE s == o.sess
           row == [sess[s] EXCEPT !.state = "revoked"]
<1>1. /\ s \in Session /\ sess[s].state # "none"
      /\ UNCHANGED <<account, txn, net, till, ask, check, outdated, lost, faults>> /\ out' \subseteq out
  BY DEF LogOut, Inv, TypeOK, NetOK, Known
<1>2. row \in SessionRow /\ row.user = sess[s].user /\ row.state = "revoked"
  <2>1. sess[s] \in SessionRow
    BY <1>1, RowTyped DEF Inv
  <2>. QED BY <2>1 DEF SessionRow, Revoked
<1>3. UNCHANGED sess \/ (sess' = [sess EXCEPT ![s] = row] /\ ~IsRevoked(s))
  BY <1>1 DEF LogOut, Inv, TypeOK
<1> HIDE DEF row
<1>4. SessKept
  BY <1>1, <1>2, <1>3, States, Untouched, OneTouched DEF Inv
<1>. QED BY <1>1, <1>4, SessStepInv

LEMMA GraceEndsInv ==
    ASSUME Inv, NEW s \in Session, GraceEnds(s)
    PROVE  Inv' /\ DeadKept
<1> DEFINE row == [sess[s] EXCEPT !.fresh = FALSE]
<1>1. /\ UNCHANGED <<account, txn, net, till, ask, check, outdated, lost, faults>> /\ out' = out
      /\ sess' = [sess EXCEPT ![s] = row]
  BY DEF GraceEnds, Inv, TypeOK
<1>2. /\ row \in SessionRow
      /\ row.user = sess[s].user /\ row.state = sess[s].state /\ row.hash = sess[s].hash
  <2>1. sess[s] \in SessionRow
    BY RowTyped DEF Inv
  <2>. QED BY <2>1 DEF SessionRow
<1>3. sess[s].state # "none"
  BY DEF GraceEnds, Inv, SessOK, NoSession
<1> HIDE DEF row
<1>4. SessKept
  BY <1>1, <1>2, <1>3, OneTouched DEF Inv
<1>. QED BY <1>1, <1>4, SessStepInv

-----------------------------------------------------------------------------
(* Signing in and the owner's steps *)

LEMMA BootstrapReadInv ==
    ASSUME Inv, NEW w \in Worker, NEW u \in User, BootstrapRead(w, u)
    PROVE  Inv' /\ DeadKept
<1> DEFINE t == [Idle EXCEPT !.kind = "bootstrap", !.user = u]
<1>1. /\ UNCHANGED <<account, sess, net, out, till, ask, check, outdated, lost, faults>>
      /\ txn' = [txn EXCEPT ![w] = t]
  BY DEF BootstrapRead, GoOn
<1>2. t \in Txn /\ t.kind = "bootstrap" /\ t.user = u
  BY IdleTyped DEF Txn, Idle
<1> HIDE DEF t
<1>3. txn' \in [Worker -> Txn] /\ \A v \in Worker : txn'[v] = IF v = w THEN t ELSE txn[v]
  BY <1>1, <1>2 DEF Inv, TypeOK
<1>4. TxnOK' /\ AskOK'
  BY <1>1, <1>2, <1>3 DEF Inv, TxnOK, AskOK, Known
<1>5. SessKept
  BY <1>1, Untouched DEF Inv
<1>. QED BY <1>1, <1>2, <1>3, <1>4, <1>5, ServerStepInv DEF Inv, TypeOK

LEMMA SignInReadInv ==
    ASSUME Inv, NEW w \in Worker, NEW u \in User, SignInRead(w, u)
    PROVE  Inv' /\ DeadKept
<1> DEFINE t == [Idle EXCEPT !.kind = "signin", !.user = u]
<1>1. /\ UNCHANGED <<account, sess, net, out, till, ask, check, outdated, lost, faults>>
      /\ account[u] = "active" /\ txn' = [txn EXCEPT ![w] = t]
  BY DEF SignInRead, GoOn
<1>2. t \in Txn /\ t.kind = "signin" /\ t.user = u
  BY IdleTyped DEF Txn, Idle
<1> HIDE DEF t
<1>3. txn' \in [Worker -> Txn] /\ \A v \in Worker : txn'[v] = IF v = w THEN t ELSE txn[v]
  BY <1>1, <1>2 DEF Inv, TypeOK
<1>4. TxnOK' /\ AskOK' /\ NetOK'
  BY <1>1, <1>2, <1>3 DEF Inv, TxnOK, AskOK, NetOK, Known
<1>5. SignInOK'
  BY <1>1, <1>2, <1>3 DEF Inv, SignInOK
<1>6. SessKept /\ TillKept /\ TypeOK'
  BY <1>1, <1>3, Untouched DEF Inv, TypeOK, TillKept
<1>7. ChecksKept
  BY <1>1, CheckUntouched
<1>. QED BY <1>4, <1>5, <1>6, <1>7, StepInv

LEMMA BootstrapWriteInv ==
    ASSUME Inv, NEW w \in Worker, BootstrapWrite(w)
    PROVE  Inv' /\ DeadKept
<1>1. CASE \E v \in User : account[v] # "none"
  <2>1. GoOn(w, Idle) /\ UNCHANGED <<account, sess, net, out, till, ask, check, outdated, lost, faults>>
    BY <1>1 DEF BootstrapWrite
  <2>2. SessKept
    BY <2>1, Untouched DEF Inv
  <2>3. AskOK'
    BY <2>1 DEF Inv, AskOK, Known
  <2>. QED BY <2>1, <2>2, <2>3, DoneTyped, ServerStepInv DEF Inv, TypeOK
<1>2. CASE ~ \E v \in User : account[v] # "none"
  <2>1. account' = [account EXCEPT ![txn[w].user] = "active"] /\ Issue(w) /\ txn[w].kind = "bootstrap"
    BY <1>2 DEF BootstrapWrite
  <2>2. account'[txn[w].user] = "active"
    BY <2>1 DEF Inv, TypeOK, TxnOK
  <2>. QED BY <2>1, <2>2, IssueInv DEF DeadKept
<1>. QED BY <1>1, <1>2

LEMMA SignInWriteInv ==
    ASSUME Inv, NEW w \in Worker, SignInWrite(w)
    PROVE  Inv' /\ DeadKept
<1>1. txn[w].kind = "signin" /\ Issue(w) /\ account' = account
  BY DEF SignInWrite
<1>2. "signin" \in Apart => account'[txn[w].user] = "active"
  BY <1>1 DEF Inv, SignInOK
<1>. QED BY <1>1, <1>2, IssueInv DEF DeadKept

(* What the steps of the owner have in common. *)
LEMMA OwnerStepInv ==
    ASSUME Inv, UNCHANGED <<txn, net, out, till, ask, check, lost, faults>>, SessKept, SignInOK',
           account' \in [User -> Status], outdated' \subseteq Worker \cup Session
    PROVE  Inv' /\ DeadKept
<1>1. TypeOK'
  BY DEF Inv, TypeOK, SessKept
<1>2. TxnOK' /\ AskOK' /\ NetOK'
  BY KnownKept DEF Inv, TxnOK, AskOK, NetOK
<1>3. TillKept
  BY DEF TillKept
<1>. QED BY <1>1, <1>2, <1>3, CheckUntouched, StepInv

LEMMA HireInv ==
    ASSUME Inv, NEW u \in User, Hire(u)
    PROVE  Inv' /\ DeadKept
<1>1. /\ account' = [account EXCEPT ![u] = "active"]
      /\ UNCHANGED <<sess, txn, net, out, till, ask, check, outdated, lost, faults>>
  BY DEF Hire
<1>2. account' \in [User -> Status] /\ \A v : account[v] = "active" => account'[v] = "active"
  BY <1>1 DEF Inv, TypeOK, Status
<1>3. SignInOK'
  BY <1>1, <1>2 DEF Inv, SignInOK
<1>. QED BY <1>1, <1>2, <1>3, Untouched, OwnerStepInv DEF Inv, TypeOK

LEMMA SetStatusInv ==
    ASSUME Inv, NEW u \in User, SetStatus(u)
    PROVE  Inv' /\ DeadKept
<1>1. UNCHANGED <<txn, net, out, till, ask, check, outdated, lost, faults>>
  BY DEF SetStatus
<1>2. CASE /\ account[u] = "active" /\ NotSigningIn(u)
           /\ account' = [account EXCEPT ![u] = "disabled"]
           /\ RevokeAll(u)
  <2>1. SessKept /\ \A s \in Session : sess[s].user = u => sess'[s].state # "live"
    BY <1>2, RevokeAllKept DEF Inv
  <2>2. account' \in [User -> Status] /\ \A v \in User : v # u => account'[v] = account[v]
    BY <1>2 DEF Inv, TypeOK, Status
  <2>3. SignInOK'
    <3> SUFFICES ASSUME "signin" \in Apart
                 PROVE  /\ outdated' = {}
                        /\ \A w \in Worker : txn'[w].kind = "signin" => account'[txn'[w].user] = "active"
                        /\ \A s \in Session : sess'[s].state = "live" => account'[sess'[s].user] = "active"
      BY DEF SignInOK
    <3>1. \A w \in Worker : txn'[w].kind = "signin" => account'[txn'[w].user] = "active"
      BY <1>1, <1>2, <2>2 DEF NotSigningIn, Inv, SignInOK, TxnOK
    <3>2. \A s \in Session : sess'[s].state = "live" => account'[sess'[s].user] = "active"
      BY <2>1, <2>2, IdleTyped DEF Inv, SignInOK, SessOK, SessKept
    <3>. QED BY <1>1, <3>1, <3>2 DEF Inv, SignInOK
  <2>. QED BY <1>1, <2>1, <2>2, <2>3, OwnerStepInv DEF Inv, TypeOK
<1>3. CASE /\ account[u] = "disabled"
           /\ account' = [account EXCEPT ![u] = "active"]
           /\ UNCHANGED sess
  <2>1. account' \in [User -> Status] /\ \A v : account[v] = "active" => account'[v] = "active"
    BY <1>3 DEF Inv, TypeOK, Status
  <2>2. SignInOK'
    BY <1>1, <1>3, <2>1 DEF Inv, SignInOK
  <2>. QED BY <1>1, <1>3, <2>1, <2>2, Untouched, OwnerStepInv DEF Inv, TypeOK
<1>. QED BY <1>2, <1>3 DEF SetStatus

LEMMA ResetPasswordInv ==
    ASSUME Inv, NEW u \in User, ResetPassword(u)
    PROVE  Inv' /\ DeadKept
<1>1. /\ NotSigningIn(u) /\ RevokeAll(u)
      /\ outdated' = outdated \cup {w \in Worker : txn[w].kind = "signin" /\ txn[w].user = u}
                    \cup {s \in Session : sess'[s].user = u /\ sess'[s].state = "live"}
      /\ UNCHANGED <<account, txn, net, out, till, ask, check, lost, faults>>
  BY DEF ResetPassword
<1>2. SessKept /\ \A s \in Session : sess[s].user = u => sess'[s].state # "live"
  BY <1>1, RevokeAllKept DEF Inv
<1>3. outdated' \subseteq Worker \cup Session
  BY <1>1 DEF Inv, TypeOK
<1>4. SignInOK'
  <2> SUFFICES ASSUME "signin" \in Apart
               PROVE  /\ outdated' = {}
                      /\ \A w \in Worker : txn'[w].kind = "signin" => account'[txn'[w].user] = "active"
                      /\ \A s \in Session : sess'[s].state = "live" => account'[sess'[s].user] = "active"
    BY DEF SignInOK
  <2>1. outdated' = {}
    BY <1>1, <1>2 DEF NotSigningIn, Inv, SignInOK, SessKept
  <2>. QED BY <1>1, <1>2, <2>1 DEF Inv, SignInOK, SessKept
<1>. QED BY <1>1, <1>2, <1>3, <1>4, OwnerStepInv DEF Inv, TypeOK

-----------------------------------------------------------------------------
(* Revalidating *)

(* What every step of a revalidation leaves alone. *)
Revalidates == UNCHANGED <<account, sess, txn, net, out, ask, outdated, lost>>

LEMMA RevalidationInv ==
    ASSUME Inv, Revalidates, till' \in Till, till'.sess = till.sess,
           "revalidate" \in Apart /\ till.sess # None => till'.user = till.user, ChecksKept, Fault \/ UNCHANGED faults
    PROVE  Inv' /\ DeadKept
<1>1. TillKept
  BY DEF TillKept
<1>2. AskOK'
  BY DEF Revalidates, Inv, AskOK, Known
<1>3. faults' \in 0 .. MaxFault
  BY FaultTyped DEF Inv
<1>. QED BY <1>1, <1>2, <1>3, TillStepInv DEF Revalidates, Inv, TypeOK

LEMMA AskAgainKept ==
    ASSUME Inv, NEW c \in Revalidation, AskAgain(c)
    PROVE  ChecksKept
<1>1. PICK x : x = NotAccepted
  OBVIOUS
<1>2. x \in Checking /\ x.step \in {"idle", "refused"} /\ x.sess = None
  BY <1>1, ToldTyped
<1>3. CASE till.sess # None /\ check' = [check EXCEPT ![c] = Checks("asked", till.sess)]
  <2>1. PICK y : y = Checks("asked", till.sess)
    OBVIOUS
  <2>2. till.sess \in Session
    BY <1>3 DEF Inv, TypeOK, Till
  <2>3. y \in Checking /\ y.step = "asked" /\ y.sess = till.sess
    BY <2>1, <2>2, ToldTyped
  <2>4. check' = [check EXCEPT ![c] = y]
    BY <1>3, <2>1
  <2>. QED BY <2>2, <2>3, <2>4, CheckKept
<1>4. CASE till.sess = None /\ check' = [check EXCEPT ![c] = NotAccepted]
  <2>1. check' = [check EXCEPT ![c] = x]
    BY <1>1, <1>4
  <2>. QED BY <1>2, <2>1, CheckKept
<1>. QED BY <1>3, <1>4 DEF AskAgain

LEMMA RevalidateInv ==
    ASSUME Inv, NEW c \in Revalidation, Revalidate(c)
    PROVE  Inv' /\ DeadKept
<1>1. AskAgain(c)
  BY DEF Revalidate, AskAgain
<1>. QED BY <1>1, AskAgainKept, RevalidationInv DEF Revalidate, Revalidates, Inv, TypeOK

LEMMA TokenExpiredInv ==
    ASSUME Inv, NEW c \in Revalidation, TokenExpired(c)
    PROVE  Inv' /\ DeadKept
<1>1. ASSUME NEW r \in Renewal, WaitsFor(c, r)
      PROVE  ChecksKept
  <2>1. PICK x : x = [NoCheck EXCEPT !.step = "waiting", !.ask = r]
    OBVIOUS
  <2>2. x \in Checking /\ x.step = "waiting" /\ x.sess = None /\ x.ask = r
    BY <2>1, IdleTyped DEF Checking, NoCheck
  <2>3. check' = [check EXCEPT ![c] = x]
    BY <1>1, <2>1 DEF WaitsFor
  <2>. QED BY <2>2, <2>3, CheckKept
<1>2. ChecksKept
  BY <1>1, AskAgainKept DEF TokenExpired
<1>. QED BY <1>2, RevalidationInv DEF TokenExpired, Revalidates, Inv, TypeOK

LEMMA AnsweredInv ==
    ASSUME Inv, NEW c \in Revalidation, Answered(c)
    PROVE  Inv' /\ DeadKept
<1>1. check[c].step = "asked" /\ check[c].sess \in Session
  BY DEF Answered, Inv, CheckOK
<1>2. PICK x : x = Checks("confirmed", check[c].sess)
  OBVIOUS
<1>3. PICK y : y = NotAccepted
  OBVIOUS
<1>4. PICK z : z = NoCheck
  OBVIOUS
<1>5. /\ x \in Checking /\ x.step = "confirmed" /\ x.sess = check[c].sess
      /\ y \in Checking /\ y.step \in {"idle", "refused"} /\ y.sess = None
      /\ z \in Checking /\ z.step = "idle" /\ z.sess = None
  BY <1>1, <1>2, <1>3, <1>4, ToldTyped, IdleTyped
<1>6. \E v \in {x, y, z} : check' = [check EXCEPT ![c] = v]
  BY <1>2, <1>3, <1>4 DEF Answered
<1>7. ChecksKept
  BY <1>1, <1>5, <1>6, CheckKept
<1>. QED BY <1>7, RevalidationInv DEF Answered, Revalidates, Inv, TypeOK

(* One revalidation is over. *)
LEMMA CheckEnds ==
    ASSUME Inv, NEW c \in Revalidation, check' = [check EXCEPT ![c] = NoCheck]
    PROVE  ChecksKept
<1>1. PICK z : z = NoCheck
  OBVIOUS
<1>2. z \in Checking /\ z.step = "idle" /\ z.sess = None /\ check' = [check EXCEPT ![c] = z]
  BY <1>1, IdleTyped
<1>. QED BY <1>2, CheckKept

LEMMA ConfirmedInv ==
    ASSUME Inv, NEW c \in Revalidation, Confirmed(c)
    PROVE  Inv' /\ DeadKept
<1>1. /\ check[c].step = "confirmed" /\ check' = [check EXCEPT ![c] = NoCheck]
      /\ till' = [till EXCEPT !.user = IF till.user = None THEN None ELSE sess[check[c].sess].user]
      /\ Revalidates /\ UNCHANGED faults
  BY DEF Confirmed, Revalidates, Inv, TypeOK, Till
<1>2. check[c].sess \in Session
  BY <1>1 DEF Inv, CheckOK
<1>3. sess[check[c].sess].user \in User \cup {None}
  BY <1>2, RowTyped DEF Inv, SessionRow
<1>4. /\ till' \in Till /\ till'.sess = till.sess
      /\ till'.user = IF till.user = None THEN None ELSE sess[check[c].sess].user
  BY <1>1, <1>3 DEF Inv, TypeOK, Till
<1>5. "revalidate" \in Apart /\ till.sess # None => till'.user = till.user
  BY <1>2, <1>4, IdsAssumption DEF Inv, OwnOK
<1>. QED BY <1>1, <1>4, <1>5, CheckEnds, RevalidationInv

LEMMA NotConfirmedInv ==
    ASSUME Inv, NEW c \in Revalidation, NotConfirmed(c)
    PROVE  Inv' /\ DeadKept
<1>1. till' \in Till /\ till'.sess = till.sess /\ till'.user = till.user
  BY DEF NotConfirmed, Inv, TypeOK, Till
<1>. QED BY <1>1, CheckEnds, RevalidationInv DEF NotConfirmed, Revalidates

-----------------------------------------------------------------------------
(* The theorems *)

LEMMA StutterInv == Inv /\ UNCHANGED vars => Inv' /\ DeadKept
<1> SUFFICES ASSUME Inv, UNCHANGED vars
             PROVE  Inv' /\ DeadKept
  OBVIOUS
<1>1. SessKept /\ SignInOK'
  BY Untouched DEF vars, Inv, SignInOK
<1>. QED BY <1>1, OwnerStepInv DEF vars, Inv, TypeOK

LEMMA InvNext == Inv /\ [Next]_vars => Inv' /\ DeadKept
<1> SUFFICES ASSUME Inv, [Next]_vars
             PROVE  Inv' /\ DeadKept
  OBVIOUS
<1>1. ASSUME NEW w \in Worker, NEW u \in User, BootstrapRead(w, u) \/ SignInRead(w, u)
      PROVE  Inv' /\ DeadKept
  BY <1>1, BootstrapReadInv, SignInReadInv
<1>2. ASSUME NEW w \in Worker, BootstrapWrite(w) \/ SignInWrite(w) \/ RefreshWrite(w)
      PROVE  Inv' /\ DeadKept
  BY <1>2, BootstrapWriteInv, SignInWriteInv, RefreshWriteInv
<1>3. ASSUME NEW w \in Worker, NEW m \in net, RefreshRead(w, m)
      PROVE  Inv' /\ DeadKept
  BY <1>3, RefreshReadInv
<1>4. ASSUME NEW u \in User, Hire(u) \/ SetStatus(u) \/ ResetPassword(u)
      PROVE  Inv' /\ DeadKept
  BY <1>4, HireInv, SetStatusInv, ResetPasswordInv
<1>5. ASSUME NEW r \in Renewal,
             StartRenewal(r) \/ SendRefresh(r) \/ NoAnswer(r) \/ Retry(r) \/ GiveUp(r)
      PROVE  Inv' /\ DeadKept
  BY <1>5, StartRenewalInv, SendRefreshInv, NoAnswerInv, RetryInv, GiveUpInv
<1>6. ASSUME NEW r \in Renewal, SaveRenewed(r) \/ RenewalRefused(r)
      PROVE  Inv' /\ DeadKept
  BY <1>6, SaveRenewedInv, RenewalRefusedInv
<1>7. CASE CallRefused \/ EndSession \/ SignOut \/ Kill
  BY <1>7, CallRefusedInv, EndSessionInv, SignOutInv, KillInv
<1>8. ASSUME NEW o \in out, LogOut(o)
      PROVE  Inv' /\ DeadKept
  BY <1>8, LogOutInv
<1>9. ASSUME NEW s \in Session, GraceEnds(s)
      PROVE  Inv' /\ DeadKept
  BY <1>9, GraceEndsInv
<1>10. CASE UNCHANGED vars
  BY <1>10, StutterInv
<1>11. ASSUME NEW c \in Revalidation,
              Revalidate(c) \/ TokenExpired(c) \/ Answered(c) \/ Confirmed(c) \/ NotConfirmed(c)
       PROVE  Inv' /\ DeadKept
  BY <1>11, RevalidateInv, TokenExpiredInv, AnsweredInv, ConfirmedInv, NotConfirmedInv
<1>. QED BY <1>11, <1>1, <1>2, <1>3, <1>4, <1>5, <1>6, <1>7, <1>8, <1>9, <1>10 DEF Next

(* The variables keep their types. *)
THEOREM TypeInvariant == Spec => []TypeOK
<1>1. Inv => TypeOK
  BY DEF Inv
<1>. QED BY <1>1, InvInit, InvNext, PTL DEF Spec

(* A session revoked by a sign-out, a disable, a reset or a token that came back   *)
(* stays revoked and issues no token, also to a refresh that was under way.        *)
THEOREM RevokedStaysRevoked == Spec => DeadStaysDead
<1>1. Inv /\ [Next]_vars => [\A s \in Session : IsRevoked(s) =>
                              sess'[s].state = sess[s].state /\ sess'[s].hash = sess[s].hash]_vars
  BY InvNext DEF DeadKept
<1>2. Inv /\ [Next]_vars => Inv'
  BY InvNext
<1>. QED BY <1>1, <1>2, InvInit, PTL DEF Spec, DeadStaysDead

(* Where no reset or disable falls into the middle of a sign-in, every live session *)
(* is of an active account and was opened with the password it has now.             *)
THEOREM OnlyTheEntitled == ASSUME "signin" \in Apart PROVE Spec => []LiveIsEntitled
<1>1. Inv => LiveIsEntitled
  BY DEF Inv, SignInOK, LiveIsEntitled
<1>. QED BY <1>1, InvInit, InvNext, PTL DEF Spec

(* Where no sign-in is saved while a revalidation waits for an answer, the token a  *)
(* till has saved is of a session of the user who is signed in, however renewals,    *)
(* sign-ins and sign-outs fall into one another.                                     *)
THEOREM SavedTokenIsOwn == ASSUME "revalidate" \in Apart PROVE Spec => []SavedIsOwn
<1>1. Inv => SavedIsOwn
  BY DEF Inv, OwnOK, SavedIsOwn
<1>. QED BY <1>1, InvInit, InvNext, PTL DEF Spec

-----------------------------------------------------------------------------
(***************************************************************************)
(* Renewals that are not taken for theft, and sessions that are not ended  *)
(* by mistake: what the till and the server hold of a live session agrees, *)
(* as long as the till gave up no renewal of it unanswered.                *)
(***************************************************************************)

(* The till renews the session it has, once at a time; a renewal that goes on *)
(* after the till has left its session is marked.                             *)
OneByOne ==
    /\ \A r \in Renewal :
         /\ ask[r].step = "idle" => ask[r] = NoAsk
         /\ ask[r].step \in {"idle", "reading"} <=> ask[r].sess = None
         /\ ask[r].step = "reading" => (ask[r].stale <=> till.sess = None)
         /\ ask[r].sess # None => (ask[r].stale <=> ask[r].sess # till.sess)
    /\ \A q, r \in Renewal :
         /\ ask[q].step # "idle" /\ ~ask[q].stale /\ ask[r].step # "idle" /\ ~ask[r].stale => q = r
         /\ ask[q].sess # None /\ ask[q].sess = ask[r].sess => q = r

(* A renewal waits for the answer to just this request. *)
Awaited(m) == ask[m.r].step = "sent" /\ RequestOf(m.r) = m

(* The token that was replaced last, still within its grace. *)
Retryable(s, token) == token = sess[s].prev /\ sess[s].fresh

(* A renewal has a token the server takes, except when its second try too *)
(* got no answer: then the till gives up.                                 *)
AskFits(s, a) ==
    /\ a.step # "refused"
    /\ a.step = "got" => a.token = sess[s].hash
    /\ a.step = "sent" => a.token = sess[s].hash \/ (a.try = 2 /\ Retryable(s, a.token))
    /\ a.step = "unanswered" => a.try = 2 \/ a.token = sess[s].hash \/ Retryable(s, a.token)

Serves(w, s) == txn[w].kind = "refresh" /\ txn[w].request.sess = s

Fits(s) ==
    /\ till.sess = s => till.token = sess[s].hash \/ \E r \in Renewal : ask[r].sess = s
    /\ \A r \in Renewal : ask[r].sess = s => AskFits(s, ask[r])
    /\ \A m \in net : m.sess = s => Awaited(m)
    /\ \A w \in Worker : Serves(w, s) =>
         /\ Awaited(txn[w].request) /\ txn[w].request \notin net
         /\ txn[w].replacing = sess[s].hash
         /\ \A v \in Worker : Serves(v, s) => v = w

InStep == \A s \in Session : sess[s].state = "live" /\ s \notin lost => Fits(s)

Agreed == Inv /\ OneByOne /\ InStep

AllApart == {"late", "handover", "signin"} \subseteq Apart

LEMMA AgreedInit == Init => Agreed
<1> SUFFICES ASSUME Init PROVE Agreed
  OBVIOUS
<1>1. OneByOne
  BY DEF Init, OneByOne, NoAsk
<1>2. InStep
  BY DEF Init, InStep, NoSession
<1>. QED BY <1>1, <1>2, InvInit DEF Agreed

(* The steps of a renewal. *)
LEMMA AskSteps ==
    ASSUME Inv, NEW r \in Renewal
    PROVE  /\ ask[r] \in Ask
           /\ ask[r].step \in {"idle", "reading", "sent", "unanswered", "got", "refused"}
           /\ ask[r].try \in {1, 2} /\ ask[r].stale \in BOOLEAN /\ ask[r].token \in Token
           /\ ask[r].sess \in Session \cup {None}
  BY DEF Inv, TypeOK, Ask

LEMMA NoAskIs ==
    NoAsk.step = "idle" /\ NoAsk.sess = None /\ NoAsk.stale = FALSE /\ NoAsk.try = 1
  BY DEF NoAsk

(* Nothing names a session that was not opened. *)
LEMMA Unopened ==
    ASSUME Inv, OneByOne, NEW s \in Session, sess[s].state = "none"
    PROVE  /\ \A r \in Renewal : ask[r].sess # s
           /\ \A m \in net : m.sess # s
           /\ \A w \in Worker : ~Serves(w, s)
           /\ till.sess # s
<1>1. s # None
  BY IdsAssumption
<1>2. \A r \in Renewal : ask[r].sess # s
  <2> SUFFICES ASSUME NEW r \in Renewal, ask[r].sess = s PROVE FALSE
    OBVIOUS
  <2>1. ask[r].step \in {"sent", "unanswered", "got", "refused"}
    BY <1>1, AskSteps DEF OneByOne
  <2>. QED BY <2>1 DEF Inv, AskOK, Known
<1>. QED BY <1>1, <1>2 DEF Inv, NetOK, TxnOK, TillOK, Known, Serves

-----------------------------------------------------------------------------
(* A step that leaves a session's surroundings as they were. *)
SameAsk(r) ==
    /\ ask'[r].step = ask[r].step /\ ask'[r].sess = ask[r].sess
    /\ ask'[r].token = ask[r].token /\ ask'[r].try = ask[r].try

Spared(s) ==
    /\ sess'[s] = sess[s]
    /\ till'.sess = s => till.sess = s /\ till'.token = till.token
    /\ \A r \in Renewal : ask[r].sess = s \/ ask'[r].sess = s => SameAsk(r)
    /\ \A m \in net' : m.sess = s => m \in net
    /\ \A w \in Worker :
         txn'[w].kind = "refresh" /\ txn'[w].request.sess = s => txn'[w] = txn[w]

LEMMA AwaitedKept ==
    ASSUME NEW m, NEW s, m.sess = s, Awaited(m), m.r \in Renewal, ask[m.r].sess = s => SameAsk(m.r)
    PROVE  ask[m.r].sess = s /\ Awaited(m)'
<1>1. ask[m.r].sess = s
  BY DEF Awaited, RequestOf
<1>2. ask[m.r].step = "sent" /\ RequestOf(m.r) = m
  BY DEF Awaited
<1>3. ask'[m.r].step = "sent" /\ RequestOf(m.r)' = RequestOf(m.r)
  BY <1>1, <1>2 DEF SameAsk, RequestOf
<1>. QED BY <1>1, <1>2, <1>3 DEF Awaited

LEMMA SparedFits ==
    ASSUME Inv, NEW s \in Session, Fits(s), Spared(s)
    PROVE  Fits(s)'
<1>1. till'.sess = s => till'.token = sess'[s].hash \/ \E r \in Renewal : ask'[r].sess = s
  <2>1. \A r \in Renewal : ask[r].sess = s => ask'[r].sess = s
    BY DEF Spared, SameAsk
  <2>2. sess'[s] = sess[s] /\ (till'.sess = s => till.sess = s /\ till'.token = till.token)
    BY DEF Spared
  <2>3. till.sess = s => till.token = sess[s].hash \/ \E r \in Renewal : ask[r].sess = s
    BY DEF Fits
  <2>. QED BY <2>1, <2>2, <2>3
<1>2. ASSUME NEW r \in Renewal, ask'[r].sess = s
      PROVE  AskFits(s, ask[r])'
  <2>1. SameAsk(r) /\ sess'[s] = sess[s]
    BY <1>2 DEF Spared
  <2>2. AskFits(s, ask[r])
    BY <1>2, <2>1 DEF Fits, SameAsk
  <2>. QED BY <2>1, <2>2 DEF AskFits, SameAsk, Retryable
<1>3. ASSUME NEW m \in net', m.sess = s
      PROVE  Awaited(m)'
  <2>1. m \in net /\ m.r \in Renewal
    BY <1>3 DEF Spared, Inv, TypeOK, Request
  <2>2. Awaited(m)
    BY <1>3, <2>1 DEF Fits
  <2>3. ask[m.r].sess = s => SameAsk(m.r)
    BY <2>1 DEF Spared
  <2>. QED BY <1>3, <2>1, <2>2, <2>3, AwaitedKept
<1>4. ASSUME NEW w \in Worker, Serves(w, s)'
      PROVE  /\ txn'[w] = txn[w] /\ Serves(w, s)
             /\ Awaited(txn[w].request)'
             /\ txn'[w].request \notin net' /\ txn'[w].replacing = sess'[s].hash
  <2>1. txn'[w] = txn[w] /\ Serves(w, s)
    BY <1>4 DEF Spared, Serves
  <2>2. /\ Awaited(txn[w].request) /\ txn[w].request \notin net
        /\ txn[w].replacing = sess[s].hash
    BY <2>1 DEF Fits
  <2>3. txn[w].request.sess = s /\ txn[w].request.r \in Renewal
    BY <2>1 DEF Serves, Inv, TxnOK, Request
  <2> DEFINE m == txn[w].request
  <2>4. Awaited(m) /\ m.sess = s /\ m.r \in Renewal /\ (ask[m.r].sess = s => SameAsk(m.r))
    BY <2>2, <2>3 DEF Spared
  <2>5. PICK x : x = m
    OBVIOUS
  <2>6. Awaited(x) /\ x.sess = s /\ x.r \in Renewal /\ (ask[x.r].sess = s => SameAsk(x.r))
    BY <2>4, <2>5
  <2>7. Awaited(x)'
    BY <2>6, AwaitedKept
  <2>8. txn'[w].request = x
    BY <2>1, <2>5
  <2>9. Awaited(txn[w].request)'
    BY <2>7, <2>8 DEF Awaited, RequestOf
  <2>10. m \notin net'
    BY <2>2, <2>3 DEF Spared
  <2>. QED BY <2>1, <2>2, <2>9, <2>10 DEF Spared
<1>5. ASSUME NEW w \in Worker, NEW v \in Worker, Serves(w, s)', Serves(v, s)'
      PROVE  v = w
  BY <1>4, <1>5 DEF Fits
<1>. QED BY <1>1, <1>2, <1>3, <1>4, <1>5 DEF Fits

(* Where no session gets into new surroundings, and none becomes live. *)
LEMMA InStepStays ==
    ASSUME Inv, InStep, lost \subseteq lost',
           \A s \in Session : sess'[s].state = "live" =>
               sess[s].state = "live" \/ Fits(s)',
           \A s \in Session : sess'[s].state = "live" /\ sess[s].state = "live" /\ s \notin lost' /\ Fits(s) =>
               Spared(s) \/ Fits(s)'
    PROVE  InStep'
<1> SUFFICES ASSUME NEW s \in Session, sess'[s].state = "live", s \notin lost'
             PROVE  Fits(s)'
  BY DEF InStep
<1>1. CASE sess[s].state = "live"
  <2>1. Fits(s)
    BY <1>1 DEF InStep
  <2>. QED BY <1>1, <2>1, SparedFits
<1>. QED BY <1>1

(* The renewals that go on are of the same sessions, others end. *)
LEMMA OneByOneStays ==
    ASSUME OneByOne, UNCHANGED till.sess,
           \A r \in Renewal :
             \/ ask'[r] = ask[r]
             \/ ask'[r] = NoAsk
             \/ /\ ask'[r].sess = ask[r].sess /\ ask'[r].stale = ask[r].stale
                /\ ask[r].step \notin {"idle", "reading"} /\ ask'[r].step \notin {"idle", "reading"}
    PROVE  OneByOne'
<1>1. ASSUME NEW r \in Renewal
      PROVE  /\ ask'[r].step = "idle" => ask'[r] = NoAsk
             /\ ask'[r].step \in {"idle", "reading"} <=> ask'[r].sess = None
             /\ ask'[r].step = "reading" => (ask'[r].stale <=> till'.sess = None)
             /\ ask'[r].sess # None => (ask'[r].stale <=> ask'[r].sess # till'.sess)
             /\ ask'[r].sess # None => ask'[r].sess = ask[r].sess
             /\ ask'[r].step # "idle" => ask[r].step # "idle" /\ ask'[r].stale = ask[r].stale
  BY NoAskIs DEF OneByOne
<1>. QED BY <1>1 DEF OneByOne

(* The till leaves its session: every renewal is then of one it has left. *)
LEMMA OneByOneLeaves ==
    ASSUME Inv, OneByOne, Leave,
           \A r \in Renewal : ask[r].sess # None => ask[r].sess # till'.sess,
           \A r \in Renewal : ask[r].step = "reading" => till'.sess = None
    PROVE  OneByOne' /\ \A r \in Renewal : SameAsk(r)
<1>1. ASSUME NEW r \in Renewal
      PROVE  /\ SameAsk(r)
             /\ ask'[r].step = "idle" => ask'[r] = NoAsk
             /\ ask'[r].step # "idle" => ask'[r].stale
  <2>1. ask'[r] = IF ask[r] = NoAsk THEN NoAsk ELSE [ask[r] EXCEPT !.stale = TRUE]
    BY DEF Leave
  <2>2. CASE ask[r] = NoAsk
    BY <2>1, <2>2, NoAskIs DEF SameAsk
  <2>3. CASE ask[r] # NoAsk
    <3>1. ask[r].step # "idle"
      BY <2>3 DEF OneByOne
    <3>2. ask[r] \in Ask
      BY AskSteps
    <3>3. /\ [ask[r] EXCEPT !.stale = TRUE].step = ask[r].step
          /\ [ask[r] EXCEPT !.stale = TRUE].sess = ask[r].sess
          /\ [ask[r] EXCEPT !.stale = TRUE].token = ask[r].token
          /\ [ask[r] EXCEPT !.stale = TRUE].try = ask[r].try
          /\ [ask[r] EXCEPT !.stale = TRUE].stale = TRUE
      BY <3>2 DEF Ask
    <3>. QED BY <2>1, <2>3, <3>1, <3>3 DEF SameAsk
  <2>. QED BY <2>2, <2>3
<1>2. ASSUME NEW r \in Renewal
      PROVE  /\ ask'[r].step \in {"idle", "reading"} <=> ask'[r].sess = None
             /\ ask'[r].step = "reading" => (ask'[r].stale <=> till'.sess = None)
             /\ ask'[r].sess # None => (ask'[r].stale <=> ask'[r].sess # till'.sess)
  BY <1>1 DEF OneByOne, SameAsk
<1>3. ASSUME NEW q \in Renewal, NEW r \in Renewal
      PROVE  /\ ask'[q].step # "idle" /\ ~ask'[q].stale /\ ask'[r].step # "idle" /\ ~ask'[r].stale => q = r
             /\ ask'[q].sess # None /\ ask'[q].sess = ask'[r].sess => q = r
  BY <1>1 DEF OneByOne, SameAsk
<1>. QED BY <1>1, <1>2, <1>3 DEF OneByOne
-----------------------------------------------------------------------------
(* The steps of the till *)

(* The renewal of a session is one. *)
LEMMA TheRenewal ==
    ASSUME OneByOne, NEW s, s # None, NEW r \in Renewal, ask[r].sess = s,
           NEW q \in Renewal, ask[q].sess = s
    PROVE  q = r
  BY DEF OneByOne

(* While its renewal does not wait for the server, a session has no request. *)
LEMMA NoRequest ==
    ASSUME Inv, OneByOne, NEW s \in Session, Fits(s),
           \A r \in Renewal : ask[r].sess = s => ask[r].step # "sent"
    PROVE  (\A m \in net : m.sess # s) /\ (\A w \in Worker : ~Serves(w, s))
<1>1. ASSUME NEW m, m.sess = s, Awaited(m), m.r \in Renewal
      PROVE  FALSE
  BY <1>1 DEF Awaited, RequestOf
<1>2. \A m \in net : m.r \in Renewal
  BY DEF Inv, TypeOK, Request
<1>3. \A w \in Worker : Serves(w, s) => txn[w].request.r \in Renewal /\ txn[w].request.sess = s
  BY DEF Inv, TxnOK, Request, Serves
<1>. QED BY <1>1, <1>2, <1>3 DEF Fits

LEMMA StartRenewalAgrees ==
    ASSUME Agreed, Inv', NEW r \in Renewal, StartRenewal(r)
    PROVE  Agreed'
<1> DEFINE a == [ask[r] EXCEPT !.step = "reading"]
<1>1. /\ UNCHANGED <<sess, txn, net, till, lost>> /\ ask[r] = NoAsk /\ till.sess # None
      /\ \A q \in Renewal : ask[q].step # "idle" => ask[q].stale
      /\ ask' = [ask EXCEPT ![r] = a]
  BY DEF StartRenewal, Agreed, Inv, TypeOK
<1>2. a.step = "reading" /\ a.sess = None /\ a.stale = FALSE
  BY <1>1 DEF NoAsk
<1> HIDE DEF a
<1>3. \A q \in Renewal : ask'[q] = IF q = r THEN a ELSE ask[q]
  BY <1>1 DEF Agreed, Inv, TypeOK
<1>4. OneByOne'
  BY <1>1, <1>2, <1>3, NoAskIs DEF Agreed, OneByOne
<1>5. \A s \in Session : Spared(s)
  BY <1>1, <1>2, <1>3, NoAskIs, IdsAssumption DEF Spared, SameAsk
<1>6. InStep'
  BY <1>1, <1>5, InStepStays DEF Agreed
<1>. QED BY <1>1, <1>4, <1>6 DEF Agreed

LEMMA SendRefreshAgrees ==
    ASSUME Agreed, Inv', NEW r \in Renewal, SendRefresh(r)
    PROVE  Agreed'
<1>1. /\ UNCHANGED <<sess, txn, till, lost>> /\ ask[r].step = "reading" /\ ask[r].sess = None
  BY DEF SendRefresh, Agreed, OneByOne
<1>3. CASE till.sess = None
  <2>1. ask' = [ask EXCEPT ![r] = NoAsk] /\ net' = net
    BY <1>3 DEF SendRefresh
  <2>2. \A q \in Renewal : ask'[q] = IF q = r THEN NoAsk ELSE ask[q]
    BY <2>1 DEF Agreed, Inv, TypeOK
  <2>3. OneByOne'
    BY <1>1, <2>2, OneByOneStays DEF Agreed
  <2>4. \A s \in Session : Spared(s)
    BY <1>1, <2>1, <2>2, NoAskIs, IdsAssumption DEF Spared, SameAsk
  <2>5. InStep'
    BY <1>1, <2>4, InStepStays DEF Agreed
  <2>. QED BY <2>3, <2>5 DEF Agreed
<1>4. CASE till.sess # None
  <2> DEFINE a == [ask[r] EXCEPT !.step = "sent", !.sess = till.sess, !.token = till.token]
  <2>1. ask' = [ask EXCEPT ![r] = a] /\ net' = net \cup {RequestOf(r)'}
    BY <1>4 DEF SendRefresh, Agreed, Inv, TypeOK
  <2>2. a.step = "sent" /\ a.sess = till.sess /\ a.token = till.token /\ a.stale = ask[r].stale
    <3>1. ask[r] \in Ask
      BY AskSteps DEF Agreed
    <3>. QED BY <3>1 DEF Ask
  <2> HIDE DEF a
  <2>3. \A q \in Renewal : ask'[q] = IF q = r THEN a ELSE ask[q]
    BY <2>1 DEF Agreed, Inv, TypeOK
  <2>4. ~ask[r].stale
    BY <1>1, <1>4 DEF Agreed, OneByOne
  <2>5. \A q \in Renewal : ask[q].sess # till.sess
    <3> SUFFICES ASSUME NEW q \in Renewal, ask[q].sess = till.sess PROVE FALSE
      OBVIOUS
    <3>1. ~ask[q].stale /\ ask[q].step # "idle"
      BY <1>4 DEF Agreed, OneByOne
    <3>2. q = r
      BY <1>1, <2>4, <3>1 DEF Agreed, OneByOne
    <3>. QED BY <1>1, <1>4, <3>2
  <2>6. OneByOne'
    <3>1. ASSUME NEW q \in Renewal
          PROVE  /\ ask'[q].step = "idle" => ask'[q] = NoAsk
                 /\ ask'[q].step \in {"idle", "reading"} <=> ask'[q].sess = None
                 /\ ask'[q].step = "reading" => (ask'[q].stale <=> till'.sess = None)
                 /\ ask'[q].sess # None => (ask'[q].stale <=> ask'[q].sess # till'.sess)
                 /\ ask'[q].step # "idle" /\ ~ask'[q].stale => ask[q].step # "idle" /\ ~ask[q].stale
      BY <1>1, <1>4, <2>2, <2>3, <2>4 DEF Agreed, OneByOne
    <3>2. ASSUME NEW q \in Renewal, NEW p \in Renewal, ask'[q].sess # None, ask'[q].sess = ask'[p].sess
          PROVE  q = p
      BY <1>4, <2>2, <2>3, <2>5, <3>2 DEF Agreed, OneByOne
    <3>3. ASSUME NEW q \in Renewal, NEW p \in Renewal,
                 ask'[q].step # "idle" /\ ~ask'[q].stale /\ ask'[p].step # "idle" /\ ~ask'[p].stale
          PROVE  q = p
      BY <3>1, <3>3 DEF Agreed, OneByOne
    <3>. QED BY <3>1, <3>2, <3>3 DEF OneByOne
  <2>7. RequestOf(r)'.sess = till.sess /\ RequestOf(r)'.r = r
    BY <2>2, <2>3 DEF RequestOf
  <2>8. \A s \in Session : s # till.sess => Spared(s)
    BY <1>1, <2>1, <2>2, <2>3, <2>7, IdsAssumption DEF Spared, SameAsk
  <2>9. ASSUME NEW s \in Session, s = till.sess, Fits(s)
        PROVE  Fits(s)'
    <3>1. (\A m \in net : m.sess # s) /\ (\A w \in Worker : ~Serves(w, s))
      BY <2>5, <2>9, NoRequest DEF Agreed
    <3>2. till.token = sess[s].hash
      BY <2>5, <2>9 DEF Fits
    <3>3. \A q \in Renewal : ask'[q].sess = s => q = r
      BY <2>3, <2>5, <2>9
    <3>4. AskFits(s, ask[r])'
      BY <1>1, <2>2, <2>3, <3>2 DEF AskFits
    <3>5. PICK p : p = RequestOf(r)'
      OBVIOUS
    <3>6. Awaited(p)'
      <4>1. p.r = r
        BY <2>7, <3>5
      <4>. QED BY <2>2, <2>3, <3>5, <4>1 DEF Awaited
    <3>7. \A w \in Worker : ~Serves(w, s)'
      BY <1>1, <3>1 DEF Serves
    <3>8. till'.sess = s => till'.token = sess'[s].hash
      BY <1>1, <3>2
    <3>9. \A m \in net' : m.sess = s => Awaited(m)'
      BY <2>1, <3>1, <3>5, <3>6
    <3>. QED BY <3>3, <3>4, <3>7, <3>8, <3>9 DEF Fits
  <2>10. InStep'
    BY <1>1, <2>8, <2>9, InStepStays DEF Agreed
  <2>. QED BY <2>6, <2>10 DEF Agreed
<1>. QED BY <1>3, <1>4

LEMMA NoAnswerAgrees ==
    ASSUME AllApart, Agreed, Inv', NEW r \in Renewal, NoAnswer(r)
    PROVE  Agreed'
<1> DEFINE a == [ask[r] EXCEPT !.step = "unanswered"]
<1>1. /\ UNCHANGED <<sess, txn, till, lost>> /\ ask[r].step = "sent"
      /\ RequestOf(r) \in net /\ net' = net \ {RequestOf(r)}
      /\ ask' = [ask EXCEPT ![r] = a]
  BY DEF NoAnswer, Agreed, Inv, TypeOK, AllApart
<1>2. /\ a.step = "unanswered" /\ a.sess = ask[r].sess /\ a.token = ask[r].token /\ a.try = ask[r].try
      /\ a.stale = ask[r].stale
  <2>1. ask[r] \in Ask
    BY AskSteps DEF Agreed
  <2>. QED BY <2>1 DEF Ask
<1> HIDE DEF a
<1>3. \A q \in Renewal : ask'[q] = IF q = r THEN a ELSE ask[q]
  BY <1>1 DEF Agreed, Inv, TypeOK
<1>4. OneByOne'
  BY <1>1, <1>2, <1>3, OneByOneStays DEF Agreed
<1>5. \A s \in Session : s # ask[r].sess => Spared(s)
  BY <1>1, <1>2, <1>3 DEF Spared, SameAsk
<1>6. ASSUME NEW s \in Session, s = ask[r].sess, Fits(s)
      PROVE  Fits(s)'
  <2>1. s # None
    BY IdsAssumption
  <2>2. \A q \in Renewal : ask[q].sess = s => q = r
    BY <1>6, <2>1, TheRenewal DEF Agreed
  <2>3. ASSUME NEW m, m.r \in Renewal, m.sess = s, Awaited(m)
        PROVE  m = RequestOf(r)
    BY <1>6, <2>2, <2>3 DEF Awaited, RequestOf
  <2>4. \A m \in net' : m.sess # s
    BY <1>1, <1>6, <2>3 DEF Fits, Agreed, Inv, TypeOK, Request
  <2>5. ASSUME NEW w \in Worker, Serves(w, s) PROVE FALSE
    <3>1. txn[w].request.r \in Renewal /\ txn[w].request.sess = s
      BY <2>5 DEF Serves, Agreed, Inv, TxnOK, Request
    <3>2. Awaited(txn[w].request) /\ txn[w].request \notin net
      BY <1>6, <2>5 DEF Fits
    <3>. QED BY <1>1, <2>3, <3>1, <3>2
  <2>6. \A w \in Worker : ~Serves(w, s)'
    BY <1>1, <2>5 DEF Serves
  <2>7. AskFits(s, ask[r])'
    <3>1. AskFits(s, ask[r]) /\ ask[r].try \in {1, 2}
      BY <1>6, AskSteps DEF Fits, Agreed
    <3>. QED BY <1>1, <1>2, <1>3, <3>1 DEF AskFits
  <2>8. \A q \in Renewal : ask'[q].sess = s => q = r
    BY <1>3, <2>2
  <2>9. till'.sess = s => \E q \in Renewal : ask'[q].sess = s
    BY <1>2, <1>3, <1>6
  <2>. QED BY <2>4, <2>6, <2>7, <2>8, <2>9 DEF Fits
<1>7. InStep'
  BY <1>1, <1>5, <1>6, InStepStays DEF Agreed
<1>. QED BY <1>1, <1>4, <1>7 DEF Agreed

LEMMA RetryAgrees ==
    ASSUME Agreed, Inv', NEW r \in Renewal, Retry(r)
    PROVE  Agreed'
<1> DEFINE a == [ask[r] EXCEPT !.step = "sent", !.try = 2]
<1>1. /\ UNCHANGED <<sess, txn, till, lost>> /\ ask[r].step = "unanswered" /\ ask[r].try = 1
      /\ net' = net \cup {RequestOf(r)'}
      /\ ask' = [ask EXCEPT ![r] = a]
  BY DEF Retry, Agreed, Inv, TypeOK
<1>2. /\ a.step = "sent" /\ a.sess = ask[r].sess /\ a.token = ask[r].token /\ a.try = 2
      /\ a.stale = ask[r].stale
  <2>1. ask[r] \in Ask
    BY AskSteps DEF Agreed
  <2>. QED BY <2>1 DEF Ask
<1> HIDE DEF a
<1>3. \A q \in Renewal : ask'[q] = IF q = r THEN a ELSE ask[q]
  BY <1>1 DEF Agreed, Inv, TypeOK
<1>4. OneByOne'
  BY <1>1, <1>2, <1>3, OneByOneStays DEF Agreed
<1>5. RequestOf(r)'.sess = ask[r].sess /\ RequestOf(r)'.r = r
  BY <1>2, <1>3 DEF RequestOf
<1>6. \A s \in Session : s # ask[r].sess => Spared(s)
  BY <1>1, <1>2, <1>3, <1>5 DEF Spared, SameAsk
<1>7. ASSUME NEW s \in Session, s = ask[r].sess, Fits(s)
      PROVE  Fits(s)'
  <2>1. s # None
    BY IdsAssumption
  <2>2. \A q \in Renewal : ask[q].sess = s => q = r
    BY <1>7, <2>1, TheRenewal DEF Agreed
  <2>3. (\A m \in net : m.sess # s) /\ (\A w \in Worker : ~Serves(w, s))
    BY <1>1, <1>7, <2>2, NoRequest DEF Agreed
  <2>4. PICK p : p = RequestOf(r)'
    OBVIOUS
  <2>5. Awaited(p)'
    <3>1. p.r = r
      BY <1>5, <2>4
    <3>. QED BY <1>2, <1>3, <2>4, <3>1 DEF Awaited
  <2>6. \A w \in Worker : ~Serves(w, s)'
    BY <1>1, <2>3 DEF Serves
  <2>7. AskFits(s, ask[r])'
    <3>1. AskFits(s, ask[r])
      BY <1>7 DEF Fits
    <3>. QED BY <1>1, <1>2, <1>3, <3>1 DEF AskFits, Retryable
  <2>8. \A q \in Renewal : ask'[q].sess = s => q = r
    BY <1>3, <2>2
  <2>9. till'.sess = s => \E q \in Renewal : ask'[q].sess = s
    BY <1>2, <1>3, <1>7
  <2>10. \A m \in net' : m.sess = s => Awaited(m)'
    BY <1>1, <2>3, <2>4, <2>5
  <2>. QED BY <2>6, <2>7, <2>8, <2>9, <2>10 DEF Fits
<1>8. InStep'
  BY <1>1, <1>6, <1>7, InStepStays DEF Agreed
<1>. QED BY <1>1, <1>4, <1>8 DEF Agreed

LEMMA GiveUpAgrees ==
    ASSUME Agreed, Inv', NEW r \in Renewal, GiveUp(r)
    PROVE  Agreed'
<1>1. /\ UNCHANGED <<sess, txn, net, till>> /\ lost' = lost \cup {ask[r].sess}
      /\ ask[r].step = "unanswered" /\ ask' = [ask EXCEPT ![r] = NoAsk]
  BY DEF GiveUp
<1>2. \A q \in Renewal : ask'[q] = IF q = r THEN NoAsk ELSE ask[q]
  BY <1>1 DEF Agreed, Inv, TypeOK
<1>3. OneByOne'
  BY <1>1, <1>2, OneByOneStays DEF Agreed
<1>4. \A s \in Session : s # ask[r].sess => Spared(s)
  BY <1>1, <1>2, NoAskIs, IdsAssumption DEF Spared, SameAsk
<1>5. InStep'
  BY <1>1, <1>4, InStepStays DEF Agreed
<1>. QED BY <1>1, <1>3, <1>5 DEF Agreed

LEMMA SaveRenewedAgrees ==
    ASSUME Agreed, Inv', NEW r \in Renewal, SaveRenewed(r)
    PROVE  Agreed'
<1>1. /\ UNCHANGED <<sess, txn, net, lost>> /\ ask[r].step = "got"
      /\ ask' = [ask EXCEPT ![r] = NoAsk]
      /\ till' = IF ask[r].stale THEN till ELSE [till EXCEPT !.token = ask[r].token]
  BY DEF SaveRenewed
<1>2. \A q \in Renewal : ask'[q] = IF q = r THEN NoAsk ELSE ask[q]
  BY <1>1 DEF Agreed, Inv, TypeOK
<1>3. /\ till'.sess = till.sess /\ till'.ending = till.ending
      /\ till'.token = IF ask[r].stale THEN till.token ELSE ask[r].token
  BY <1>1 DEF Agreed, Inv, TypeOK, Till
<1>4. OneByOne'
  BY <1>2, <1>3, OneByOneStays DEF Agreed
<1>5. ask[r].sess # None /\ (ask[r].stale <=> ask[r].sess # till.sess)
  BY <1>1 DEF Agreed, OneByOne
<1>6. \A s \in Session : s # ask[r].sess => Spared(s)
  BY <1>1, <1>2, <1>3, <1>5, NoAskIs, IdsAssumption DEF Spared, SameAsk
<1>7. ASSUME NEW s \in Session, s = ask[r].sess, Fits(s)
      PROVE  Fits(s)'
  <2>1. \A q \in Renewal : ask[q].sess = s => q = r
    BY <1>5, <1>7, TheRenewal DEF Agreed
  <2>2. (\A m \in net : m.sess # s) /\ (\A w \in Worker : ~Serves(w, s))
    BY <1>1, <1>7, <2>1, NoRequest DEF Agreed
  <2>3. ask[r].token = sess[s].hash
    BY <1>1, <1>7 DEF Fits, AskFits
  <2>4. till'.sess = s => till'.token = sess'[s].hash
    BY <1>1, <1>3, <1>5, <1>7, <2>3
  <2>5. \A q \in Renewal : ask'[q].sess # s
    BY <1>2, <2>1, NoAskIs, IdsAssumption
  <2>6. (\A m \in net' : m.sess # s) /\ (\A w \in Worker : ~Serves(w, s)')
    BY <1>1, <2>2 DEF Serves
  <2>. QED BY <2>4, <2>5, <2>6 DEF Fits
<1>8. InStep'
  BY <1>1, <1>6, <1>7, InStepStays DEF Agreed
<1>. QED BY <1>1, <1>3, <1>4, <1>8 DEF Agreed

LEMMA RenewalRefusedAgrees ==
    ASSUME Agreed, Inv', NEW r \in Renewal, RenewalRefused(r)
    PROVE  Agreed'
<1>1. /\ UNCHANGED <<sess, txn, net, lost>> /\ ask[r].step = "refused"
      /\ ask' = [ask EXCEPT ![r] = NoAsk]
      /\ till' = IF ask[r].stale THEN till ELSE [till EXCEPT !.ending = TRUE]
  BY DEF RenewalRefused
<1>2. \A q \in Renewal : ask'[q] = IF q = r THEN NoAsk ELSE ask[q]
  BY <1>1 DEF Agreed, Inv, TypeOK
<1>3. /\ till'.sess = till.sess /\ till'.token = till.token
      /\ till'.ending = (till.ending \/ ~ask[r].stale)
  BY <1>1 DEF Agreed, Inv, TypeOK, Till, Ask
<1>4. OneByOne'
  BY <1>2, <1>3, OneByOneStays DEF Agreed
<1>5. ask[r].sess \in Session /\ (ask[r].stale <=> ask[r].sess # till.sess)
  BY <1>1, AskSteps DEF Agreed, OneByOne
<1>6. \A s \in Session : s # ask[r].sess => Spared(s)
  BY <1>1, <1>2, <1>3, NoAskIs, IdsAssumption DEF Spared, SameAsk
<1>7. \A s \in Session : s = ask[r].sess => ~Fits(s)
  BY <1>1 DEF Fits, AskFits
<1>8. InStep'
  BY <1>1, <1>6, <1>7, InStepStays DEF Agreed
<1>. QED BY <1>4, <1>8 DEF Agreed

(* Steps that leave the tokens and the renewals as they are. *)
LEMMA SameTillAgrees ==
    ASSUME Agreed, Inv', UNCHANGED <<sess, txn, net, ask, lost>>,
           till'.sess = till.sess, till'.token = till.token
    PROVE  Agreed'
<1>1. OneByOne'
  BY OneByOneStays DEF Agreed
<1>2. \A s \in Session : Spared(s)
  BY DEF Spared, SameAsk
<1>3. InStep'
  BY <1>2, InStepStays DEF Agreed
<1>. QED BY <1>1, <1>3 DEF Agreed

(* Every account of a live session is active. *)
LEMMA LiveIsActive ==
    ASSUME AllApart, Inv, NEW s \in Session, sess[s].state = "live"
    PROVE  account[sess[s].user] = "active"
  BY DEF AllApart, Inv, SignInOK

LEMMA CallRefusedAgrees ==
    ASSUME Agreed, Inv', CallRefused
    PROVE  Agreed'
<1>1. till' = [till EXCEPT !.ending = TRUE] /\ UNCHANGED <<sess, txn, net, ask, lost>>
  BY DEF CallRefused
<1>2. till'.sess = till.sess /\ till'.token = till.token
  BY <1>1 DEF Agreed, Inv, TypeOK, Till
<1>. QED BY <1>1, <1>2, SameTillAgrees

(* A revalidation leaves the tokens and the renewals as they are. *)
LEMMA RevalidationAgrees ==
    ASSUME Agreed, Inv', NEW c \in Revalidation,
           Revalidate(c) \/ TokenExpired(c) \/ Answered(c) \/ Confirmed(c) \/ NotConfirmed(c)
    PROVE  Agreed'
<1>1. UNCHANGED <<sess, txn, net, ask, lost>>
  BY DEF Revalidate, TokenExpired, Answered, Confirmed, NotConfirmed
<1>2. till'.sess = till.sess /\ till'.token = till.token
  BY DEF Revalidate, TokenExpired, Answered, Confirmed, NotConfirmed, Agreed, Inv, TypeOK, Till
<1>. QED BY <1>1, <1>2, SameTillAgrees

(* The till gives up the session it has. *)
LEMMA LeaveAgrees ==
    ASSUME Agreed, Inv', Leave, till'.sess = None,
           UNCHANGED <<sess, txn, net, lost>>
    PROVE  Agreed'
<1>1. OneByOne' /\ \A r \in Renewal : SameAsk(r)
  BY OneByOneLeaves DEF Agreed
<1>2. \A s \in Session : Spared(s)
  BY <1>1, IdsAssumption DEF Spared
<1>3. InStep'
  BY <1>2, InStepStays DEF Agreed
<1>. QED BY <1>1, <1>3 DEF Agreed

LEMMA EndSessionAgrees ==
    ASSUME Agreed, Inv', EndSession
    PROVE  Agreed'
<1>1. till'.sess = None
  BY DEF EndSession, Clears
<1>. QED BY <1>1, LeaveAgrees DEF EndSession

LEMMA SignOutAgrees ==
    ASSUME Agreed, Inv', SignOut
    PROVE  Agreed'
<1>1. till'.sess = None
  BY DEF SignOut, Clears
<1>. QED BY <1>1, LeaveAgrees DEF SignOut

LEMMA KillAgrees ==
    ASSUME AllApart, Agreed, Inv', Kill
    PROVE  Agreed'
<1>1. /\ UNCHANGED <<sess, txn>> /\ net' = {}
      /\ lost' = lost \cup {ask[r].sess : r \in {q \in Renewal : ask[q].sess # None}}
      /\ ask' = [r \in Renewal |-> NoAsk] /\ till' = [till EXCEPT !.ending = FALSE]
  BY DEF Kill, AllApart
<1>2. till'.sess = till.sess /\ till'.token = till.token
  BY <1>1 DEF Agreed, Inv, TypeOK, Till
<1>3. \A r \in Renewal : ask'[r] = NoAsk
  BY <1>1
<1>4. OneByOne'
  BY <1>2, <1>3, OneByOneStays DEF Agreed
<1>5. \A s \in Session : s \notin lost' => \A r \in Renewal : ask[r].sess # s
  BY <1>1, IdsAssumption
<1>6. \A s \in Session : s \notin lost' => Spared(s)
  BY <1>1, <1>2, <1>3, <1>5, NoAskIs, IdsAssumption DEF Spared
<1>7. InStep'
  BY <1>1, <1>6, InStepStays DEF Agreed
<1>. QED BY <1>2, <1>4, <1>7 DEF Agreed
-----------------------------------------------------------------------------
(* The server's steps *)

(* Steps that leave the till and its renewals, and end sessions only. *)
LEMMA ServerAgrees ==
    ASSUME Agreed, Inv', UNCHANGED <<till, ask, lost>>, net' \subseteq net,
           \A s \in Session : sess'[s].state = "live" => sess'[s] = sess[s],
           \A w \in Worker : txn'[w] = txn[w] \/ txn'[w].kind # "refresh"
    PROVE  Agreed'
<1>1. OneByOne'
  BY OneByOneStays DEF Agreed
<1>2. \A s \in Session : sess'[s].state = "live" => Spared(s)
  BY DEF Spared, SameAsk
<1>3. InStep'
  BY <1>2, InStepStays DEF Agreed
<1>. QED BY <1>1, <1>3 DEF Agreed

LEMMA OwnerAgrees ==
    ASSUME Agreed, Inv', NEW u \in User, Hire(u) \/ SetStatus(u) \/ ResetPassword(u)
    PROVE  Agreed'
<1>1. ASSUME RevokeAll(u), NEW s \in Session, sess'[s].state = "live" PROVE sess'[s] = sess[s]
  <2>1. [sess[s] EXCEPT !.state = "revoked"].state = "revoked"
    BY RowTyped DEF Agreed, Inv, SessionRow
  <2>. QED BY <1>1, <2>1 DEF RevokeAll
<1>2. \A s \in Session : sess'[s].state = "live" => sess'[s] = sess[s]
  BY <1>1 DEF Hire, SetStatus, ResetPassword
<1>3. UNCHANGED <<txn, net, till, ask, lost>>
  BY DEF Hire, SetStatus, ResetPassword
<1>. QED BY <1>2, <1>3, ServerAgrees

LEMMA SignInAgrees ==
    ASSUME Agreed, Inv', NEW w \in Worker, NEW u \in User, BootstrapRead(w, u) \/ SignInRead(w, u)
    PROVE  Agreed'
<1>1. \A k \in {"bootstrap", "signin"} : [Idle EXCEPT !.kind = k, !.user = u].kind = k
  BY DEF Idle
<1>2. \A v \in Worker : txn'[v] = txn[v] \/ txn'[v].kind # "refresh"
  BY <1>1 DEF BootstrapRead, SignInRead, GoOn, Agreed, Inv, TypeOK
<1>. QED BY <1>2, ServerAgrees DEF BootstrapRead, SignInRead

LEMMA LogOutAgrees ==
    ASSUME Agreed, Inv', NEW o \in out, LogOut(o)
    PROVE  Agreed'
<1>1. UNCHANGED <<txn, net, till, ask, lost>> /\ o.sess \in Session
  BY DEF LogOut, Agreed, Inv, TypeOK
<1>2. [sess[o.sess] EXCEPT !.state = "revoked"].state = "revoked"
  BY <1>1, RowTyped DEF Agreed, Inv, SessionRow
<1>3. \A s \in Session : sess'[s].state = "live" => sess'[s] = sess[s]
  BY <1>1, <1>2 DEF LogOut, Agreed, Inv, TypeOK
<1>. QED BY <1>1, <1>3, ServerAgrees

LEMMA GraceEndsAgrees ==
    ASSUME Agreed, Inv', NEW s \in Session, GraceEnds(s)
    PROVE  Agreed'
<1> DEFINE row == [sess[s] EXCEPT !.fresh = FALSE]
<1>1. /\ UNCHANGED <<txn, net, till, ask, lost>>
      /\ sess' = [sess EXCEPT ![s] = row]
      /\ \A r \in Renewal : ask[r].sess = s => ask[r].step \notin {"sent", "unanswered"}
  BY DEF GraceEnds, Agreed, Inv, TypeOK
<1>2. row.state = sess[s].state /\ row.hash = sess[s].hash
  BY RowTyped DEF Agreed, Inv, SessionRow
<1> HIDE DEF row
<1>3. \A q \in Session : sess'[q] = IF q = s THEN row ELSE sess[q]
  BY <1>1 DEF Agreed, Inv, TypeOK
<1>4. OneByOne'
  BY <1>1, OneByOneStays DEF Agreed
<1>5. \A q \in Session : q # s => Spared(q)
  BY <1>1, <1>3 DEF Spared, SameAsk
<1>6. ASSUME Fits(s) PROVE Fits(s)'
  <2>1. (\A m \in net : m.sess # s) /\ (\A w \in Worker : ~Serves(w, s))
    BY <1>1, <1>6, NoRequest DEF Agreed
  <2>2. \A w \in Worker : ~Serves(w, s)'
    BY <1>1, <2>1 DEF Serves
  <2>3. sess'[s].hash = sess[s].hash
    BY <1>2, <1>3
  <2>4. \A r \in Renewal : ask[r].sess = s => AskFits(s, ask[r])'
    BY <1>1, <1>6, <2>3 DEF Fits, AskFits
  <2>5. till.sess = s => till.token = sess'[s].hash \/ \E r \in Renewal : ask[r].sess = s
    BY <1>6, <2>3 DEF Fits
  <2>. QED BY <1>1, <2>1, <2>2, <2>4, <2>5 DEF Fits
<1>7. InStep'
  BY <1>1, <1>2, <1>3, <1>5, <1>6, InStepStays DEF Agreed
<1>. QED BY <1>4, <1>7 DEF Agreed

(* A new session: nothing is under way for it. *)
LEMMA IssueAgrees ==
    ASSUME AllApart, Agreed, Inv', NEW w \in Worker, Issue(w)
    PROVE  Agreed'
<1>1. PICK s \in Session :
        /\ sess[s] = NoSession
        /\ sess' = [sess EXCEPT ![s] = [state |-> "live", user |-> txn[w].user, hash |-> 1, prev |-> 0, fresh |-> FALSE]]
        /\ \/ Settled /\ Saves(s, 1, txn[w].user) /\ Leave
           \/ UNCHANGED <<till, ask>>
        /\ txn' = [txn EXCEPT ![w] = Idle]
        /\ UNCHANGED <<net, lost>>
  BY DEF Issue, GoOn, AllApart, CanSave
<1>2. /\ sess'[s].state = "live" /\ sess'[s].hash = 1
      /\ \A q \in Session : q # s => sess'[q] = sess[q]
  BY <1>1 DEF Agreed, Inv, TypeOK
<1>3. /\ \A r \in Renewal : ask[r].sess # s
      /\ \A m \in net : m.sess # s
      /\ \A v \in Worker : ~Serves(v, s)
      /\ till.sess # s
  BY <1>1, IdleTyped, Unopened DEF Agreed
<1>4. \A v \in Worker : txn'[v] = txn[v] \/ txn'[v].kind # "refresh"
  BY <1>1, IdleTyped DEF Agreed, Inv, TypeOK
<1>5. /\ OneByOne' /\ \A r \in Renewal : SameAsk(r)
      /\ till'.sess = s => till'.token = 1
      /\ till'.sess # s => till'.sess = till.sess /\ till'.token = till.token
  <2>1. CASE UNCHANGED <<till, ask>>
    <3>1. OneByOne'
      BY <2>1, OneByOneStays DEF Agreed
    <3>. QED BY <1>3, <2>1, <3>1 DEF SameAsk
  <2>2. CASE Settled /\ Saves(s, 1, txn[w].user) /\ Leave
    <3>1. till'.sess = s /\ till'.token = 1
      BY <2>2 DEF Saves
    <3>2. \A r \in Renewal : ask[r].step # "reading"
      BY <2>2 DEF Settled
    <3>3. OneByOne' /\ \A r \in Renewal : SameAsk(r)
      BY <1>3, <2>2, <3>1, <3>2, OneByOneLeaves DEF Agreed
    <3>. QED BY <3>1, <3>3
  <2>. QED BY <1>1, <2>1, <2>2
<1>6. \A q \in Session : q # s => Spared(q)
  BY <1>1, <1>2, <1>4, <1>5 DEF Spared
<1>7. Fits(s)'
  <2>1. \A r \in Renewal : ask'[r].sess # s
    BY <1>3, <1>5 DEF SameAsk
  <2>2. \A v \in Worker : ~Serves(v, s)'
    BY <1>3, <1>4 DEF Serves
  <2>. QED BY <1>1, <1>2, <1>3, <1>5, <2>1, <2>2 DEF Fits
<1>8. InStep'
  BY <1>1, <1>2, <1>6, <1>7, InStepStays DEF Agreed
<1>. QED BY <1>5, <1>8 DEF Agreed

LEMMA SignInWriteAgrees ==
    ASSUME AllApart, Agreed, Inv', NEW w \in Worker, BootstrapWrite(w) \/ SignInWrite(w)
    PROVE  Agreed'
<1>1. CASE Issue(w)
  BY <1>1, IssueAgrees
<1>2. CASE GoOn(w, Idle) /\ UNCHANGED <<account, sess, net, out, till, ask, check, outdated, lost, faults>>
  <2>1. \A v \in Worker : txn'[v] = txn[v] \/ txn'[v].kind # "refresh"
    BY <1>2, IdleTyped DEF GoOn, Agreed, Inv, TypeOK
  <2>. QED BY <1>2, <2>1, ServerAgrees
<1>. QED BY <1>1, <1>2 DEF BootstrapWrite, SignInWrite

(* What an answer does to the renewals. *)
LEMMA AnswerDoes ==
    ASSUME Agreed, NEW m, m.r \in Renewal, NEW step \in {"got", "refused"}, NEW token,
           Answer(m, step, token)
    PROVE  /\ \A r \in Renewal : ask'[r].sess = ask[r].sess /\ ask'[r].try = ask[r].try
           /\ \A r \in Renewal : ask[r].sess # m.sess => ask'[r] = ask[r]
           /\ \A r \in Renewal : \/ ask'[r] = ask[r]
                                 \/ /\ ask[r].step = "sent"
                                    /\ \/ ask'[r].step = step /\ ask'[r].token = token
                                       \/ ask'[r].step = "unanswered" /\ ask'[r].token = ask[r].token
                                    /\ ask'[r].stale = ask[r].stale
           /\ Awaited(m) => ask'[m.r].step \in {step, "unanswered"}
<1> DEFINE r == m.r
           a == [ask[r] EXCEPT !.step = step, !.token = token]
           b == [ask[r] EXCEPT !.step = "unanswered"]
<1>1. ask[r] \in Ask
  BY AskSteps DEF Agreed
<1>2. /\ a.sess = ask[r].sess /\ b.sess = ask[r].sess /\ a.try = ask[r].try /\ b.try = ask[r].try
      /\ a.stale = ask[r].stale /\ b.stale = ask[r].stale
      /\ a.step = step /\ a.token = token /\ b.step = "unanswered" /\ b.token = ask[r].token
  BY <1>1 DEF Ask
<1>3. \/ UNCHANGED ask /\ ~Awaited(m)
      \/ Awaited(m) /\ ask' = [ask EXCEPT ![r] = a]
      \/ Awaited(m) /\ ask' = [ask EXCEPT ![r] = b]
  BY DEF Answer, Awaited
<1>4. Awaited(m) => ask[r].step = "sent" /\ ask[r].sess = m.sess
  BY DEF Awaited, RequestOf
<1> HIDE DEF a, b
<1>5. \A q \in Renewal : q # r => ask'[q] = ask[q]
  BY <1>3 DEF Agreed, Inv, TypeOK
<1>6. \/ ask'[r] = ask[r] /\ ~Awaited(m)
      \/ Awaited(m) /\ (ask'[r] = a \/ ask'[r] = b)
  BY <1>3 DEF Agreed, Inv, TypeOK
<1>. QED BY <1>2, <1>4, <1>5, <1>6

(* An answer leaves the other sessions alone, and the order of renewals. *)
LEMMA AnswerSpares ==
    ASSUME Agreed, NEW m, m.r \in Renewal, NEW step \in {"got", "refused"}, NEW token,
           Answer(m, step, token), UNCHANGED till, net' \subseteq net,
           \A s \in Session : s # m.sess => sess'[s] = sess[s],
           \A w \in Worker : txn'[w] = txn[w] \/ txn'[w].kind # "refresh"
    PROVE  OneByOne' /\ \A s \in Session : s # m.sess => Spared(s)
<1>1. OneByOne'
  BY AnswerDoes, OneByOneStays DEF Agreed
<1>2. \A s \in Session : s # m.sess => Spared(s)
  BY AnswerDoes DEF Spared, SameAsk
<1>. QED BY <1>1, <1>2

(* A request for a session in step finds it and is let through. *)
LEMMA LetThrough ==
    ASSUME AllApart, Agreed, NEW m \in net, sess[m.sess].state = "live", m.sess \notin lost
    PROVE  /\ Awaited(m) /\ Found(m) /\ ~ComesBackLate(m) /\ Fits(m.sess)
           /\ account[sess[m.sess].user] = "active"
           /\ \A r \in Renewal : ask[r].sess = m.sess => r = m.r
<1>1. m.sess \in Session /\ m.r \in Renewal
  BY DEF Agreed, Inv, TypeOK, Request
<1>2. Fits(m.sess) /\ Awaited(m)
  BY <1>1 DEF Agreed, InStep, Fits
<1>3. ask[m.r].sess = m.sess /\ ask[m.r].token = m.token /\ ask[m.r].step = "sent"
  BY <1>2 DEF Awaited, RequestOf
<1>4. m.token = sess[m.sess].hash \/ Retryable(m.sess, m.token)
  BY <1>1, <1>2, <1>3 DEF Fits, AskFits
<1>5. Found(m) /\ ~ComesBackLate(m)
  BY <1>1, <1>4, States DEF Found, ComesBackLate, Retryable, Agreed, Inv
<1>6. \A r \in Renewal : ask[r].sess = m.sess => r = m.r
  BY <1>1, <1>3, TheRenewal, IdsAssumption DEF Agreed
<1>. QED BY <1>1, <1>2, <1>5, <1>6, LiveIsActive DEF Agreed

LEMMA RefreshReadAgrees ==
    ASSUME AllApart, Agreed, Inv', NEW w \in Worker, NEW m \in net, RefreshRead(w, m)
    PROVE  Agreed'
<1> DEFINE s == m.sess
<1>1. s \in Session /\ m.r \in Renewal /\ s # None
  BY IdsAssumption DEF Agreed, Inv, TypeOK, Request
<1>2. UNCHANGED <<till, lost>> /\ net' = net \ {m} /\ txn[w] = Idle
  BY DEF RefreshRead
<1>3. ASSUME Answer(m, "refused", m.token), UNCHANGED txn, sess[s].state # "live" \/ s \in lost,
             UNCHANGED sess \/ sess' = [sess EXCEPT ![s].state = "reuse"]
      PROVE  Agreed'
  <2>1. /\ \A q \in Session : q # s => sess'[q] = sess[q]
        /\ sess'[s].state # "live" \/ s \in lost
    BY <1>1, <1>3, RowTyped DEF Agreed, Inv, TypeOK, SessionRow
  <2>2. OneByOne' /\ \A q \in Session : q # s => Spared(q)
    BY <1>1, <1>2, <1>3, <2>1, AnswerSpares
  <2>3. sess'[s].state = "live" => sess[s].state = "live"
    BY <1>1, <1>3, RowTyped DEF Agreed, Inv, TypeOK, SessionRow
  <2>4. InStep'
    BY <1>2, <1>3, <2>1, <2>2, <2>3, InStepStays DEF Agreed
  <2>. QED BY <2>2, <2>4 DEF Agreed
<1>4. ASSUME GoOn(w, [Idle EXCEPT !.kind = "refresh", !.request = m, !.replacing = sess[s].hash]),
             UNCHANGED <<sess, ask>>
      PROVE  Agreed'
  <2> DEFINE t == [Idle EXCEPT !.kind = "refresh", !.request = m, !.replacing = sess[s].hash]
  <2>1. t.request = m /\ t.replacing = sess[s].hash
    BY DEF Idle
  <2>2. txn' = [txn EXCEPT ![w] = t]
    BY <1>4 DEF GoOn
  <2> HIDE DEF t
  <2>3. \A v \in Worker : txn'[v] = IF v = w THEN t ELSE txn[v]
    BY <2>2 DEF Agreed, Inv, TypeOK
  <2>4. OneByOne'
    BY <1>2, <1>4, OneByOneStays DEF Agreed
  <2>5. \A q \in Session : q # s => Spared(q)
    BY <1>2, <1>4, <2>1, <2>3 DEF Spared, SameAsk
  <2>6. ASSUME sess[s].state = "live", s \notin lost
        PROVE  Fits(s)'
    <3>1. Awaited(m) /\ Fits(s) /\ \A r \in Renewal : ask[r].sess = s => r = m.r
      BY <2>6, LetThrough
    <3>2. ASSUME NEW v \in Worker, Serves(v, s) PROVE FALSE
      <4>1. txn[v].request.r \in Renewal /\ txn[v].request.sess = s
        BY <3>2 DEF Serves, Agreed, Inv, TxnOK, Request
      <4>2. Awaited(txn[v].request) /\ txn[v].request \notin net
        BY <3>1, <3>2 DEF Fits
      <4>3. txn[v].request = m
        BY <3>1, <4>1, <4>2 DEF Awaited, RequestOf
      <4>. QED BY <4>2, <4>3
    <3>3. \A v \in Worker : Serves(v, s)' => v = w
      BY <2>3, <3>2 DEF Serves
    <3>4. \A q \in net' : q.sess = s => Awaited(q)'
      BY <1>2, <1>4, <3>1 DEF Fits, Awaited, RequestOf
    <3>5. Awaited(m)'
      BY <1>4, <3>1 DEF Awaited, RequestOf
    <3>6. \A r \in Renewal : ask[r].sess = s => AskFits(s, ask[r])'
      BY <1>4, <3>1 DEF Fits, AskFits, Retryable
    <3>7. txn'[w].request = m /\ txn'[w].replacing = sess'[s].hash /\ m \notin net'
      BY <1>2, <1>4, <2>1, <2>3
    <3>8. \A v \in Worker : Serves(v, s)' =>
            /\ Awaited(txn[v].request)' /\ txn'[v].request \notin net'
            /\ txn'[v].replacing = sess'[s].hash
      BY <3>3, <3>5, <3>7 DEF Awaited, RequestOf
    <3>9. till'.sess = s => till'.token = sess'[s].hash \/ \E r \in Renewal : ask'[r].sess = s
      BY <1>2, <1>4, <3>1 DEF Fits
    <3>. QED BY <1>4, <3>3, <3>4, <3>6, <3>8, <3>9 DEF Fits
  <2>7. InStep'
    BY <1>2, <1>4, <2>5, <2>6, InStepStays DEF Agreed
  <2>. QED BY <1>2, <1>4, <2>4, <2>7 DEF Agreed
<1>5. CASE sess[s].state = "live" /\ s \notin lost
  <2>1. Found(m) /\ ~ComesBackLate(m) /\ account[sess[m.sess].user] = "active"
    BY <1>5, LetThrough
  <2>. QED BY <1>4, <2>1 DEF RefreshRead
<1>6. CASE ~(sess[s].state = "live" /\ s \notin lost)
  BY <1>3, <1>4, <1>6 DEF RefreshRead
<1>. QED BY <1>5, <1>6

LEMMA RefreshWriteAgrees ==
    ASSUME AllApart, Agreed, Inv', NEW w \in Worker, RefreshWrite(w)
    PROVE  Agreed'
<1>1. PICK t, m, s : t = txn[w] /\ m = t.request /\ s = m.sess
  OBVIOUS
<1>2. /\ t.kind = "refresh" /\ s \in Session /\ m.r \in Renewal /\ s # None
      /\ UNCHANGED <<net, till, lost>> /\ GoOn(w, Idle)
  BY <1>1, IdsAssumption DEF RefreshWrite, Agreed, Inv, TxnOK, Request
<1>3. \A v \in Worker : txn'[v] = IF v = w THEN Idle ELSE txn[v]
  BY <1>2 DEF GoOn, Agreed, Inv, TypeOK
<1>4. PICK step \in {"got", "refused"}, token \in Nat :
        /\ Answer(m, step, token)
        /\ \/ step = "refused" /\ sess' = sess /\ ~CanRotate(t)
           \/ /\ step = "got" /\ token = t.replacing + 1 /\ CanRotate(t)
              /\ sess' = [sess EXCEPT ![s].hash = token, ![s].prev = t.replacing, ![s].fresh = TRUE]
  <2>1. m.token \in Nat /\ t.replacing + 1 \in Nat
    BY <1>1 DEF RefreshWrite, Agreed, Inv, TypeOK, TxnOK, Request, Txn, Token
  <2>. QED BY <1>1, <2>1 DEF RefreshWrite
<1>5. /\ \A q \in Session : q # s => sess'[q] = sess[q]
      /\ sess'[s].state = sess[s].state
      /\ CanRotate(t) => /\ sess'[s].hash = token /\ sess'[s].prev = t.replacing
                         /\ sess'[s].fresh = TRUE
  BY <1>2, <1>4, RowTyped DEF Agreed, Inv, TypeOK, SessionRow
<1>6. OneByOne' /\ \A q \in Session : q # s => Spared(q)
  <2>1. m.r \in Renewal /\ m.sess = s /\ till' = till /\ net' \subseteq net /\ Agreed
    BY <1>1, <1>2
  <2>2. \A v \in Worker : txn'[v] = txn[v] \/ txn'[v].kind # "refresh"
    BY <1>3, IdleTyped
  <2>3. \A q \in Session : q # m.sess => sess'[q] = sess[q]
    BY <1>5, <2>1
  <2>4. OneByOne' /\ \A q \in Session : q # m.sess => Spared(q)
    BY <1>4, <2>1, <2>2, <2>3, AnswerSpares
  <2>. QED BY <2>1, <2>4
<1>7. ASSUME sess[s].state = "live", Fits(s)
      PROVE  Fits(s)'
  <2>1. /\ Awaited(m) /\ m \notin net /\ t.replacing = sess[s].hash
        /\ \A v \in Worker : Serves(v, s) => v = w
    BY <1>1, <1>2, <1>7 DEF Fits, Serves
  <2>2. CanRotate(t)
    BY <1>1, <1>2, <1>7, <2>1, States DEF CanRotate, Agreed, Inv
  <2>3. step = "got" /\ token = sess'[s].hash
    BY <1>4, <1>5, <2>2
  <2>4. ask[m.r].sess = s /\ ask[m.r].step = "sent"
    BY <1>1, <2>1 DEF Awaited, RequestOf
  <2>5. \A r \in Renewal : ask[r].sess = s => r = m.r
    BY <1>2, <2>4, TheRenewal DEF Agreed
  <2>6. AskFits(s, ask[m.r]) /\ ask[m.r].try \in {1, 2}
    BY <1>2, <1>7, <2>4, AskSteps DEF Fits, Agreed
  <2>7. \A r \in Renewal : ask'[r].sess = ask[r].sess /\ ask'[r].try = ask[r].try
    BY <1>2, <1>4, AnswerDoes
  <2>8. /\ ask'[m.r].step \in {"got", "unanswered"}
        /\ ask'[m.r].step = "got" => ask'[m.r].token = token
        /\ ask'[m.r].step = "unanswered" => ask'[m.r].token = ask[m.r].token
    BY <1>2, <1>4, <2>1, <2>3, <2>4, AnswerDoes
  <2>9. AskFits(s, ask[m.r])'
    BY <1>2, <1>5, <2>1, <2>2, <2>3, <2>4, <2>6, <2>7, <2>8 DEF AskFits, Retryable
  <2>10. \A q \in net : q.sess # s
    <3> SUFFICES ASSUME NEW q \in net, q.sess = s PROVE FALSE
      OBVIOUS
    <3>1. Awaited(q) /\ q.r \in Renewal
      BY <1>7 DEF Fits, Agreed, Inv, TypeOK, Request
    <3>2. q.r = m.r
      BY <2>5, <3>1 DEF Awaited, RequestOf
    <3>3. q = m
      BY <2>1, <3>1, <3>2 DEF Awaited
    <3>. QED BY <2>1, <3>3
  <2>11. \A v \in Worker : ~Serves(v, s)'
    BY <1>3, <2>1, IdleTyped DEF Serves
  <2>12. \A r \in Renewal : ask'[r].sess = s => r = m.r
    BY <2>5, <2>7
  <2>13. \E r \in Renewal : ask'[r].sess = s
    BY <1>2, <2>4, <2>7
  <2>. QED BY <1>2, <2>9, <2>10, <2>11, <2>12, <2>13 DEF Fits
<1>8. InStep'
  BY <1>2, <1>5, <1>6, <1>7, InStepStays DEF Agreed
<1>. QED BY <1>6, <1>8 DEF Agreed

-----------------------------------------------------------------------------
LEMMA AgreedNext ==
    ASSUME AllApart, Agreed, [Next]_vars
    PROVE  Agreed'
<1>. Inv'
  BY InvNext DEF Agreed
<1>1. ASSUME NEW w \in Worker, NEW u \in User, BootstrapRead(w, u) \/ SignInRead(w, u)
      PROVE  Agreed'
  BY <1>1, SignInAgrees
<1>2. ASSUME NEW w \in Worker, BootstrapWrite(w) \/ SignInWrite(w) \/ RefreshWrite(w)
      PROVE  Agreed'
  BY <1>2, SignInWriteAgrees, RefreshWriteAgrees
<1>3. ASSUME NEW w \in Worker, NEW m \in net, RefreshRead(w, m)
      PROVE  Agreed'
  BY <1>3, RefreshReadAgrees
<1>4. ASSUME NEW u \in User, Hire(u) \/ SetStatus(u) \/ ResetPassword(u)
      PROVE  Agreed'
  BY <1>4, OwnerAgrees
<1>5. ASSUME NEW r \in Renewal,
             StartRenewal(r) \/ SendRefresh(r) \/ NoAnswer(r) \/ Retry(r) \/ GiveUp(r)
      PROVE  Agreed'
  BY <1>5, StartRenewalAgrees, SendRefreshAgrees, NoAnswerAgrees, RetryAgrees, GiveUpAgrees
<1>6. ASSUME NEW r \in Renewal, SaveRenewed(r) \/ RenewalRefused(r)
      PROVE  Agreed'
  BY <1>6, SaveRenewedAgrees, RenewalRefusedAgrees
<1>7. CASE CallRefused \/ EndSession \/ SignOut \/ Kill
  BY <1>7, CallRefusedAgrees, EndSessionAgrees, SignOutAgrees, KillAgrees
<1>8. ASSUME NEW o \in out, LogOut(o)
      PROVE  Agreed'
  BY <1>8, LogOutAgrees
<1>9. ASSUME NEW s \in Session, GraceEnds(s)
      PROVE  Agreed'
  BY <1>9, GraceEndsAgrees
<1>10. CASE UNCHANGED vars
  <2>1. UNCHANGED <<sess, txn, net, till, ask, lost>>
    BY <1>10 DEF vars
  <2>. QED BY <2>1, ServerAgrees
<1>11. ASSUME NEW c \in Revalidation,
              Revalidate(c) \/ TokenExpired(c) \/ Answered(c) \/ Confirmed(c) \/ NotConfirmed(c)
       PROVE  Agreed'
  BY <1>11, RevalidationAgrees
<1>. QED BY <1>11, <1>1, <1>2, <1>3, <1>4, <1>5, <1>6, <1>7, <1>8, <1>9, <1>10 DEF Next

(* A token that was rotated out comes back late only from a renewal given up. *)
LEMMA ReuseIsLost ==
    ASSUME AllApart, Agreed, [Next]_vars, NEW s \in Session,
           sess[s].state = "live", sess'[s].state = "reuse"
    PROVE  s \in lost
<1>1. PICK w \in Worker, m \in net : RefreshRead(w, m)
  <2>1. CASE UNCHANGED sess
    BY <2>1
  <2>2. CASE \E u \in User : RevokeAll(u)
    BY <2>2, RowTyped DEF RevokeAll, Agreed, Inv, SessionRow
  <2>3. CASE \E w \in Worker : Issue(w)
    <3>1. \A q \in Session : sess'[q] = sess[q] \/ sess'[q].state = "live"
      BY <2>3 DEF Issue, Agreed, Inv, TypeOK
    <3>. QED BY <3>1
  <2>4. CASE \E o \in out : LogOut(o)
    <3>1. \A q \in Session : sess'[q] = sess[q] \/ sess'[q].state = "revoked"
      BY <2>4, RowTyped DEF LogOut, Agreed, Inv, TypeOK, SessionRow
    <3>. QED BY <3>1
  <2>5. CASE \E q \in Session : GraceEnds(q)
    <3>1. \A q \in Session : sess'[q].state = sess[q].state
      BY <2>5, RowTyped DEF GraceEnds, Agreed, Inv, TypeOK, SessionRow
    <3>. QED BY <3>1
  <2>6. CASE \E w \in Worker : RefreshWrite(w)
    <3>1. PICK w \in Worker : RefreshWrite(w)
      BY <2>6
    <3>2. txn[w].request.sess \in Session
      BY <3>1 DEF RefreshWrite, Agreed, Inv, TxnOK, Request
    <3>3. \A q \in Session : sess'[q].state = sess[q].state
      BY <3>1, <3>2, RowTyped DEF RefreshWrite, Agreed, Inv, TypeOK, SessionRow
    <3>. QED BY <3>3
  <2>. QED BY <2>1, <2>2, <2>3, <2>4, <2>5, <2>6
       DEF Next, vars, BootstrapRead, SignInRead, BootstrapWrite, SignInWrite, Hire, SetStatus,
           ResetPassword, StartRenewal, SendRefresh, NoAnswer, Retry, GiveUp, SaveRenewed,
           RenewalRefused, CallRefused, EndSession, SignOut, Kill, Revalidate, TokenExpired,
           Answered, Confirmed, NotConfirmed
<1>2. m.sess \in Session
  BY DEF Agreed, Inv, TypeOK, Request
<1>3. m.sess = s /\ ComesBackLate(m)
  BY <1>1, <1>2, RowTyped DEF RefreshRead, Agreed, Inv, TypeOK, SessionRow
<1>. QED BY <1>3, LetThrough

(* Of the live sessions only one of which a till gave up a renewal is revoked for   *)
(* reuse: a till that asks again in time for a lost answer is not taken for a thief *)
(* (refresh in auth_service.py, TokenRefresher), however renewals, sign-ins and     *)
(* lost messages fall, where nothing arrives late, no sign-in is saved while a      *)
(* renewal waits for storage and none falls into a reset or a disable.              *)
THEOREM RetriesAreNotTheft == ASSUME AllApart PROVE Spec => NotTakenForThief
<1>1. Agreed /\ [Next]_vars =>
        [\A s \in Session : sess[s].state = "live" /\ sess'[s].state = "reuse" => s \in lost]_vars
  BY ReuseIsLost
<1>2. Agreed /\ [Next]_vars => Agreed'
  BY AgreedNext
<1>. QED BY <1>1, <1>2, AgreedInit, PTL DEF Spec, NotTakenForThief

-----------------------------------------------------------------------------
(***************************************************************************)
(* Sessions that are not ended by mistake.                                 *)
(***************************************************************************)
Over(s) == s \in lost \/ sess[s].state # "live"

(* A till that ends its session, or is about to, has been told so of this session, *)
(* and a revalidation waits for a renewal of this session.                         *)
EndsOver ==
    till.sess # None =>
        /\ till.ending => Over(till.sess)
        /\ \A c \in Revalidation :
             /\ check[c].step = "refused" => Over(till.sess)
             /\ check[c].step = "waiting" => ~ask[check[c].ask].stale

LEMMA EndsOverStays ==
    ASSUME Inv, DeadKept, EndsOver, till'.sess = None \/ till'.sess = till.sess, lost \subseteq lost',
           till'.ending /\ till.sess # None => till.ending \/ Over(till.sess),
           \A c \in Revalidation : check'[c].step = "refused" /\ till.sess # None =>
                check[c].step = "refused" \/ Over(till.sess),
           \A c \in Revalidation : check'[c].step = "waiting" /\ till'.sess # None =>
                ~ask'[check'[c].ask].stale
    PROVE  EndsOver'
<1> SUFFICES ASSUME till'.sess # None
             PROVE  /\ till'.ending => Over(till.sess)'
                    /\ \A c \in Revalidation :
                         /\ check'[c].step = "refused" => Over(till.sess)'
                         /\ check'[c].step = "waiting" => ~ask'[check'[c].ask].stale
  BY DEF EndsOver
<1>1. till.sess # None /\ till'.sess = till.sess /\ till.sess \in Session
  BY DEF Inv, TypeOK, Till
<1>2. Over(till.sess) => Over(till.sess)'
  <2>1. sess[till.sess].state # "live" => IsRevoked(till.sess)
    BY <1>1, States DEF Inv, TillOK
  <2>2. sess[till.sess].state # "live" => sess'[till.sess].state # "live"
    BY <1>1, <2>1 DEF DeadKept
  <2>. QED BY <1>1, <2>2 DEF Over
<1>. QED BY <1>1, <1>2 DEF EndsOver

(* Steps that tell no revalidation anything, and end nothing. *)
LEMMA EndsOverSame ==
    ASSUME Inv, DeadKept, EndsOver, UNCHANGED check, till'.sess = till.sess, till'.ending => till.ending,
           lost \subseteq lost', \A r \in Renewal : ask'[r].stale = ask[r].stale
    PROVE  EndsOver'
<1>1. \A c \in Revalidation : check'[c].step = "waiting" /\ till'.sess # None => ~ask'[check'[c].ask].stale
  BY DEF Inv, CheckOK, EndsOver
<1>2. \A c \in Revalidation : check'[c].step = "refused" => check[c].step = "refused"
  OBVIOUS
<1>. QED BY <1>1, <1>2, EndsOverStays

LEMMA RenewalEndsOver ==
    ASSUME Agreed, DeadKept, EndsOver, NEW r \in Renewal,
           StartRenewal(r) \/ NoAnswer(r) \/ Retry(r)
    PROVE  EndsOver'
<1>1. UNCHANGED <<till, check, lost>>
  BY DEF StartRenewal, NoAnswer, Retry
<1>2. /\ [ask[r] EXCEPT !.step = "reading"].stale = ask[r].stale
      /\ [ask[r] EXCEPT !.step = "unanswered"].stale = ask[r].stale
      /\ [ask[r] EXCEPT !.step = "sent", !.try = 2].stale = ask[r].stale
  BY RenewalTyped DEF Agreed, Inv, Ask
<1>3. \A q \in Renewal : ask'[q].stale = ask[q].stale
  BY <1>2 DEF StartRenewal, NoAnswer, Retry, Agreed, Inv, TypeOK
<1>. QED BY <1>1, <1>3, EndsOverSame DEF Agreed

(* A renewal is over: who waited for it is told, who waits for another waits on. *)
LEMMA ToldEndsOver ==
    ASSUME Agreed, DeadKept, EndsOver, NEW r \in Renewal, NEW outcome, Tell(r, outcome),
           ask' = [ask EXCEPT ![r] = NoAsk] \/ UNCHANGED ask,
           till'.sess = till.sess, lost \subseteq lost',
           till'.ending /\ till.sess # None => till.ending \/ Over(till.sess),
           outcome.step # "waiting",
           \A c \in Revalidation :
               check[c].step = "waiting" /\ check[c].ask = r /\ outcome.step = "refused" /\ till.sess # None
                   => Over(till.sess)
    PROVE  EndsOver'
<1>1. \A c \in Revalidation : \/ check'[c] = check[c]
                              \/ check'[c] = outcome /\ check[c].step = "waiting" /\ check[c].ask = r
  BY DEF Tell
<1>2. \A q \in Renewal : ask'[q] = ask[q] \/ ask'[q].stale = FALSE
  BY NoAskIs DEF Agreed, Inv, TypeOK
<1>3. ASSUME NEW c \in Revalidation, check'[c].step = "waiting", till'.sess # None
      PROVE  ~ask'[check'[c].ask].stale
  <2>1. check'[c] = check[c]
    BY <1>1, <1>3
  <2>2. ~ask[check[c].ask].stale /\ check[c].ask \in Renewal
    BY <1>3, <2>1 DEF EndsOver, Agreed, Inv, CheckOK
  <2>. QED BY <1>2, <2>1, <2>2
<1>4. \A c \in Revalidation : check'[c].step = "refused" /\ till.sess # None =>
          check[c].step = "refused" \/ Over(till.sess)
  BY <1>1
<1>. QED BY <1>3, <1>4, EndsOverStays DEF Agreed

LEMMA SendRefreshEndsOver ==
    ASSUME Agreed, DeadKept, EndsOver, NEW r \in Renewal, SendRefresh(r)
    PROVE  EndsOver'
<1>1. UNCHANGED <<till, lost>>
  BY DEF SendRefresh
<1>2. CASE till.sess = None
  BY <1>1, <1>2 DEF EndsOver
<1>3. CASE till.sess # None
  <2>1. UNCHANGED check /\ ask' = [ask EXCEPT ![r].step = "sent", ![r].sess = till.sess, ![r].token = till.token]
    BY <1>3 DEF SendRefresh
  <2>2. \A q \in Renewal : ask'[q].stale = ask[q].stale
    BY <2>1, RenewalTyped DEF Agreed, Inv, TypeOK, Ask
  <2>. QED BY <1>1, <2>1, <2>2, EndsOverSame DEF Agreed
<1>. QED BY <1>2, <1>3

LEMMA GiveUpEndsOver ==
    ASSUME Agreed, DeadKept, EndsOver, NEW r \in Renewal, GiveUp(r)
    PROVE  EndsOver'
<1>1. PICK x : x = NoCheck
  OBVIOUS
<1>2. x.step = "idle" /\ Tell(r, x)
  BY <1>1, IdleTyped DEF GiveUp, Tell
<1>3. ask' = [ask EXCEPT ![r] = NoAsk] /\ UNCHANGED till /\ lost \subseteq lost'
  BY DEF GiveUp
<1>. QED BY <1>2, <1>3, ToldEndsOver

LEMMA SaveRenewedEndsOver ==
    ASSUME Agreed, DeadKept, EndsOver, NEW r \in Renewal, SaveRenewed(r)
    PROVE  EndsOver'
<1>1. PICK x : x = IF ask[r].stale THEN NoCheck ELSE Checks("asked", till.sess)
  OBVIOUS
<1>2. x.step \in {"idle", "asked"}
  BY <1>1, IdleTyped DEF Checks
<1>3. Tell(r, x)
  BY <1>1 DEF SaveRenewed, Tell
<1>4. /\ ask' = [ask EXCEPT ![r] = NoAsk] /\ till'.sess = till.sess /\ till'.ending = till.ending
      /\ lost \subseteq lost'
  BY DEF SaveRenewed, Agreed, Inv, TypeOK, Till
<1>. QED BY <1>2, <1>3, <1>4, ToldEndsOver

(* A session refused while it is the till's is over. *)
LEMMA RefusedIsOver ==
    ASSUME Agreed, NEW r \in Renewal, ask[r].step = "refused", ~ask[r].stale
    PROVE  Over(till.sess)
<1>1. ask[r].sess \in Session /\ ask[r].sess = till.sess
  BY AskSteps DEF Agreed, OneByOne
<1>2. ~Fits(ask[r].sess)
  BY <1>1 DEF Fits, AskFits
<1>. QED BY <1>1, <1>2 DEF Over, Agreed, InStep

LEMMA RenewalRefusedEndsOver ==
    ASSUME Agreed, DeadKept, EndsOver, NEW r \in Renewal, RenewalRefused(r)
    PROVE  EndsOver'
<1>1. PICK x : x = NotAccepted
  OBVIOUS
<1>2. x.step \in {"idle", "refused"} /\ Tell(r, x)
  BY <1>1, ToldTyped DEF RenewalRefused, Tell, Agreed
<1>3. /\ ask' = [ask EXCEPT ![r] = NoAsk] /\ lost' = lost /\ ask[r].step = "refused"
      /\ till' = IF ask[r].stale THEN till ELSE [till EXCEPT !.ending = TRUE]
  BY DEF RenewalRefused
<1>4. till'.sess = till.sess /\ (till'.ending => till.ending \/ ~ask[r].stale)
  BY <1>3 DEF Agreed, Inv, TypeOK, Till
<1>5. till'.ending /\ till.sess # None => till.ending \/ Over(till.sess)
  BY <1>3, <1>4, RefusedIsOver
<1>6. \A c \in Revalidation :
        check[c].step = "waiting" /\ check[c].ask = r /\ x.step = "refused" /\ till.sess # None
            => Over(till.sess)
  BY <1>3, RefusedIsOver DEF EndsOver
<1>7. x.step # "waiting" /\ lost \subseteq lost'
  BY <1>2, <1>3
<1>8. ask' = [ask EXCEPT ![r] = NoAsk] /\ till'.sess = till.sess /\ Tell(r, x)
  BY <1>2, <1>3, <1>4
<1>. QED BY <1>5, <1>6, <1>7, <1>8, ToldEndsOver

(* A session that the server no longer takes has been revoked. *)
LEMMA NotLiveIsOver ==
    ASSUME AllApart, Inv, NEW s \in Session, ~LiveAndActive(s)
    PROVE  Over(s)
  BY LiveIsActive DEF LiveAndActive, Over

LEMMA TillEndsOver ==
    ASSUME AllApart, Agreed, DeadKept, EndsOver, CallRefused \/ EndSession \/ SignOut \/ Kill
    PROVE  EndsOver'
<1>1. CASE CallRefused
  <2>1. /\ till.sess \in Session /\ till'.sess = till.sess /\ UNCHANGED <<ask, check, lost>>
        /\ ~LiveAndActive(till.sess)
    BY <1>1 DEF CallRefused, Agreed, Inv, TypeOK, Till
  <2>2. Over(till.sess)
    BY <2>1, NotLiveIsOver DEF Agreed
  <2>3. \A c \in Revalidation : check'[c].step = "waiting" /\ till'.sess # None => ~ask'[check'[c].ask].stale
    BY <2>1 DEF EndsOver
  <2>. QED BY <2>1, <2>2, <2>3, EndsOverStays DEF Agreed
<1>2. CASE EndSession \/ SignOut
  <2>1. till'.sess = None
    BY <1>2 DEF EndSession, SignOut, Clears
  <2>. QED BY <2>1 DEF EndsOver
<1>3. CASE Kill
  <2>1. \A c \in Revalidation : check'[c].step = "idle"
    BY <1>3, IdleTyped DEF Kill
  <2>2. ~till'.ending
    BY <1>3 DEF Kill, Agreed, Inv, TypeOK, Till
  <2>. QED BY <2>1, <2>2 DEF EndsOver
<1>. QED BY <1>1, <1>2, <1>3

(* A new session is nobody's yet: no revalidation waits when it is saved. *)
LEMMA IssueEndsOver ==
    ASSUME AllApart, "revalidate" \in Apart, Agreed, DeadKept, EndsOver, NEW w \in Worker, Issue(w)
    PROVE  EndsOver'
<1>1. /\ UNCHANGED <<check, lost>>
      /\ \/ \E s \in Session : CanSave /\ Saves(s, 1, txn[w].user)
         \/ UNCHANGED <<till, ask>>
  BY DEF Issue
<1>2. CASE UNCHANGED <<till, ask>>
  BY <1>1, <1>2, EndsOverSame DEF Agreed
<1>3. CASE \E s \in Session : CanSave /\ Saves(s, 1, txn[w].user)
  <2>1. ~till'.ending /\ \A c \in Revalidation : check'[c].step = "idle"
    BY <1>1, <1>3, IdleTyped DEF CanSave, Settled, Saves, AllApart
  <2>. QED BY <2>1 DEF EndsOver
<1>. QED BY <1>1, <1>2, <1>3

LEMMA ServerEndsOver ==
    ASSUME Agreed, DeadKept, EndsOver,
           \/ UNCHANGED <<till, ask, check, lost>>
           \/ \E w \in Worker, m \in net : RefreshRead(w, m)
           \/ \E w \in Worker : RefreshWrite(w)
    PROVE  EndsOver'
<1>1. CASE UNCHANGED <<till, ask, check, lost>>
  BY <1>1, EndsOverSame DEF Agreed
<1>2. ASSUME NEW m \in Request, NEW step \in {"got", "refused"}, NEW token,
             Answer(m, step, token), UNCHANGED <<till, check, lost>>
      PROVE  EndsOver'
  <2>1. m.r \in Renewal
    BY DEF Request
  <2>2. \A r \in Renewal : ask'[r].stale = ask[r].stale
    BY <1>2, <2>1, AnswerDoes
  <2>. QED BY <1>2, <2>2, EndsOverSame DEF Agreed
<1>3. ASSUME NEW w \in Worker, NEW m \in net, RefreshRead(w, m)
      PROVE  EndsOver'
  <2>1. m \in Request /\ UNCHANGED <<till, check, lost>>
    BY <1>3 DEF RefreshRead, Agreed, Inv, TypeOK
  <2>2. UNCHANGED ask \/ Answer(m, "refused", m.token)
    BY <1>3 DEF RefreshRead
  <2>. QED BY <1>1, <1>2, <2>1, <2>2
<1>4. ASSUME NEW w \in Worker, RefreshWrite(w)
      PROVE  EndsOver'
  <2>1. PICK m, t : m = txn[w].request /\ t = txn[w].replacing + 1
    OBVIOUS
  <2>2. m \in Request /\ UNCHANGED <<till, check, lost>>
    BY <1>4, <2>1 DEF RefreshWrite, Agreed, Inv, TxnOK
  <2>3. Answer(m, "got", t) \/ Answer(m, "refused", m.token)
    BY <1>4, <2>1 DEF RefreshWrite
  <2>. QED BY <1>2, <2>2, <2>3
<1>. QED BY <1>1, <1>3, <1>4

LEMMA RevalidationEndsOver ==
    ASSUME AllApart, "revalidate" \in Apart, Agreed, DeadKept, EndsOver, NEW c \in Revalidation,
           Revalidate(c) \/ TokenExpired(c) \/ Answered(c) \/ Confirmed(c) \/ NotConfirmed(c)
    PROVE  EndsOver'
<1>1. /\ till'.sess = till.sess /\ UNCHANGED <<ask, lost>>
      /\ till'.ending => till.ending \/ (till'.ending /\ check[c].step = "refused")
  BY DEF Revalidate, TokenExpired, Answered, Confirmed, NotConfirmed, Agreed, Inv, TypeOK, Till
<1>2. \A d \in Revalidation : d # c => check'[d] = check[d]
  BY DEF Revalidate, TokenExpired, AskAgain, WaitsFor, Answered, Confirmed, NotConfirmed, Agreed, Inv, TypeOK
<1>3. till.sess # None =>
        /\ check'[c].step = "refused" => Over(till.sess)
        /\ check'[c].step = "waiting" => ~ask'[check'[c].ask].stale
  <2> SUFFICES ASSUME till.sess # None
               PROVE  /\ check'[c].step = "refused" => Over(till.sess)
                      /\ check'[c].step = "waiting" => ~ask'[check'[c].ask].stale
    OBVIOUS
  <2>1. CASE AskAgain(c)
    <3>1. check'[c].step = "asked"
      BY <2>1 DEF AskAgain, Checks, Agreed, Inv, TypeOK
    <3>. QED BY <3>1
  <2>2. ASSUME NEW r \in Renewal, ~ask[r].stale, WaitsFor(c, r)
        PROVE  /\ check'[c].step = "refused" => Over(till.sess)
               /\ check'[c].step = "waiting" => ~ask'[check'[c].ask].stale
    <3>1. check'[c].step = "waiting" /\ check'[c].ask = r
      BY <2>2 DEF WaitsFor, NoCheck, Agreed, Inv, TypeOK
    <3>. QED BY <1>1, <2>2, <3>1
  <2>3. CASE Answered(c)
    <3>1. check[c].sess = till.sess /\ till.sess \in Session
      BY <2>3, IdsAssumption DEF Answered, Agreed, Inv, OwnOK, CheckOK
    <3>2. check'[c].step = "confirmed" \/ ~LiveAndActive(till.sess) \/ check'[c].step = "idle"
      BY <2>3, <3>1, IdleTyped DEF Answered, Checks, Agreed, Inv, TypeOK
    <3>3. check'[c].step \in {"confirmed", "refused", "idle"}
      BY <2>3, <3>1, IdleTyped, ToldTyped DEF Answered, Checks, Agreed, Inv, TypeOK
    <3>. QED BY <3>1, <3>2, <3>3, NotLiveIsOver DEF Agreed
  <2>4. CASE Confirmed(c) \/ NotConfirmed(c)
    <3>1. check'[c].step = "idle"
      BY <2>4, IdleTyped DEF Confirmed, NotConfirmed, Agreed, Inv, TypeOK
    <3>. QED BY <3>1
  <2>5. CASE Revalidate(c)
    BY <2>1, <2>5 DEF Revalidate, AskAgain
  <2>. QED BY <2>1, <2>2, <2>3, <2>4, <2>5 DEF TokenExpired
<1>4. \A d \in Revalidation : check'[d].step = "refused" /\ till.sess # None => check[d].step = "refused" \/ Over(till.sess)
  BY <1>2, <1>3
<1>5. \A d \in Revalidation : check'[d].step = "waiting" /\ till'.sess # None => ~ask'[check'[d].ask].stale
  BY <1>1, <1>2, <1>3 DEF EndsOver
<1>6. till'.ending /\ till.sess # None => till.ending \/ Over(till.sess)
  BY <1>1 DEF EndsOver
<1>. QED BY <1>1, <1>4, <1>5, <1>6, EndsOverStays DEF Agreed

LEMMA EndsOverNext ==
    ASSUME AllApart, "revalidate" \in Apart, Agreed, EndsOver, [Next]_vars
    PROVE  EndsOver'
<1>. DeadKept
  BY InvNext DEF Agreed
<1>1. ASSUME NEW w \in Worker, NEW u \in User, BootstrapRead(w, u) \/ SignInRead(w, u)
      PROVE  EndsOver'
  BY <1>1, ServerEndsOver DEF BootstrapRead, SignInRead
<1>2. ASSUME NEW w \in Worker, BootstrapWrite(w) \/ SignInWrite(w)
      PROVE  EndsOver'
  BY <1>2, IssueEndsOver, ServerEndsOver DEF BootstrapWrite, SignInWrite
<1>3. ASSUME NEW w \in Worker, RefreshWrite(w) \/ \E m \in net : RefreshRead(w, m)
      PROVE  EndsOver'
  BY <1>3, ServerEndsOver
<1>4. ASSUME NEW u \in User, Hire(u) \/ SetStatus(u) \/ ResetPassword(u)
      PROVE  EndsOver'
  BY <1>4, ServerEndsOver DEF Hire, SetStatus, ResetPassword
<1>5. ASSUME NEW r \in Renewal,
             \/ StartRenewal(r) \/ SendRefresh(r) \/ NoAnswer(r) \/ Retry(r) \/ GiveUp(r)
             \/ SaveRenewed(r) \/ RenewalRefused(r)
      PROVE  EndsOver'
  BY <1>5, RenewalEndsOver, SendRefreshEndsOver, GiveUpEndsOver, SaveRenewedEndsOver,
     RenewalRefusedEndsOver
<1>6. ASSUME NEW c \in Revalidation,
             Revalidate(c) \/ TokenExpired(c) \/ Answered(c) \/ Confirmed(c) \/ NotConfirmed(c)
      PROVE  EndsOver'
  BY <1>6, RevalidationEndsOver
<1>7. CASE CallRefused \/ EndSession \/ SignOut \/ Kill
  BY <1>7, TillEndsOver
<1>8. CASE (\E o \in out : LogOut(o)) \/ (\E s \in Session : GraceEnds(s)) \/ UNCHANGED vars
  BY <1>8, ServerEndsOver DEF LogOut, GraceEnds, vars
<1>. QED BY <1>1, <1>2, <1>3, <1>4, <1>5, <1>6, <1>7, <1>8 DEF Next

Dropped ==
    /\ till.sess # None /\ till'.sess = None /\ (till.ending \/ till'.user = till.user)
    /\ till.sess \notin lost

(* Only a step that ends the session, or a sign-out while it is ended, drops the tokens. *)
LEMMA DroppedEnding ==
    ASSUME Agreed, [Next]_vars, Dropped
    PROVE  till.ending
<1>1. ~(till'.sess = till.sess)
  BY DEF Dropped
<1>2. ASSUME NEW w \in Worker, Issue(w) PROVE FALSE
  <2>1. till' = till \/ till'.sess \in Session
    BY <1>2 DEF Issue, Saves
  <2>. QED BY <2>1, IdsAssumption DEF Dropped
<1>3. CASE SignOut
  BY <1>3 DEF SignOut, Clears, Dropped
<1>4. CASE EndSession
  BY <1>4 DEF EndSession
<1>5. ASSUME NEW r \in Renewal, SaveRenewed(r) \/ RenewalRefused(r)
      PROVE  FALSE
  BY <1>1, <1>5 DEF SaveRenewed, RenewalRefused, Agreed, Inv, TypeOK, Till
<1>6. ASSUME CallRefused \/ Kill PROVE FALSE
  BY <1>1, <1>6 DEF CallRefused, Kill, Agreed, Inv, TypeOK, Till
<1>7. ASSUME NEW c \in Revalidation,
             Revalidate(c) \/ TokenExpired(c) \/ Answered(c) \/ Confirmed(c) \/ NotConfirmed(c)
      PROVE  FALSE
  BY <1>1, <1>7 DEF Revalidate, TokenExpired, Answered, Confirmed, NotConfirmed, Agreed, Inv, TypeOK, Till
<1>8. ASSUME UNCHANGED till PROVE FALSE
  BY <1>1, <1>8
<1>. QED BY <1>2, <1>3, <1>4, <1>5, <1>6, <1>7, <1>8
     DEF Next, vars, BootstrapRead, SignInRead, BootstrapWrite, SignInWrite, RefreshRead,
         RefreshWrite, Hire, SetStatus, ResetPassword, StartRenewal, SendRefresh, NoAnswer, Retry,
         GiveUp, LogOut, GraceEnds

LEMMA DroppedIsOver ==
    ASSUME Agreed, EndsOver, [Next]_vars, Dropped
    PROVE  ~LiveAndActive(till.sess)
<1>1. till.ending
  BY DroppedEnding
<1>. QED BY <1>1 DEF EndsOver, Over, Dropped, LiveAndActive

(* A till drops its tokens only when the server has ended the session or it signs  *)
(* out, never for an answer that was meant for a session before it                 *)
(* (TokenRefresher, AuthController._end), under the same condition and where no    *)
(* sign-in is saved while a revalidation waits for an answer (_revalidate ends the *)
(* session the till has when the answer comes).                                    *)
THEOREM LiveSessionsAreKept ==
    ASSUME AllApart, "revalidate" \in Apart
    PROVE  Spec => KeepsLiveSession
<1>1. Init => EndsOver
  BY DEF Init, EndsOver
<1>2. Agreed /\ EndsOver /\ [Next]_vars => [Dropped => ~LiveAndActive(till.sess)]_vars
  BY DroppedIsOver
<1>3. Agreed /\ EndsOver /\ [Next]_vars => Agreed' /\ EndsOver'
  BY AgreedNext, EndsOverNext
<1>. QED BY <1>1, <1>2, <1>3, AgreedInit, PTL DEF Spec, KeepsLiveSession, Dropped
=============================================================================
