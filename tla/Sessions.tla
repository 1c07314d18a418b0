-------------------------------- MODULE Sessions --------------------------------
(***************************************************************************)
(* Signing in and staying signed in: the server's sessions with their      *)
(* rotating refresh tokens, and the till that holds one and renews it.     *)
(*                                                                         *)
(*   server/dukan/infrastructure/auth_service.py, iam_service.py   server  *)
(*   app/lib/infrastructure/http.dart                      TokenRefresher  *)
(*   app/lib/features/auth/auth_controller.dart            AuthController  *)
(*                                                                         *)
(* One till: the sessions of two tills share nothing.  A token is the n-th *)
(* its session issued; the server keeps the newest (refresh_hash) and the  *)
(* one it replaced (prev_refresh_hash).  A request or its answer may be    *)
(* lost, and the till's app may be killed.                                 *)
(***************************************************************************)
EXTENDS Naturals, FiniteSets

CONSTANTS
    User,
    Session,    \* ids of sessions
    Renewal,    \* ids of the till's renewals: one of now, and one of a session
                \* the till has left since
    Revalidation,   \* ids of the till's questions whether its user is still accepted
    Worker,     \* server threads
    None,
    MaxIssued,  \* bound: tokens a session issues
    MaxFault,   \* bound: outages that lose requests or answers, and kills
    Apart       \* what does not happen: "late", a request handled after its till
                \* stopped waiting; "handover", a sign-in saved while a renewal or
                \* the end of a session waits for storage; "signin", a sign-in in
                \* the middle of a reset or a disable; "revalidate", a sign-in
                \* saved while a revalidation waits for an answer

ASSUME BoundsAssumption == MaxIssued \in Nat \ {0} /\ MaxFault \in Nat
ASSUME IdsAssumption == None \notin User \cup Session \cup Renewal \cup Revalidation

VARIABLES
    account,    \* account[u]: the status of the user row
    sess,       \* sess[s]: the session's row
    txn,        \* txn[w]: the sign-in or refresh thread w serves
    net,        \* refresh requests on their way to the server
    out,        \* sign-outs on their way to the server
    till,       \* what the till has saved, and whose till it is now
    ask,        \* ask[r]: a renewal
    check,      \* check[c]: a revalidation
    outdated,   \* sign-ins under way and sessions left live by a reset of the password
    lost,       \* sessions of which the till gave up a renewal unanswered
    faults      \* requests and answers lost, and kills, so far

vars == <<account, sess, txn, net, out, till, ask, check, outdated, lost, faults>>

-----------------------------------------------------------------------------
(* Values *)

Token == 0 .. MaxIssued
Status == {"none", "active", "disabled"}
\* revoked_at is set; for "reuse" because a rotated-out token came back.
Revoked == {"revoked", "reuse"}
SessionRow == [state : {"none", "live"} \cup Revoked, user : User \cup {None},
               hash : Token, prev : Token, fresh : BOOLEAN]
NoSession == [state |-> "none", user |-> None, hash |-> 0, prev |-> 0, fresh |-> FALSE]

Request == [r : Renewal, try : {1, 2}, sess : Session, token : Token]
Txn == [kind : {"idle", "bootstrap", "signin", "refresh"}, user : User \cup {None},
        request : Request \cup {None}, replacing : Token]
Idle == [kind |-> "idle", user |-> None, request |-> None, replacing |-> 0]

Ask == [step : {"idle", "reading", "sent", "unanswered", "got", "refused"},
        sess : Session \cup {None}, token : Token, try : {1, 2}, stale : BOOLEAN]
NoAsk == [step |-> "idle", sess |-> None, token |-> 0, try |-> 1, stale |-> FALSE]

\* The session whose token /auth/me was last asked with, the renewal waited for.
Checking == [step : {"idle", "asked", "waiting", "confirmed", "refused"},
             sess : Session \cup {None}, ask : Renewal \cup {None}]
NoCheck == [step |-> "idle", sess |-> None, ask |-> None]

Till == [sess : Session \cup {None}, token : Token, user : User \cup {None}, ending : BOOLEAN]

Fault == faults < MaxFault /\ faults' = faults + 1
\* A renewal that gets no answer to its second try either lost both to one outage.
Outage(r) == IF ask[r].try = 1 THEN Fault ELSE UNCHANGED faults
GoOn(w, t) == txn' = [txn EXCEPT ![w] = t]
IsRevoked(s) == sess[s].state \in Revoked

Init ==
    /\ account = [u \in User |-> "none"]
    /\ sess = [s \in Session |-> NoSession]
    /\ txn = [w \in Worker |-> Idle]
    /\ net = {} /\ out = {}
    /\ till = [sess |-> None, token |-> 0, user |-> None, ending |-> FALSE]
    /\ ask = [r \in Renewal |-> NoAsk]
    /\ check = [c \in Revalidation |-> NoCheck]
    /\ outdated = {} /\ lost = {} /\ faults = 0

-----------------------------------------------------------------------------
(* The till's storage *)

\* newSession: requests and renewals of the session before it no longer count.
Leave == ask' = [r \in Renewal |-> IF ask[r] = NoAsk THEN NoAsk ELSE [ask[r] EXCEPT !.stale = TRUE]]

Saves(s, token, u) == till' = [sess |-> s, token |-> token, user |-> u, ending |-> till.ending]
Clears(u) == till' = [sess |-> None, token |-> 0, user |-> u, ending |-> FALSE]

\* No await of the till is open into which a sign-in could be saved.
Settled == ~till.ending /\ \A r \in Renewal : ask[r].step # "reading"

-----------------------------------------------------------------------------
(* Signing in *)

\* The first owner's account, on a server that has no user yet.
BootstrapRead(w, u) ==
    /\ txn[w] = Idle /\ \A v \in User : account[v] = "none"
    /\ GoOn(w, [Idle EXCEPT !.kind = "bootstrap", !.user = u])
    /\ UNCHANGED <<account, sess, net, out, till, ask, check, outdated, lost, faults>>

\* authenticate: the password is the user's and the account is active.  The sign-in
\* screen asks, or a revalidation with the password (_signInAgain).
SignInRead(w, u) ==
    /\ txn[w] = Idle /\ account[u] = "active"
    /\ \A v \in Worker : txn[v].kind # "signin"     \* one at a time
    /\ GoOn(w, [Idle EXCEPT !.kind = "signin", !.user = u])
    /\ UNCHANGED <<account, sess, net, out, till, ask, check, outdated, lost, faults>>

\* When a sign-in may be saved (Apart).
CanSave ==
    /\ "handover" \in Apart => Settled
    /\ "revalidate" \in Apart => \A c \in Revalidation : check[c] = NoCheck

\* _issue_session and its commit; the till that gets the answer saves the token.
Issue(w) ==
    LET t == txn[w] IN
    \E s \in Session :
      /\ sess[s] = NoSession
      /\ sess' = [sess EXCEPT ![s] = [state |-> "live", user |-> t.user, hash |-> 1, prev |-> 0, fresh |-> FALSE]]
      /\ \/ CanSave /\ Saves(s, 1, t.user) /\ Leave /\ UNCHANGED faults
         \/ Fault /\ UNCHANGED <<till, ask>>
      /\ outdated' = IF w \in outdated THEN (outdated \ {w}) \cup {s} ELSE outdated
      /\ GoOn(w, Idle)
      /\ UNCHANGED <<net, out, check, lost>>

\* The role names are unique: of two first owners one is refused.
BootstrapWrite(w) ==
    /\ txn[w].kind = "bootstrap"
    /\ IF \E v \in User : account[v] # "none"
       THEN GoOn(w, Idle) /\ UNCHANGED <<account, sess, net, out, till, ask, check, outdated, lost, faults>>
       ELSE /\ account' = [account EXCEPT ![txn[w].user] = "active"]
            /\ Issue(w)

SignInWrite(w) ==
    /\ txn[w].kind = "signin" /\ Issue(w)
    /\ UNCHANGED account

-----------------------------------------------------------------------------
(* What the owner does to an account (SqlIamService) *)

\* Requests about an account that may not fall into a sign-in to it.
NotSigningIn(u) ==
    "signin" \in Apart => \A w \in Worker : txn[w].kind # "signin" \/ txn[w].user # u

\* _revoke_sessions
RevokeAll(u) ==
    sess' = [s \in Session |-> IF sess[s].user = u /\ ~IsRevoked(s) /\ sess[s] # NoSession
                               THEN [sess[s] EXCEPT !.state = "revoked"] ELSE sess[s]]

Hire(u) ==
    /\ account[u] = "none" /\ \E v \in User : account[v] = "active"
    /\ account' = [account EXCEPT ![u] = "active"]
    /\ UNCHANGED <<sess, txn, net, out, till, ask, check, outdated, lost, faults>>

\* Mutated: a disabled user's sessions are left as they are.
SetStatusOnly(u) ==
    /\ account[u] \in {"active", "disabled"}
    /\ account' = [account EXCEPT ![u] = IF @ = "active" THEN "disabled" ELSE "active"]
    /\ UNCHANGED <<sess, txn, net, out, till, ask, check, outdated, lost, faults>>

\* set_employee_status
SetStatus(u) ==
    /\ \/ /\ account[u] = "active" /\ NotSigningIn(u)
          /\ account' = [account EXCEPT ![u] = "disabled"]
          /\ RevokeAll(u)
       \/ /\ account[u] = "disabled"
          /\ account' = [account EXCEPT ![u] = "active"]
          /\ UNCHANGED sess
    /\ UNCHANGED <<txn, net, out, till, ask, check, outdated, lost, faults>>

ResetPassword(u) ==
    /\ account[u] # "none" /\ NotSigningIn(u)
    /\ RevokeAll(u)
    /\ outdated' = outdated \cup {w \in Worker : txn[w].kind = "signin" /\ txn[w].user = u}
                  \cup {s \in Session : sess'[s].user = u /\ sess'[s].state = "live"}
    /\ UNCHANGED <<account, txn, net, out, till, ask, check, lost, faults>>

-----------------------------------------------------------------------------
(* Renewing, on the till *)

Checks(step, s) == [step |-> step, sess |-> s, ask |-> None]

\* What is left to do about a session that is over: nothing on a till signed out.
NotAccepted == IF till.user = None THEN NoCheck ELSE Checks("refused", None)

\* The outcome of a renewal reaches the revalidations that wait for it.
Tell(r, outcome) ==
    check' = [c \in Revalidation |-> IF check[c].step = "waiting" /\ check[c].ask = r
                                     THEN outcome ELSE check[c]]

RequestOf(r) == [r |-> r, try |-> ask[r].try, sess |-> ask[r].sess, token |-> ask[r].token]

\* A request of the current session got TOKEN_EXPIRED; those that fail together
\* share one renewal, which remembers the session it is for.
StartRenewal(r) ==
    /\ ask[r] = NoAsk /\ till.sess # None
    /\ \A q \in Renewal : ask[q].step # "idle" => ask[q].stale
    /\ ask' = [ask EXCEPT ![r].step = "reading"]
    /\ UNCHANGED <<account, sess, txn, net, out, till, check, outdated, lost, faults>>

\* Mutated: a till that has been signed out while it read its storage asks anyway.
SendRefreshAnyway(r) ==
    /\ ask[r].step = "reading"
    /\ ask' = [ask EXCEPT ![r].step = "sent", ![r].sess = till.sess, ![r].token = till.token]
    /\ net' = net \cup {RequestOf(r)'}
    /\ UNCHANGED <<account, sess, txn, out, till, check, outdated, lost, faults>>

\* The saved refresh token, whoever has saved it by now.
SendRefresh(r) ==
    /\ ask[r].step = "reading"
    /\ IF till.sess = None
       THEN /\ ask' = [ask EXCEPT ![r] = NoAsk] /\ UNCHANGED net
            /\ Tell(r, NotAccepted)
       ELSE /\ ask' = [ask EXCEPT ![r].step = "sent", ![r].sess = till.sess, ![r].token = till.token]
            /\ net' = net \cup {RequestOf(r)'}
            /\ UNCHANGED check
    /\ UNCHANGED <<account, sess, txn, out, till, outdated, lost, faults>>

\* The request does not arrive, or the till stops waiting for it.
NoAnswer(r) ==
    /\ ask[r].step = "sent" /\ Outage(r)
    /\ \/ RequestOf(r) \in net /\ net' = net \ {RequestOf(r)}
       \/ "late" \notin Apart /\ UNCHANGED net
    /\ ask' = [ask EXCEPT ![r].step = "unanswered"]
    /\ UNCHANGED <<account, sess, txn, out, till, check, outdated, lost>>

\* A refresh that got no answer is asked for once more, with the same token.
Retry(r) ==
    /\ ask[r].step = "unanswered" /\ ask[r].try = 1
    /\ ask' = [ask EXCEPT ![r].step = "sent", ![r].try = 2]
    /\ net' = net \cup {RequestOf(r)'}
    /\ UNCHANGED <<account, sess, txn, out, till, check, outdated, lost, faults>>

GiveUp(r) ==
    /\ ask[r].step = "unanswered" /\ ask[r].try = 2
    /\ lost' = lost \cup {ask[r].sess}
    /\ ask' = [ask EXCEPT ![r] = NoAsk] /\ Tell(r, NoCheck)
    /\ UNCHANGED <<account, sess, txn, net, out, till, outdated, faults>>

\* Mutated: the renewed token is saved whoever has signed in meanwhile.
SaveRenewedLate(r) ==
    /\ ask[r].step = "got"
    /\ till' = [till EXCEPT !.sess = ask[r].sess, !.token = ask[r].token]
    /\ ask' = [ask EXCEPT ![r] = NoAsk] /\ Tell(r, Checks("asked", ask[r].sess))
    /\ UNCHANGED <<account, sess, txn, net, out, outdated, lost, faults>>

\* A renewed token is saved, unless the session it is of is no longer the till's
\* (StaleSessionException); a revalidation asks again with the token saved.
SaveRenewed(r) ==
    /\ ask[r].step = "got"
    /\ IF ask[r].stale
       THEN UNCHANGED till /\ Tell(r, NoCheck)
       ELSE till' = [till EXCEPT !.token = ask[r].token] /\ Tell(r, Checks("asked", till.sess))
    /\ ask' = [ask EXCEPT ![r] = NoAsk]
    /\ UNCHANGED <<account, sess, txn, net, out, outdated, lost, faults>>

\* Mutated: an answer for a session the till has left ends the one it has.
RefusedWhoever(r) ==
    /\ ask[r].step = "refused"
    /\ ask' = [ask EXCEPT ![r] = NoAsk] /\ Tell(r, NotAccepted)
    /\ till' = [till EXCEPT !.ending = till.sess # None]
    /\ UNCHANGED <<account, sess, txn, net, out, outdated, lost, faults>>

\* The server no longer accepts the session: for the requests that wait for the
\* renewal it is over if it is still the till's; a revalidation takes it as it comes.
RenewalRefused(r) ==
    /\ ask[r].step = "refused"
    /\ ask' = [ask EXCEPT ![r] = NoAsk] /\ Tell(r, NotAccepted)
    /\ till' = IF ask[r].stale THEN till ELSE [till EXCEPT !.ending = TRUE]
    /\ UNCHANGED <<account, sess, txn, net, out, outdated, lost, faults>>

\* authenticated_user takes the session's access tokens.
LiveAndActive(s) == sess[s].state = "live" /\ account[sess[s].user] = "active"

\* The answer to any other request ends the session too.  A request remembers the
\* session it was sent in: the answer to one of a session the till has left is dropped.
CallRefused ==
    /\ till.sess # None /\ ~till.ending /\ ~LiveAndActive(till.sess)
    /\ till' = [till EXCEPT !.ending = TRUE]
    /\ UNCHANGED <<account, sess, txn, net, out, ask, check, outdated, lost, faults>>

\* _end removes the tokens; a user whose account ended, or whose password is no longer
\* the account's, is forgotten altogether.
EndSession ==
    /\ till.ending
    /\ Clears(till.user) \/ Clears(None)
    /\ Leave
    /\ UNCHANGED <<account, sess, txn, net, out, check, outdated, lost, faults>>

\* Signing out wipes the till first and then tells the server, best-effort.
SignOut ==
    /\ till.user # None
    /\ \/ /\ till.sess # None /\ UNCHANGED faults
          /\ out' = out \cup {[sess |-> till.sess, token |-> till.token]}
       \/ till.sess = None /\ UNCHANGED <<out, faults>>
       \/ till.sess # None /\ Fault /\ UNCHANGED out
    /\ Clears(None) /\ Leave
    /\ UNCHANGED <<account, sess, txn, net, check, outdated, lost>>

\* The app is killed: its renewals and revalidations go, what was saved stays.
Kill ==
    /\ \/ \E r \in Renewal : ask[r] # NoAsk
       \/ \E c \in Revalidation : check[c] # NoCheck
    /\ Fault
    /\ check' = [c \in Revalidation |-> NoCheck]
    /\ lost' = lost \cup {ask[r].sess : r \in {q \in Renewal : ask[q].sess # None}}
    /\ ask' = [r \in Renewal |-> NoAsk]
    /\ till' = [till EXCEPT !.ending = FALSE]
    /\ net' = IF "late" \in Apart THEN {} ELSE net
    /\ UNCHANGED <<account, sess, txn, out, outdated>>

-----------------------------------------------------------------------------
(* Revalidating: asking /auth/me once the till was unlocked *)

\* On a till without a token only the password signs in again.
Revalidate(c) ==
    /\ check[c] = NoCheck /\ till.user # None
    /\ check' = [check EXCEPT ![c] = IF till.sess = None THEN NotAccepted
                                                        ELSE Checks("asked", till.sess)]
    /\ UNCHANGED <<account, sess, txn, net, out, till, ask, outdated, lost, faults>>

AskAgain(c) ==
    \/ till.sess # None /\ check' = [check EXCEPT ![c] = Checks("asked", till.sess)]
    \/ till.sess = None /\ check' = [check EXCEPT ![c] = NotAccepted]

WaitsFor(c, r) ==
    check' = [check EXCEPT ![c] = [NoCheck EXCEPT !.step = "waiting", !.ask = r]]

\* Mutated: a renewal of a session the till has left is still the one to share.
TokenExpiredLate(c) ==
    /\ check[c].step = "asked"
    /\ AskAgain(c) \/ \E r \in Renewal : ask[r] # NoAsk /\ WaitsFor(c, r)
    /\ UNCHANGED <<account, sess, txn, net, out, till, ask, outdated, lost, faults>>

\* The access token had expired: asked again with the one saved meanwhile, refused if
\* none is, or with the one the till's renewal brings (StartRenewal, if there is none).
TokenExpired(c) ==
    /\ check[c].step = "asked"
    /\ AskAgain(c) \/ \E r \in Renewal : ask[r] # NoAsk /\ ~ask[r].stale /\ WaitsFor(c, r)
    /\ UNCHANGED <<account, sess, txn, net, out, till, ask, outdated, lost, faults>>

Answered(c) ==
    LET s == check[c].sess IN
    /\ check[c].step = "asked"
    /\ \/ /\ check' = [check EXCEPT ![c] = IF LiveAndActive(s) THEN Checks("confirmed", s)
                                                             ELSE NotAccepted]
          /\ UNCHANGED faults
       \/ check' = [check EXCEPT ![c] = NoCheck] /\ Fault
    /\ UNCHANGED <<account, sess, txn, net, out, till, ask, outdated, lost>>

\* The profile in the answer is saved, whoever is signed in by now.
Confirmed(c) ==
    /\ check[c].step = "confirmed"
    /\ till' = [till EXCEPT !.user = IF @ = None THEN None ELSE sess[check[c].sess].user]
    /\ check' = [check EXCEPT ![c] = NoCheck]
    /\ UNCHANGED <<account, sess, txn, net, out, ask, outdated, lost, faults>>

\* _end, at once or when the password the till was unlocked with could not sign in
\* again, for the session the till has by then; unless it is signed out, or the
\* password could (SignInRead).
NotConfirmed(c) ==
    /\ check[c].step = "refused"
    /\ \/ till.user # None /\ till' = [till EXCEPT !.ending = TRUE]
       \/ UNCHANGED till
    /\ check' = [check EXCEPT ![c] = NoCheck]
    /\ UNCHANGED <<account, sess, txn, net, out, ask, outdated, lost, faults>>

-----------------------------------------------------------------------------
(* Refreshing, on the server *)

\* The answer reaches the renewal that still waits for it, or is lost.
Answer(m, step, token) ==
    LET a == ask[m.r] IN
    IF a.step = "sent" /\ RequestOf(m.r) = m
    THEN \/ ask' = [ask EXCEPT ![m.r] = [a EXCEPT !.step = step, !.token = token]] /\ UNCHANGED faults
         \/ ask' = [ask EXCEPT ![m.r] = [a EXCEPT !.step = "unanswered"]] /\ Outage(m.r)
    ELSE UNCHANGED <<ask, faults>>

\* The newest token, or the one it replaced.
Found(m) == m.token \in {sess[m.sess].hash, sess[m.sess].prev} /\ ~IsRevoked(m.sess)

\* Mutated: a retry with the token it had counts as theft at once.
ComesBackAtOnce(m) == Found(m) /\ m.token # sess[m.sess].hash

\* A token rotated out more than REFRESH_RETRY_GRACE ago.
ComesBackLate(m) == Found(m) /\ m.token # sess[m.sess].hash /\ ~sess[m.sess].fresh

RefreshRead(w, m) ==
    /\ txn[w] = Idle /\ net' = net \ {m}
    /\ IF ComesBackLate(m)
       THEN /\ sess' = [sess EXCEPT ![m.sess].state = "reuse"]
            /\ Answer(m, "refused", m.token) /\ UNCHANGED txn
       ELSE IF ~Found(m) \/ account[sess[m.sess].user] # "active"
       THEN Answer(m, "refused", m.token) /\ UNCHANGED <<sess, txn>>
       ELSE /\ GoOn(w, [Idle EXCEPT !.kind = "refresh", !.request = m, !.replacing = sess[m.sess].hash])
            /\ UNCHANGED <<sess, ask, faults>>
    /\ UNCHANGED <<account, out, till, check, outdated, lost>>

\* Mutated: the UPDATE rotates whatever became of the session.
CanRotateAny(t) == sess[t.request.sess].hash = t.replacing

\* The UPDATE finds the hash it read, on a session nobody has revoked.
CanRotate(t) == sess[t.request.sess].hash = t.replacing /\ ~IsRevoked(t.request.sess)

RefreshWrite(w) ==
    LET t == txn[w]
        s == t.request.sess
        new == t.replacing + 1 IN
    /\ t.kind = "refresh"
    /\ IF CanRotate(t)
       THEN /\ new <= MaxIssued
            /\ sess' = [sess EXCEPT ![s].hash = new, ![s].prev = t.replacing, ![s].fresh = TRUE]
            /\ Answer(t.request, "got", new)
       ELSE Answer(t.request, "refused", t.request.token) /\ UNCHANGED sess
    /\ GoOn(w, Idle)
    /\ UNCHANGED <<account, net, out, till, check, outdated, lost>>

\* Either token of the pair ends the session.
LogOut(o) ==
    /\ out' = out \ {o}
    /\ sess' = IF o.token \in {sess[o.sess].hash, sess[o.sess].prev} /\ ~IsRevoked(o.sess)
               THEN [sess EXCEPT ![o.sess].state = "revoked"] ELSE sess
    /\ UNCHANGED <<account, txn, net, till, ask, check, outdated, lost, faults>>

\* Time passes: the grace for a rotated-out token, 60 seconds, is longer than a till
\* waits for an answer (30) and pauses before it asks again (1).
GraceEnds(s) ==
    /\ sess[s].fresh
    /\ \A r \in Renewal : ask[r].sess = s => ask[r].step \notin {"sent", "unanswered"}
    /\ sess' = [sess EXCEPT ![s].fresh = FALSE]
    /\ UNCHANGED <<account, txn, net, out, till, ask, check, outdated, lost, faults>>

Next ==
    \/ \E w \in Worker :
         \/ \E u \in User : BootstrapRead(w, u) \/ SignInRead(w, u)
         \/ BootstrapWrite(w) \/ SignInWrite(w)
         \/ \E m \in net : RefreshRead(w, m)
         \/ RefreshWrite(w)
    \/ \E u \in User : Hire(u) \/ SetStatus(u) \/ ResetPassword(u)
    \/ \E r \in Renewal :
         \/ StartRenewal(r) \/ SendRefresh(r) \/ NoAnswer(r) \/ Retry(r) \/ GiveUp(r)
         \/ SaveRenewed(r) \/ RenewalRefused(r)
    \/ \E c \in Revalidation :
         Revalidate(c) \/ TokenExpired(c) \/ Answered(c) \/ Confirmed(c) \/ NotConfirmed(c)
    \/ CallRefused \/ EndSession \/ SignOut \/ Kill
    \/ \E o \in out : LogOut(o)
    \/ \E s \in Session : GraceEnds(s)

Spec == Init /\ [][Next]_vars

-----------------------------------------------------------------------------
(* Properties *)

TypeOK ==
    /\ account \in [User -> Status]
    /\ sess \in [Session -> SessionRow]
    /\ txn \in [Worker -> Txn]
    /\ net \subseteq Request
    /\ out \subseteq [sess : Session, token : Token]
    /\ till \in Till
    /\ ask \in [Renewal -> Ask]
    /\ check \in [Revalidation -> Checking]
    /\ outdated \subseteq Worker \cup Session /\ lost \subseteq Session /\ faults \in 0 .. MaxFault

\* A session that was revoked stays revoked and issues no token any more, also to a
\* refresh that had found it live (the condition of the UPDATE in refresh).
DeadStaysDead ==
    [][\A s \in Session : IsRevoked(s) =>
            sess'[s].state = sess[s].state /\ sess'[s].hash = sess[s].hash]_vars

\* A live session belongs to an active account and was opened with the password the
\* account has now: disabling a user or resetting a password ends every session.
LiveIsEntitled ==
    \A s \in Session : sess[s].state = "live" =>
        account[sess[s].user] = "active" /\ s \notin outdated

\* A till that asks again in time for an answer it did not get is not taken for a
\* thief: of the live sessions only one of which it gave up a renewal is revoked for
\* reuse.
NotTakenForThief ==
    [][\A s \in Session : sess[s].state = "live" /\ sess'[s].state = "reuse" => s \in lost]_vars

\* The token a till has saved is of a session of the user it is signed in as,
\* whatever renewals were under way when it changed hands.
SavedIsOwn == till.sess # None => sess[till.sess].user = till.user

\* A till drops its tokens only when the server has ended the session or it signs
\* out, never for an answer that was meant for a session before it.
KeepsLiveSession ==
    [][(till.sess # None /\ till'.sess = None /\ (till.ending \/ till'.user = till.user)
           /\ till.sess \notin lost)
         => ~LiveAndActive(till.sess)]_vars

=============================================================================
