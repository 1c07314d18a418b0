------------------------------ MODULE StaffProofs ------------------------------
(***************************************************************************)
(* Proofs about Staff, for any number of employees, roles, branches,       *)
(* server threads and requests.                                            *)
(*                                                                         *)
(* A request writes what it decided from what it read earlier, statement   *)
(* by statement, so the invariants say what of that is still so: what a    *)
(* request names is there (Named); where nobody is made an owner meanwhile *)
(* the rows a SELECT ... FOR UPDATE found still hold every owner's row in  *)
(* the branches it asks about (Sure), who has locked them is alone         *)
(* (OwnerInv), and its count holds until it commits (Counted); and a       *)
(* target that is read without a lock is as it was read (AsRead,           *)
(* HomeAsRead).                                                            *)
(***************************************************************************)
EXTENDS Staff, SequenceTheorems, FiniteSetTheorems, WellFoundedInduction, TLAPS

Begun(w) == txn[w].step \notin {"idle", "read"}
Counting == {"rights", "branches", "look", "lock"}

\* What a request names is there.
Named(w) ==
    LET t == txn[w] IN
    /\ t.op \in {"role", "revoke", "hire", "open"} => t.user \in User /\ t.branch \in Branch
    /\ IF t.op \in {"role", "hire"} THEN t.role \in Role ELSE t.role = "none"
    /\ t.op \in {"role", "revoke", "disable", "enable", "open"} =>
         t.user \in User /\ status[t.user] # "none"
    /\ t.op \in {"activate", "close"} => t.branch \in Opened
    /\ t.step = "read" => t.held = {} /\ t.op # "open"
    /\ t.op = "open" =>
         /\ t.owned = {} /\ t.step # "rights"
         /\ t.step \in {"look", "lock"} => t.ids # {}
         /\ t.step = "write" => \A u \in t.gets : status[u] # "none"
    /\ t.step \in Counting => Takes(t.op, t.role)
    /\ t.step = "rest" => t.op \in {"revoke", "close"}
    /\ Begun(w) /\ t.op \in {"role", "revoke"} =>
         IF t.at = 0 THEN t.op = "role" /\ t.was = "none"
         ELSE row[t.at].user = t.user /\ row[t.at].branch = t.branch

\* Who has an assignment has a user row.
Worked == \A i \in Row : row[i] # NoRow => status[row[i].user] # "none"

\* The branches the shop began with.
First == {Start[i].branch : i \in 1 .. Len(Start)}

BaseInv ==
    /\ TypeOK /\ Worked
    /\ First # {} /\ First \subseteq Opened
    /\ \A w \in Worker : Named(w)

OwnerRowsIn(B) == {i \in OwnerRows : row[i].branch \in B}

Taking(w) == Takes(txn[w].op, txn[w].role)
Making(w) == Makes(txn[w].op, txn[w].role)

\* What a request that counts owners has found and locked is all there is to find.
Sure(w) ==
    LET t == txn[w] IN
    /\ t.ids \subseteq Opened
    /\ t.step = "lock" => OwnerRowsIn(First \cup t.ids) \subseteq t.found
    /\ t.held # {} => Taking(w) /\ OwnerRowsIn(First) \subseteq t.held
    /\ t.step = "rights" => t.owned # {}
    /\ t.step = "branches" => t.owned = {}
    /\ t.op # "open" /\ t.owned = {} /\ t.step \in Counting => t.held # {}
    /\ t.op # "open" /\ t.owned = {} /\ t.step \in {"look", "lock"} => t.ids = Opened

\* Who takes no owner's role away by what it read does not take one now, and who
\* owned nothing when it was looked does not own the whole shop meanwhile.
AsRead(w) ==
    LET t == txn[w] IN
    /\ Taking(w) /\ t.op \in {"role", "revoke"} /\ Begun(w) /\ t.at # 0 /\ t.was # "owner" =>
         row[t.at].role # "owner"
    /\ Unseats(t) /\ t.step \in {"rest", "write"} => t.held # {} \/ t.op \notin {"role", "revoke"}
    /\ t.op = "open" /\ t.step = "write" => t.held # {}
    /\ t.op = "disable" /\ t.step = "write" /\ t.held = {} => ~(First \subseteq OwnedBy(t.user))

\* The count a request made under its locks.
Counted(w) ==
    LET t == txn[w] IN
    t.step \in {"rest", "write"} /\ t.held # {} =>
        IF t.op = "open" THEN ShopOwners \subseteq t.gets ELSE ShopOwners \ {t.user} # {}

OwnerInv ==
    /\ BaseInv
    /\ ShopOwners # {}
    /\ \A w, v \in Worker : Taking(w) => ~Making(v)
    /\ \A w \in Worker : Sure(w) /\ AsRead(w) /\ Counted(w)
    /\ \A w, v \in Worker : w # v => txn[w].held = {} \/ txn[v].held = {}

\* No other request is about the employee whom a request of kind `op` is about.
KeptApart(op) ==
    \A w, v \in Worker : w # v /\ txn[w].op = op /\ txn[v].op # "none" => txn[w].user # txn[v].user

\* Where a revocation moves the default branch, or that it may stay where it is.
HomeAsRead(w) ==
    LET t == txn[w] IN
    t.op = "revoke" =>
      /\ t.step \in Counting \cup {"rest"} => t.home = home[t.user]
      /\ t.step = "write" => IF home[t.user] = t.branch
                             THEN t.home \in BranchesOf(t.user) \ {t.branch}
                             ELSE t.home = None

EmployedInv ==
    /\ BaseInv
    /\ StaysEmployed
    /\ KeptApart("revoke")
    /\ \A w \in Worker : HomeAsRead(w)

-----------------------------------------------------------------------------
(* What the operators say *)

LEMMA Smallest ==
    ASSUME NEW n \in Nat, NEW S \in SUBSET (1 .. n), S # {}
    PROVE  \E i \in S : \A j \in S : i <= j
<1> DEFINE Up(i) == {j \in S : j <= i}
           Ups == {Up(i) : i \in S}
<1>0. IsFiniteSet(1 .. n) /\ \A i \in S : i \in Int
  BY FS_Interval
<1>1. IsFiniteSet(S)
  BY <1>0, FS_Subset
<1>2. IsWellFoundedOn(StrictSubsetOrdering(S), SUBSET S)
  BY <1>1, FS_StrictSubsetOrderingWellFounded, FS_FiniteSubsetsOfFinite
<1>3. Ups \subseteq SUBSET S /\ Ups # {}
  OBVIOUS
<1>4. PICK T \in Ups : \A U \in Ups : <<U, T>> \notin StrictSubsetOrdering(S)
  <2> HIDE DEF Ups
  <2> QED BY <1>2, <1>3, WFMin
<1>5. PICK i \in S : T = Up(i)
  BY <1>4
<1>6. ASSUME NEW j \in S, j < i PROVE FALSE
  <2>1. Up(j) \subseteq T /\ i \in T /\ i \notin Up(j) /\ Up(j) \in Ups
    <3>1. \A k \in S : k <= j => k <= i
      BY <1>0, <1>6
    <3>2. i <= i /\ ~(i <= j)
      BY <1>0, <1>6
    <3>3. Up(j) \in Ups
      OBVIOUS
    <3> QED BY <1>5, <3>1, <3>2, <3>3
  <2>2. <<Up(j), T>> \in StrictSubsetOrdering(S)
    <3> HIDE DEF Up
    <3> QED BY <1>3, <2>1 DEF StrictSubsetOrdering
  <2> QED BY <1>4, <2>1, <2>2
<1> QED BY <1>0, <1>6

LEMMA FreshRow ==
    ASSUME Unwritten # {}
    PROVE  (CHOOSE i \in Fresh(1) : TRUE) \in Unwritten
<1>1. Unwritten \in SUBSET (1 .. MaxRow) /\ MaxRow \in Nat
  BY BoundsAssumption DEF Unwritten, Row
<1>2. PICK i \in Unwritten : \A j \in Unwritten : i <= j
  BY <1>1, Smallest
<1>3. {j \in Unwritten : j < i} = {}
  <2>1. \A j \in Unwritten : j \in Int
    BY <1>1
  <2> QED BY <1>2, <2>1
<1>4. i \in Fresh(1)
  BY <1>2, <1>3, FS_EmptySet DEF Fresh
<1> QED BY <1>4 DEF Fresh

LEMMA NoneFacts ==
    /\ None \notin User /\ None \notin Branch /\ Idle \in Txn /\ NoRow \in RowRec
    /\ NoRow.user = None /\ NoRow.live = FALSE
    /\ \A u \in User, b \in Branch, r \in Role :
         Assignment(u, b, r) \in RowRec /\ Assignment(u, b, r).user = u /\ Assignment(u, b, r).branch = b
         /\ Assignment(u, b, r).role = r /\ Assignment(u, b, r).live
  BY IdsAssumption DEF Idle, Txn, NoRow, RowRec, Assignment

LEMMA RowFacts ==
    ASSUME TypeOK, NEW i \in Row
    PROVE  /\ row[i] \in RowRec
           /\ row[i].user \in User <=> row[i] # NoRow
           /\ row[i] # NoRow => row[i] \in [user : User, branch : Branch, role : Role, live : BOOLEAN]
           /\ row[i].live => row[i] # NoRow
  BY NoneFacts DEF TypeOK, RowRec, NoRow

LEMMA TxnType ==
    ASSUME TypeOK, NEW w \in Worker
    PROVE  /\ txn[w] \in Txn /\ txn[w].held \subseteq Row /\ txn[w].found \subseteq Row
           /\ txn[w].owned \subseteq Branch /\ txn[w].gets \subseteq User
           /\ txn[w].user \in User \cup {None} /\ txn[w].branch \in Branch \cup {None}
           /\ txn[w].at \in Row \cup {0}
           /\ txn[w].op \in Op \cup {"none"}
  BY DEF TypeOK, Txn

LEMMA OwnersFacts ==
    ASSUME TypeOK
    PROVE  /\ \A i \in OwnerRows : i \in Row /\ row[i] # NoRow /\ row[i].user \in User
           /\ ShopOwners \subseteq User
           /\ \A t : OwnerOfAll(t) \subseteq User
           /\ \A u : OwnedBy(u) \subseteq Branch
<1>1. \A i \in OwnerRows : i \in Row /\ row[i] # NoRow /\ row[i].user \in User
  BY RowFacts DEF OwnerRows
<1>2. \A u : OwnedBy(u) \subseteq Branch
  BY RowFacts DEF OwnedBy, Rows
<1> QED BY <1>1, <1>2 DEF ShopOwners, OwnerOfAll

-----------------------------------------------------------------------------
(* What any write leaves to the requests of other threads *)

\* Rows are not deleted, nor is what they assign.
Spared ==
    /\ \A i \in Row : row[i] # NoRow => row'[i].user = row[i].user /\ row'[i].branch = row[i].branch
    /\ \A u \in User : status[u] # "none" => status'[u] # "none"
    /\ Opened \subseteq Opened'

LEMMA OthersKeep ==
    ASSUME BaseInv, NEW v \in Worker, txn'[v] = txn[v], Spared
    PROVE  Named(v)'
<1>1. Named(v) /\ txn[v].at \in Row \cup {0} /\ txn[v].gets \subseteq User
  BY TxnType DEF BaseInv
<1>2. Begun(v)' <=> Begun(v)
  BY DEF Begun
<1>3. txn[v].at # 0 /\ row[txn[v].at].user \in User => row[txn[v].at] # NoRow
  BY <1>1, NoneFacts
<1>4. txn[v].op = "open" /\ txn[v].step = "write" => \A u \in txn[v].gets : status'[u] # "none"
  BY <1>1 DEF Named, Spared
<1> QED BY <1>1, <1>2, <1>3, <1>4 DEF Named, Spared

LEMMA SelfIdle ==
    ASSUME NEW w \in Worker, txn'[w] = Idle
    PROVE  Named(w)'
  BY DEF Named, Begun, Idle, Counting

(* A step that writes nothing but its own request. *)
LEMMA OwnStep ==
    ASSUME BaseInv, NEW w \in Worker, NEW t \in Txn, GoOn(w, t), UNCHANGED data, asked' \in 0 .. MaxAsked,
           Named(w)'
    PROVE  BaseInv'
<1>1. /\ txn' = [txn EXCEPT ![w] = t] /\ txn \in [Worker -> Txn]
      /\ UNCHANGED <<row, status, home, branch>>
  BY DEF GoOn, BaseInv, TypeOK, data
<1>2. TypeOK' /\ Worked'
  BY <1>1 DEF BaseInv, TypeOK, Worked
<1>3. Spared
  BY <1>1 DEF Spared, Opened
<1>4. ASSUME NEW v \in Worker PROVE Named(v)'
  BY <1>1, <1>3, OthersKeep
<1> QED BY <1>2, <1>3, <1>4 DEF BaseInv, Spared, First

LEMMA RefuseKeeps == ASSUME BaseInv, NEW w \in Worker, Refuse(w) PROVE BaseInv'
<1>1. txn \in [Worker -> Txn] /\ GoOn(w, Idle) /\ UNCHANGED <<data, asked>> /\ asked \in 0 .. MaxAsked
  BY DEF BaseInv, TypeOK, Refuse
<1>2. Idle \in Txn /\ txn'[w] = Idle
  BY <1>1, NoneFacts DEF GoOn
<1> QED BY <1>1, <1>2, SelfIdle, OwnStep

(* A write ends its request; what it may not touch is spared. *)
LEMMA WriteKeeps ==
    ASSUME BaseInv, NEW w \in Worker, GoOn(w, Idle), UNCHANGED asked, Spared, Worked',
           row' \in [Row -> RowRec], status' \in [User -> {"none", "active", "disabled"}],
           home' \in [User -> Branch \cup {None}], branch' \in [Branch -> {"none", "active", "inactive"}]
    PROVE  BaseInv'
<1>1. txn' = [txn EXCEPT ![w] = Idle] /\ txn \in [Worker -> Txn] /\ Idle \in Txn
  BY NoneFacts DEF GoOn, BaseInv, TypeOK
<1>2. TypeOK'
  BY <1>1 DEF BaseInv, TypeOK
<1>3. ASSUME NEW v \in Worker PROVE Named(v)'
  BY <1>1, OthersKeep, SelfIdle
<1> QED BY <1>2, <1>3 DEF BaseInv, Spared, First

-----------------------------------------------------------------------------
(* What each step that only reads goes on with *)

\* w's request goes on as s, about what it was about.
Turns(w, s) ==
    /\ s \in Txn /\ GoOn(w, s) /\ UNCHANGED <<data, asked>>
    /\ s.op = txn[w].op /\ s.user = txn[w].user /\ s.branch = txn[w].branch /\ s.role = txn[w].role

LEMMA Turned ==
    ASSUME BaseInv, NEW w \in Worker, NEW s, Turns(w, s)
    PROVE  /\ txn'[w] = s /\ \A v \in Worker \ {w} : txn'[v] = txn[v]
           /\ UNCHANGED <<row, status, home, branch, asked>> /\ asked \in 0 .. MaxAsked
  BY DEF Turns, GoOn, data, BaseInv, TypeOK

(* A step that names nothing new keeps the base invariant. *)
LEMMA TurnKeeps ==
    ASSUME BaseInv, NEW w \in Worker, NEW s, Turns(w, s),
           s.step # "read", s.step \in Counting => Takes(s.op, s.role),
           s.step = "rest" => s.op \in {"revoke", "close"},
           s.op = "open" => /\ s.owned = {} /\ s.step # "rights"
                            /\ s.step \in {"look", "lock"} => s.ids # {}
                            /\ s.step = "write" => \A u \in s.gets : status[u] # "none",
           s.op \in {"role", "revoke"} /\ s.step # "idle" =>
             IF s.at = 0 THEN s.op = "role" /\ s.was = "none"
             ELSE row[s.at].user = s.user /\ row[s.at].branch = s.branch
    PROVE  BaseInv'
<1>1. /\ txn'[w] = s /\ UNCHANGED <<row, status, home, branch, asked>> /\ asked \in 0 .. MaxAsked
      /\ s \in Txn /\ GoOn(w, s) /\ UNCHANGED data /\ Named(w)
  BY Turned DEF Turns, BaseInv
<1>2. Named(w)'
  BY <1>1 DEF Turns, Named, Begun, Opened
<1> QED BY <1>1, <1>2, OwnStep

\* w's request has just come in.
Came(w) ==
    /\ UNCHANGED data /\ \A v \in Worker \ {w} : txn'[v] = txn[v]
    /\ Together(txn'[w].op, txn'[w].user) /\ (MadeMeanwhile \/ Unmixed(txn'[w].op, txn'[w].role))
    /\ txn'[w].step = "read" \/ (txn'[w].step = "branches" /\ txn'[w].op = "open")
    /\ txn'[w].held = {} /\ txn'[w].ids = {} /\ txn'[w].owned = {} /\ txn'[w].was = "none"

LEMMA AskKeeps ==
    ASSUME BaseInv, NEW w \in Worker, NEW op \in Op, NEW a, NEW u \in User \cup {None},
           NEW b \in Branch \cup {None}, NEW role \in Role \cup {"none"}, Ask(w, op, a, u, b, role),
           asked < MaxAsked, op \in {"role", "revoke", "hire", "open"} => u \in User /\ b \in Branch,
           op \in {"role", "hire"} => role \in Role, op \notin {"role", "hire"} => role = "none",
           op \in {"role", "revoke", "disable", "enable", "open"} => u \in User /\ status[u] # "none",
           op \in {"activate", "close"} => b \in Opened
    PROVE  BaseInv' /\ Came(w)
<1> DEFINE t == [Idle EXCEPT !.op = op, !.step = IF op = "open" THEN "branches" ELSE "read",
                             !.owns = Manages(a), !.user = u, !.branch = b, !.role = role]
<1>1. Manages(a) \subseteq Branch
  BY OwnersFacts DEF Manages, BaseInv
<1>2. /\ t \in Txn /\ t.op = op /\ t.step = (IF op = "open" THEN "branches" ELSE "read") /\ t.user = u
      /\ t.branch = b /\ t.role = role /\ t.held = {} /\ t.ids = {} /\ t.owned = {} /\ t.was = "none"
  <2>1. CASE op = "open"
    BY <1>1, <2>1 DEF Idle, Txn
  <2>2. CASE op # "open"
    BY <1>1, <2>2 DEF Idle, Txn
  <2> QED BY <2>1, <2>2
<1>3. /\ GoOn(w, t) /\ UNCHANGED data /\ asked' = asked + 1 /\ asked < MaxAsked
      /\ Together(op, u) /\ (MadeMeanwhile \/ Unmixed(op, role))
      /\ asked \in 0 .. MaxAsked /\ txn \in [Worker -> Txn]
  BY DEF Ask, BaseInv, TypeOK
<1> HIDE DEF t
<1>4. /\ txn'[w] = t /\ UNCHANGED <<status, branch>> /\ asked' \in 0 .. MaxAsked
      /\ \A v \in Worker \ {w} : txn'[v] = txn[v]
  BY <1>3, BoundsAssumption DEF GoOn, data
<1>5. Named(w)'
  BY <1>2, <1>4 DEF Named, Begun, Opened, Counting, Takes
<1>6. BaseInv'
  BY <1>2, <1>3, <1>4, <1>5, OwnStep
<1> QED BY <1>2, <1>3, <1>4, <1>6 DEF Came

LEMMA AskForKeeps ==
    ASSUME BaseInv, NEW w \in Worker, AskFor(w)
    PROVE  BaseInv' /\ Came(w)
<1> USE DEF Op, Opened
<1>0. asked < MaxAsked
  BY DEF AskFor
<1>1. PICK a \in User :
        /\ status[a] = "active"
        /\ \/ \E u \in User, b \in Opened, role \in Role : status[u] # "none" /\ Ask(w, "role", a, u, b, role)
           \/ \E u \in User, b \in Opened : status[u] # "none" /\ Ask(w, "revoke", a, u, b, "none")
           \/ \E u \in User, op \in {"disable", "enable"} : status[u] # "none" /\ Ask(w, op, a, u, None, "none")
           \/ \E u \in User, b \in Opened, role \in Role : Ask(w, "hire", a, u, b, role)
           \/ \E b \in Branch \ Opened : Ask(w, "open", a, a, b, "none")
           \/ \E b \in Opened, op \in {"activate", "close"} : Ask(w, op, a, None, b, "none")
  BY DEF AskFor
<1>2. CASE \E u \in User, b \in Opened, role \in Role : status[u] # "none" /\ Ask(w, "role", a, u, b, role)
  <2>1. PICK u \in User, b \in Opened, role \in Role : status[u] # "none" /\ Ask(w, "role", a, u, b, role)
    BY <1>2
  <2> QED BY <1>0, <2>1, AskKeeps
<1>3. CASE \E u \in User, b \in Opened : status[u] # "none" /\ Ask(w, "revoke", a, u, b, "none")
  BY <1>0, <1>3, AskKeeps
<1>4. CASE \E u \in User, op \in {"disable", "enable"} : status[u] # "none" /\ Ask(w, op, a, u, None, "none")
  BY <1>0, <1>4, AskKeeps
<1>5. CASE \E u \in User, b \in Opened, role \in Role : Ask(w, "hire", a, u, b, role)
  <2>1. PICK u \in User, b \in Opened, role \in Role : Ask(w, "hire", a, u, b, role)
    BY <1>5
  <2> QED BY <1>0, <2>1, AskKeeps
<1>6. CASE \E b \in Branch \ Opened : Ask(w, "open", a, a, b, "none")
  <2>1. PICK b \in Branch \ Opened : Ask(w, "open", a, a, b, "none")
    BY <1>6
  <2>2. status[a] # "none"
    BY <1>1
  <2> QED BY <1>0, <2>1, <2>2, AskKeeps
<1>7. CASE \E b \in Opened, op \in {"activate", "close"} : Ask(w, op, a, None, b, "none")
  BY <1>0, <1>7, AskKeeps
<1> QED BY <1>1, <1>2, <1>3, <1>4, <1>5, <1>6, <1>7

LEMMA ReadAssignmentStep ==
    ASSUME BaseInv, NEW w \in Worker, ReadAssignment(w)
    PROVE  LET t == txn[w] IN
           /\ t.op \in {"role", "revoke"} /\ t.held = {}
           /\ \/ Refuse(w)
              \/ \E s : /\ Turns(w, s) /\ s.home = home[t.user] /\ s.held = {} /\ s.ids = t.ids
                        /\ IF s.at = 0 THEN t.op = "role" /\ s.was = "none"
                           ELSE /\ row[s.at].user = t.user /\ row[s.at].branch = t.branch
                                /\ s.was = row[s.at].role
                        /\ IF Unseats(s) THEN s.step = "rights" /\ s.owned = {t.branch}
                           ELSE s.step = IF t.op = "revoke" THEN "rest" ELSE "write"
<1> DEFINE t == txn[w]
           bad == \/ t.op = "role" /\ branch[t.branch] # "active"
                  \/ t.op = "revoke" /\ RowsIn(t.user, t.branch) = {}
           ats == IF RowsIn(t.user, t.branch) = {} THEN {0} ELSE RowsIn(t.user, t.branch)
           read(i) == [t EXCEPT !.at = i, !.home = home[t.user], !.was = IF i = 0 THEN "none" ELSE row[i].role]
           next(r) == IF Unseats(r) THEN [r EXCEPT !.step = "rights", !.owned = {t.branch}]
                      ELSE [r EXCEPT !.step = IF t.op = "revoke" THEN "rest" ELSE "write"]
<1>1. /\ t \in Txn /\ Named(w) /\ t.step = "read" /\ t.op \in {"role", "revoke"}
      /\ TypeOK /\ txn \in [Worker -> Txn] /\ t.user \in User /\ t.branch \in Branch /\ t.held = {}
  BY TxnType DEF BaseInv, ReadAssignment, TypeOK, Named
<1>2. CASE bad
  BY <1>1, <1>2 DEF ReadAssignment
<1>3. CASE ~bad
  <2>1. PICK i \in ats : GoOn(w, next(read(i)))
    BY <1>3 DEF ReadAssignment
  <2>2. UNCHANGED <<data, asked>>
    BY <1>3 DEF ReadAssignment
  <2>3. /\ i \in Row \cup {0}
        /\ IF i = 0 THEN t.op = "role"
           ELSE i \in Row /\ row[i].live /\ row[i].user = t.user /\ row[i].branch = t.branch
    BY <1>1, <1>3 DEF RowsIn, Rows, Row
  <2>4. PICK was \in Role \cup {"none"} : was = IF i = 0 THEN "none" ELSE row[i].role
    BY <1>1, <2>3, RowFacts DEF TypeOK
  <2>5. PICK r : r = read(i)
    OBVIOUS
  <2>6. home[t.user] \in Branch \cup {None}
    BY <1>1 DEF TypeOK
  <2>7. /\ r \in Txn /\ r.op = t.op /\ r.user = t.user /\ r.branch = t.branch /\ r.role = t.role
        /\ r.at = i /\ r.home = home[t.user] /\ r.was = was /\ r.held = t.held /\ r.ids = t.ids
    <3>1. r = [t EXCEPT !.at = i, !.home = home[t.user], !.was = was]
      BY <2>4, <2>5
    <3> QED BY <1>1, <2>3, <2>6, <3>1 DEF Txn
  <2> HIDE DEF read
  <2>8. PICK s : s = next(r)
    OBVIOUS
  <2>9. CASE Unseats(r)
    <3>1. s = [r EXCEPT !.step = "rights", !.owned = {t.branch}]
      BY <2>8, <2>9
    <3>2. /\ s \in Txn /\ s.op = r.op /\ s.user = r.user /\ s.branch = r.branch /\ s.role = r.role
          /\ s.at = r.at /\ s.home = r.home /\ s.was = r.was /\ s.held = r.held /\ s.ids = r.ids
          /\ s.step = "rights" /\ s.owned = {t.branch}
      BY <1>1, <2>7, <3>1 DEF Txn
    <3>3. Turns(w, s) /\ Unseats(s)
      BY <2>1, <2>2, <2>5, <2>7, <2>8, <2>9, <3>2 DEF Turns, Unseats
    <3> QED BY <1>1, <2>3, <2>4, <2>7, <3>2, <3>3
  <2>10. CASE ~Unseats(r)
    <3>1. PICK p \in {"rest", "write"} : p = IF t.op = "revoke" THEN "rest" ELSE "write"
      OBVIOUS
    <3>2. s = [r EXCEPT !.step = p]
      BY <2>8, <2>10, <3>1
    <3>3. /\ s \in Txn /\ s.op = r.op /\ s.user = r.user /\ s.branch = r.branch /\ s.role = r.role
          /\ s.at = r.at /\ s.home = r.home /\ s.was = r.was /\ s.held = r.held /\ s.ids = r.ids
          /\ s.step = p
      BY <2>7, <3>2 DEF Txn
    <3>4. Turns(w, s) /\ ~Unseats(s)
      BY <2>1, <2>2, <2>5, <2>7, <2>8, <2>10, <3>3 DEF Turns, Unseats
    <3> QED BY <1>1, <2>3, <2>4, <2>7, <3>1, <3>3, <3>4
  <2> QED BY <2>9, <2>10
<1> QED BY <1>2, <1>3

LEMMA ReadEmployeeStep ==
    ASSUME BaseInv, NEW w \in Worker, ReadEmployee(w)
    PROVE  LET t == txn[w] IN
           /\ t.op \in {"disable", "enable"} /\ t.held = {}
           /\ \/ Refuse(w)
              \/ \E s : /\ Turns(w, s) /\ s.held = {} /\ s.ids = t.ids
                        /\ s.owned = (IF t.op = "disable" THEN OwnedBy(t.user) ELSE {})
                        /\ s.step = IF s.owned = {} THEN "write" ELSE "look"
<1> DEFINE t == txn[w]
<1>1. /\ t \in Txn /\ Named(w) /\ t.step = "read" /\ t.op \in {"disable", "enable"}
      /\ TypeOK /\ txn \in [Worker -> Txn] /\ t.user \in User /\ t.held = {}
  BY TxnType DEF BaseInv, ReadEmployee, TypeOK, Named
<1>2. CASE ~(BranchesOf(t.user) \subseteq t.owns)
  BY <1>1, <1>2 DEF ReadEmployee
<1>3. CASE BranchesOf(t.user) \subseteq t.owns
  <2>1. PICK o \in SUBSET Branch : o = IF t.op = "disable" THEN OwnedBy(t.user) ELSE {}
    BY <1>1, OwnersFacts
  <2>2. PICK p \in {"write", "look"} : p = IF o = {} THEN "write" ELSE "look"
    OBVIOUS
  <2>3. status[t.user] \in {"active", "disabled"}
    BY <1>1 DEF Named, TypeOK
  <2>4. PICK s : s = [t EXCEPT !.step = p, !.owned = o, !.loaded = status[t.user]]
    OBVIOUS
  <2>5. GoOn(w, s) /\ UNCHANGED <<data, asked>>
    BY <1>3, <2>1, <2>2, <2>4 DEF ReadEmployee
  <2>6. /\ s \in Txn /\ s.op = t.op /\ s.step = p /\ s.user = t.user /\ s.owned = o
        /\ s.branch = t.branch /\ s.role = t.role /\ s.held = t.held /\ s.ids = t.ids
    BY ZenonT(60), <1>1, <2>3, <2>4 DEF Txn
  <2>7. Turns(w, s)
    BY <2>5, <2>6 DEF Turns
  <2> QED BY <1>1, <2>1, <2>2, <2>6, <2>7
<1> QED BY <1>2, <1>3

LEMMA ReadUsernameStep ==
    ASSUME BaseInv, NEW w \in Worker, ReadUsername(w)
    PROVE  /\ txn[w].op = "hire" /\ txn[w].held = {}
           /\ \/ Refuse(w)
              \/ \E s : Turns(w, s) /\ s.step = "write" /\ s.held = {} /\ s.ids = txn[w].ids /\ s.was = txn[w].was
<1> DEFINE t == txn[w]
<1>1. t \in Txn /\ t.op = "hire" /\ t.held = {}
  BY TxnType DEF BaseInv, ReadUsername, Named
<1>2. PICK s : s = [t EXCEPT !.step = "write"]
  OBVIOUS
<1>3. /\ s \in Txn /\ s.op = t.op /\ s.step = "write" /\ s.user = t.user /\ s.branch = t.branch
      /\ s.role = t.role /\ s.held = t.held /\ s.ids = t.ids /\ s.was = t.was
  BY <1>1, <1>2 DEF Txn
<1>4. Refuse(w) \/ (GoOn(w, s) /\ UNCHANGED <<data, asked>>)
  BY <1>2 DEF ReadUsername, NextStep
<1> QED BY <1>1, <1>3, <1>4 DEF Turns

LEMMA ReadBranchStep ==
    ASSUME BaseInv, NEW w \in Worker, ReadBranch(w)
    PROVE  /\ txn[w].op \in {"activate", "close"} /\ txn[w].held = {}
           /\ \E s : /\ Turns(w, s) /\ s.step = (IF txn[w].op = "activate" THEN "write" ELSE "rest")
                     /\ s.held = {} /\ s.ids = txn[w].ids
<1> DEFINE t == txn[w]
<1>1. /\ t \in Txn /\ Named(w) /\ t.step = "read" /\ t.op \in {"activate", "close"}
      /\ TypeOK /\ t.branch \in Opened /\ t.held = {}
  BY TxnType DEF BaseInv, ReadBranch, TypeOK, Named
<1>2. PICK p \in {"write", "rest"} : p = IF t.op = "activate" THEN "write" ELSE "rest"
  OBVIOUS
<1>3. branch[t.branch] \in {"active", "inactive"}
  BY <1>1 DEF Opened, TypeOK
<1>4. PICK s : s = [t EXCEPT !.step = p, !.loaded = branch[t.branch]]
  OBVIOUS
<1>5. GoOn(w, s) /\ UNCHANGED <<data, asked>>
  BY <1>2, <1>4 DEF ReadBranch
<1>6. /\ s \in Txn /\ s.op = t.op /\ s.step = p /\ s.user = t.user /\ s.branch = t.branch
      /\ s.role = t.role /\ s.held = t.held /\ s.ids = t.ids
  BY ZenonT(60), <1>1, <1>3, <1>4 DEF Txn
<1>7. Turns(w, s)
  BY <1>5, <1>6 DEF Turns
<1> QED BY <1>1, <1>2, <1>6, <1>7

LEMMA HasRightsStep ==
    ASSUME BaseInv, NEW w \in Worker, HasRights(w)
    PROVE  LET t == txn[w] IN
           /\ t.step = "rights"
           /\ \/ Refuse(w)
              \/ \E s : /\ Turns(w, s) /\ s.step = "look" /\ s.home = t.home /\ s.at = t.at /\ s.was = t.was
                        /\ s.owned = t.owned /\ s.held = t.held /\ s.ids = t.ids
<1> DEFINE t == txn[w]
<1>1. t \in Txn /\ t.step = "rights"
  BY TxnType DEF BaseInv, HasRights
<1>2. PICK s : s = [t EXCEPT !.step = "look"]
  OBVIOUS
<1>3. /\ s \in Txn /\ s.op = t.op /\ s.step = "look" /\ s.user = t.user /\ s.branch = t.branch
      /\ s.role = t.role /\ s.at = t.at /\ s.was = t.was /\ s.home = t.home
      /\ s.owned = t.owned /\ s.held = t.held /\ s.ids = t.ids
  BY <1>1, <1>2 DEF Txn
<1>4. Refuse(w) \/ (GoOn(w, s) /\ UNCHANGED <<data, asked>>)
  BY <1>2 DEF HasRights, NextStep
<1> QED BY <1>1, <1>3, <1>4 DEF Turns

LEMMA ReadBranchesStep ==
    ASSUME BaseInv, NEW w \in Worker, ReadBranches(w)
    PROVE  LET t == txn[w] IN
           /\ t.step = "branches"
           /\ \E s : /\ Turns(w, s) /\ s.step = "look" /\ s.home = t.home /\ s.at = t.at /\ s.was = t.was
                     /\ s.owned = t.owned /\ s.held = t.held /\ s.ids = Opened
<1> DEFINE t == txn[w]
<1>1. t \in Txn /\ t.step = "branches" /\ Opened \subseteq Branch
  BY TxnType DEF BaseInv, ReadBranches, Opened
<1>2. PICK s : s = [t EXCEPT !.step = "look", !.ids = Opened]
  OBVIOUS
<1>3. /\ s \in Txn /\ s.op = t.op /\ s.step = "look" /\ s.user = t.user /\ s.branch = t.branch
      /\ s.role = t.role /\ s.at = t.at /\ s.was = t.was /\ s.home = t.home
      /\ s.owned = t.owned /\ s.held = t.held /\ s.ids = Opened
  BY <1>1, <1>2 DEF Txn
<1>4. GoOn(w, s) /\ UNCHANGED <<data, asked>>
  BY <1>2 DEF ReadBranches
<1> QED BY <1>1, <1>3, <1>4 DEF Turns

LEMMA LookStep ==
    ASSUME BaseInv, NEW w \in Worker, LookForOwners(w)
    PROVE  LET t == txn[w] IN
           /\ t.step = "look"
           /\ \E s : /\ Turns(w, s) /\ s.step = "lock" /\ s.home = t.home /\ s.at = t.at /\ s.was = t.was
                     /\ s.owned = t.owned /\ s.held = t.held /\ s.ids = t.ids /\ s.found = OwnerRows
<1> DEFINE t == txn[w]
<1>1. t \in Txn /\ t.step = "look" /\ OwnerRows \subseteq Row
  BY TxnType DEF BaseInv, LookForOwners, OwnerRows
<1>2. PICK s : s = [t EXCEPT !.step = "lock", !.found = OwnerRows]
  OBVIOUS
<1>3. /\ s \in Txn /\ s.op = t.op /\ s.step = "lock" /\ s.user = t.user /\ s.branch = t.branch
      /\ s.role = t.role /\ s.at = t.at /\ s.was = t.was /\ s.home = t.home
      /\ s.owned = t.owned /\ s.held = t.held /\ s.ids = t.ids /\ s.found = OwnerRows
  BY <1>1, <1>2 DEF Txn
<1>4. GoOn(w, s) /\ UNCHANGED <<data, asked>>
  BY <1>2 DEF LookForOwners
<1> QED BY <1>1, <1>3, <1>4 DEF Turns

LEMMA LockedType ==
    ASSUME BaseInv, NEW w \in Worker
    PROVE  LET t == txn[w]
               l == Locked(t) IN
           /\ l \in Txn /\ l.op = t.op /\ l.user = t.user /\ l.branch = t.branch /\ l.role = t.role
           /\ l.home = t.home /\ l.at = t.at /\ l.was = t.was
           /\ l.owned = t.owned /\ l.ids = t.ids /\ l.held = t.held \cup t.found
<1> DEFINE t == txn[w]
<1>1. t \in Txn
  BY TxnType DEF BaseInv
<1>2. PICK h \in SUBSET Row : h = t.held \cup t.found
  BY <1>1 DEF Txn
<1>3. PICK l : l = [t EXCEPT !.held = h, !.found = {}]
  OBVIOUS
<1>4. /\ l \in Txn /\ l.op = t.op /\ l.user = t.user /\ l.branch = t.branch /\ l.role = t.role
      /\ l.home = t.home /\ l.at = t.at /\ l.was = t.was
      /\ l.owned = t.owned /\ l.ids = t.ids /\ l.held = h
  BY <1>1, <1>3 DEF Txn
<1> QED BY <1>2, <1>3, <1>4 DEF Locked

LEMMA CountBranchStep ==
    ASSUME BaseInv, NEW w \in Worker, CountBranch(w)
    PROVE  LET t == txn[w] IN
           /\ Locks(w) /\ t.op # "open" /\ t.owned # {}
           /\ \/ Refuse(w)
              \/ \E s : /\ Turns(w, s) /\ s.home = t.home /\ s.at = t.at /\ s.was = t.was
                        /\ s.held = t.held \cup t.found /\ s.ids = t.ids
                        /\ s.step = IF s.owned = {} THEN "branches" ELSE "look"
<1> DEFINE t == txn[w]
           l == Locked(t)
<1>1. /\ t \in Txn /\ l \in Txn /\ l.op = t.op /\ l.user = t.user /\ l.branch = t.branch /\ l.role = t.role
      /\ l.home = t.home /\ l.at = t.at /\ l.was = t.was /\ l.owned = t.owned /\ l.ids = t.ids
      /\ l.held = t.held \cup t.found /\ Named(w)
  BY LockedType, TxnType DEF BaseInv
<1>2. PICK b \in t.owned :
        \/ Refuse(w)
        \/ /\ GoOn(w, [l EXCEPT !.step = IF t.owned = {b} THEN "branches" ELSE "look",
                                !.owned = t.owned \ {b}])
           /\ UNCHANGED <<data, asked>>
  BY DEF CountBranch
<1>3. PICK p \in {"branches", "look"} : p = IF t.owned = {b} THEN "branches" ELSE "look"
  OBVIOUS
<1>4. PICK o \in SUBSET Branch : o = t.owned \ {b}
  BY <1>1 DEF Txn
<1> HIDE DEF l
<1>5. PICK s : s = [l EXCEPT !.step = p, !.owned = o]
  OBVIOUS
<1>6. /\ s \in Txn /\ s.op = l.op /\ s.step = p /\ s.user = l.user /\ s.branch = l.branch
      /\ s.role = l.role /\ s.at = l.at /\ s.was = l.was /\ s.home = l.home
      /\ s.owned = o /\ s.held = l.held /\ s.ids = l.ids
  <2>1. l \in Txn
    BY <1>1
  <2> HIDE DEF t
  <2> QED BY ZenonT(60), <2>1, <1>5 DEF Txn
<1>7. Refuse(w) \/ Turns(w, s)
  BY <1>1, <1>2, <1>3, <1>4, <1>5, <1>6 DEF Turns
<1>8. p = IF o = {} THEN "branches" ELSE "look"
  BY <1>2, <1>3, <1>4
<1>9. Locks(w) /\ t.op # "open" /\ t.owned # {}
  BY <1>1, <1>2 DEF CountBranch, Named
<1> QED BY <1>1, <1>6, <1>7, <1>8, <1>9

LEMMA CountShopStep ==
    ASSUME BaseInv, NEW w \in Worker, CountShop(w)
    PROVE  LET t == txn[w] IN
           /\ Locks(w) /\ t.op # "open" /\ t.owned = {}
           /\ \/ Refuse(w)
              \/ /\ OwnerOfAll(t) # {} => OwnerOfAll(t) \ {t.user} # {}
                 /\ \E s : /\ Turns(w, s) /\ s.home = t.home /\ s.at = t.at /\ s.was = t.was
                           /\ s.held = t.held \cup t.found /\ s.ids = t.ids
                           /\ s.step = IF t.op = "revoke" THEN "rest" ELSE "write"
<1> DEFINE t == txn[w]
           l == Locked(t)
<1>1. /\ t \in Txn /\ l \in Txn /\ l.op = t.op /\ l.user = t.user /\ l.branch = t.branch /\ l.role = t.role
      /\ l.home = t.home /\ l.at = t.at /\ l.was = t.was /\ l.owned = t.owned /\ l.ids = t.ids
      /\ l.held = t.held \cup t.found
  BY LockedType, TxnType DEF BaseInv
<1>2. PICK p \in {"rest", "write"} : p = IF t.op = "revoke" THEN "rest" ELSE "write"
  OBVIOUS
<1>3. /\ Locks(w) /\ t.op # "open" /\ t.owned = {}
      /\ \/ Refuse(w)
         \/ /\ OwnerOfAll(t) # {} => OwnerOfAll(t) \ {t.user} # {}
            /\ GoOn(w, [l EXCEPT !.step = p]) /\ UNCHANGED <<data, asked>>
  BY <1>2 DEF CountShop
<1> HIDE DEF l
<1>4. PICK s : s = [l EXCEPT !.step = p]
  OBVIOUS
<1>5. /\ s \in Txn /\ s.op = l.op /\ s.step = p /\ s.user = l.user /\ s.branch = l.branch
      /\ s.role = l.role /\ s.at = l.at /\ s.was = l.was /\ s.home = l.home
      /\ s.held = l.held /\ s.ids = l.ids
  BY <1>1, <1>4 DEF Txn
<1>6. Refuse(w) \/ (Turns(w, s) /\ (OwnerOfAll(t) # {} => OwnerOfAll(t) \ {t.user} # {}))
  BY <1>1, <1>3, <1>4, <1>5 DEF Turns
<1> QED BY <1>1, <1>2, <1>3, <1>5, <1>6

LEMMA ShareStep ==
    ASSUME BaseInv, NEW w \in Worker, ShareBranch(w)
    PROVE  LET t == txn[w] IN
           /\ Locks(w) /\ t.op = "open"
           /\ \E s : /\ Turns(w, s) /\ s.held = t.held \cup t.found /\ s.ids = t.ids /\ s.owned = t.owned
                     /\ s.step = "write" /\ s.gets = OwnerOfAll(t) \cup {t.user}
<1> DEFINE t == txn[w]
           l == Locked(t)
<1>1. /\ t \in Txn /\ l \in Txn /\ l.op = t.op /\ l.user = t.user /\ l.branch = t.branch /\ l.role = t.role
      /\ l.owned = t.owned /\ l.ids = t.ids /\ l.held = t.held \cup t.found
      /\ Locks(w) /\ t.op = "open" /\ t.user \in User
  BY LockedType, TxnType DEF BaseInv, Named, ShareBranch
<1>2. PICK g \in SUBSET User : g = OwnerOfAll(t) \cup {t.user}
  BY <1>1, OwnersFacts DEF BaseInv
<1>3. GoOn(w, [l EXCEPT !.step = "write", !.gets = g]) /\ UNCHANGED <<data, asked>>
  BY <1>2 DEF ShareBranch
<1> HIDE DEF l
<1>4. PICK s : s = [l EXCEPT !.step = "write", !.gets = g]
  OBVIOUS
<1>5. /\ s \in Txn /\ s.op = l.op /\ s.step = "write" /\ s.user = l.user /\ s.branch = l.branch
      /\ s.role = l.role /\ s.held = l.held /\ s.ids = l.ids /\ s.owned = l.owned /\ s.gets = g
  BY <1>1, <1>4 DEF Txn
<1>6. Turns(w, s)
  BY <1>1, <1>3, <1>4, <1>5 DEF Turns
<1> QED BY <1>1, <1>2, <1>5, <1>6

LEMMA NewHomeType ==
    ASSUME TypeOK, NEW t \in Txn, Remains(t)
    PROVE  /\ NewHome(t) \in Branch \cup {None}
           /\ t.op = "revoke" /\ t.home = t.branch => NewHome(t) \in BranchesOf(t.user) \ {t.branch}
           /\ ~(t.op = "revoke" /\ t.home = t.branch) => NewHome(t) = None
<1>1. CASE t.op = "revoke" /\ t.home = t.branch
  <2> DEFINE left == {i \in Rows(t.user) : row[i].branch # t.branch}
  <2>1. left \in SUBSET (1 .. MaxRow) /\ left # {} /\ MaxRow \in Nat
    BY <1>1, BoundsAssumption DEF Remains, BranchesOf, Rows, Row
  <2>2. PICK i \in left : i = CHOOSE k \in left : \A j \in left : k <= j
    <3>1. \E k \in left : \A j \in left : k <= j
      BY <2>1, Smallest
    <3> HIDE DEF left
    <3> QED BY <3>1
  <2>3. NewHome(t) = row[i].branch
    BY <1>1, <2>2 DEF NewHome
  <2>4. row[i].branch \in BranchesOf(t.user) \ {t.branch} /\ row[i].branch \in Branch
    BY RowFacts DEF BranchesOf, Rows
  <2> QED BY <1>1, <2>3, <2>4
<1>2. CASE ~(t.op = "revoke" /\ t.home = t.branch)
  BY <1>2 DEF NewHome
<1> QED BY <1>1, <1>2

LEMMA ReadRestStep ==
    ASSUME BaseInv, NEW w \in Worker, ReadRest(w)
    PROVE  LET t == txn[w] IN
           /\ t.step = "rest" /\ t.op \in {"revoke", "close"}
           /\ \/ Refuse(w)
              \/ /\ Remains(t)
                 /\ \E s : /\ Turns(w, s) /\ s.home = NewHome(t) /\ s.at = t.at /\ s.was = t.was
                           /\ s.held = t.held /\ s.ids = t.ids /\ s.step = "write"
<1> DEFINE t == txn[w]
<1>1. t \in Txn /\ t.step = "rest" /\ TypeOK /\ t.op \in {"revoke", "close"}
  BY TxnType DEF BaseInv, ReadRest, Named
<1>2. CASE ~Remains(t)
  BY <1>1, <1>2 DEF ReadRest
<1>3. CASE Remains(t)
  <2>1. PICK h \in Branch \cup {None} : h = NewHome(t)
    BY <1>1, <1>3, NewHomeType
  <2>2. GoOn(w, [t EXCEPT !.step = "write", !.home = h]) /\ UNCHANGED <<data, asked>>
    BY <1>3, <2>1 DEF ReadRest
  <2>3. PICK s : s = [t EXCEPT !.step = "write", !.home = h]
    OBVIOUS
  <2>4. /\ s \in Txn /\ s.op = t.op /\ s.step = "write" /\ s.user = t.user /\ s.branch = t.branch
        /\ s.role = t.role /\ s.at = t.at /\ s.was = t.was /\ s.home = h
        /\ s.held = t.held /\ s.ids = t.ids
    BY <1>1, <2>3 DEF Txn
  <2>5. Turns(w, s)
    BY <2>2, <2>3, <2>4 DEF Turns
  <2> QED BY <1>1, <1>3, <2>1, <2>4, <2>5
<1> QED BY <1>2, <1>3

\* The steps of a request that only read, and count under locks.
Reads(w) ==
    \/ ReadAssignment(w) \/ ReadEmployee(w) \/ ReadUsername(w) \/ ReadBranch(w)
    \/ HasRights(w) \/ ReadBranches(w) \/ LookForOwners(w)
    \/ CountBranch(w) \/ CountShop(w) \/ ShareBranch(w) \/ ReadRest(w)

LEMMA ReadKeeps == ASSUME BaseInv, NEW w \in Worker, Reads(w) PROVE BaseInv'
<1> DEFINE t == txn[w]
<1>1. Named(w) /\ t \in Txn
  BY TxnType DEF BaseInv
<1>2. CASE Refuse(w)
  BY <1>2, RefuseKeeps
<1>3. CASE ~Refuse(w)
  <2>1. CASE ReadAssignment(w)
    <3>1. PICK s : /\ Turns(w, s)
                   /\ IF s.at = 0 THEN t.op = "role" /\ s.was = "none"
                      ELSE /\ row[s.at].user = t.user /\ row[s.at].branch = t.branch
                           /\ s.was = row[s.at].role
                   /\ IF Unseats(s) THEN s.step = "rights" /\ s.owned = {t.branch}
                      ELSE s.step = IF t.op = "revoke" THEN "rest" ELSE "write"
      BY <1>3, <2>1, ReadAssignmentStep
    <3>2. t.op \in {"role", "revoke"}
      BY <2>1, ReadAssignmentStep
    <3> QED BY <1>1, <3>1, <3>2, TurnKeeps DEF Turns, Takes, Unseats, Counting
  <2>2. CASE ReadEmployee(w)
    <3>1. PICK s : /\ Turns(w, s) /\ s.owned = (IF t.op = "disable" THEN OwnedBy(t.user) ELSE {})
                   /\ s.step = IF s.owned = {} THEN "write" ELSE "look"
      BY <1>3, <2>2, ReadEmployeeStep
    <3>2. t.op \in {"disable", "enable"}
      BY <2>2, ReadEmployeeStep
    <3>3. s.op = t.op /\ s.role = t.role /\ s.user = t.user /\ s.branch = t.branch
      BY <3>1 DEF Turns
    <3>4. s.step \in Counting => Takes(s.op, s.role)
      BY <3>1, <3>2, <3>3 DEF Counting, Takes
    <3>5. s.step \in {"write", "look"}
      BY <3>1
    <3> HIDE DEF t
    <3> QED BY <3>1, <3>2, <3>3, <3>4, <3>5, TurnKeeps
  <2>3. CASE ReadUsername(w)
    <3>1. t.op = "hire" /\ \E s : Turns(w, s) /\ s.step = "write"
      BY <1>3, <2>3, ReadUsernameStep
    <3> QED BY <3>1, TurnKeeps DEF Turns, Counting
  <2>4. CASE ReadBranch(w)
    <3>1. /\ t.op \in {"activate", "close"}
          /\ \E s : Turns(w, s) /\ s.step = (IF t.op = "activate" THEN "write" ELSE "rest")
      BY <2>4, ReadBranchStep
    <3> QED BY <3>1, TurnKeeps DEF Turns, Counting
  <2>5. CASE HasRights(w)
    <3>1. /\ t.step = "rights"
          /\ \E s : Turns(w, s) /\ s.step = "look" /\ s.at = t.at /\ s.was = t.was /\ s.owned = t.owned
      BY <1>3, <2>5, HasRightsStep
    <3> QED BY <1>1, <3>1, TurnKeeps DEF Turns, Named, Begun, Counting
  <2>6. CASE ReadBranches(w)
    <3>1. PICK s : /\ Turns(w, s) /\ s.step = "look" /\ s.at = t.at /\ s.was = t.was
                   /\ s.owned = t.owned /\ s.ids = Opened
      BY <2>6, ReadBranchesStep
    <3>2. t.step = "branches" /\ Opened # {}
      BY <2>6, ReadBranchesStep DEF BaseInv
    <3> QED BY <1>1, <3>1, <3>2, TurnKeeps DEF Turns, Named, Begun, Counting
  <2>7. CASE LookForOwners(w)
    <3>1. /\ t.step = "look"
          /\ \E s : /\ Turns(w, s) /\ s.step = "lock" /\ s.at = t.at /\ s.was = t.was
                    /\ s.owned = t.owned /\ s.ids = t.ids
      BY <2>7, LookStep
    <3> QED BY <1>1, <3>1, TurnKeeps DEF Turns, Named, Begun, Counting
  <2>8. CASE CountBranch(w)
    <3>1. /\ t.step = "lock" /\ t.op # "open"
          /\ \E s : Turns(w, s) /\ s.step \in {"branches", "look"} /\ s.at = t.at /\ s.was = t.was
      BY <1>3, <2>8, CountBranchStep DEF Locks
    <3> QED BY <1>1, <3>1, TurnKeeps DEF Turns, Named, Begun, Counting
  <2>9. CASE CountShop(w)
    <3>1. /\ t.step = "lock" /\ t.op # "open"
          /\ \E s : /\ Turns(w, s) /\ s.step = (IF t.op = "revoke" THEN "rest" ELSE "write")
                    /\ s.at = t.at /\ s.was = t.was
      BY <1>3, <2>9, CountShopStep DEF Locks
    <3> QED BY <1>1, <3>1, TurnKeeps DEF Turns, Named, Begun, Counting
  <2>10. CASE ShareBranch(w)
    <3>1. PICK s : /\ Turns(w, s) /\ s.step = "write" /\ s.owned = t.owned
                   /\ s.gets = OwnerOfAll(t) \cup {t.user}
      BY <2>10, ShareStep
    <3>2. t.op = "open" /\ t.step = "lock" /\ t.ids # {}
      BY <1>1, <2>10, ShareStep DEF Locks, Named
    <3>3. \A u \in s.gets : status[u] # "none"
      <4>1. \A u \in OwnerOfAll(t) : status[u] = "active"
        BY <3>2 DEF OwnerOfAll, Owners, OwnerRows
      <4> QED BY <1>1, <3>1, <3>2, <4>1 DEF Named
    <3> QED BY <1>1, <3>1, <3>2, <3>3, TurnKeeps DEF Turns, Named, Counting
  <2>11. CASE ReadRest(w)
    <3>1. /\ t.step = "rest" /\ t.op \in {"revoke", "close"}
          /\ \E s : Turns(w, s) /\ s.step = "write" /\ s.at = t.at /\ s.was = t.was
      BY <1>3, <2>11, ReadRestStep
    <3> QED BY <1>1, <3>1, TurnKeeps DEF Turns, Named, Begun, Counting
  <2> QED BY <2>1, <2>2, <2>3, <2>4, <2>5, <2>6, <2>7, <2>8, <2>9, <2>10, <2>11 DEF Reads
<1> QED BY <1>2, <1>3


-----------------------------------------------------------------------------
(* The writes *)

(* A new assignment, for somebody who has a user row, takes a row nobody has. *)
LEMMA NewRow ==
    ASSUME BaseInv, NEW k \in Unwritten, NEW r \in RowRec, row' = [row EXCEPT ![k] = r]
    PROVE  /\ row' \in [Row -> RowRec] /\ k \in Row /\ row[k] = NoRow
           /\ \A i \in Row : i # k => row'[i] = row[i]
           /\ row'[k] = r
  BY DEF BaseInv, TypeOK, Unwritten

LEMMA WriteRoleKeeps ==
    ASSUME BaseInv, NEW w \in Worker, WriteRole(w)
    PROVE  LET t == txn[w] IN
           /\ BaseInv' /\ Spared /\ GoOn(w, Idle) /\ UNCHANGED <<status, home, branch>>
           /\ t.op = "role" /\ t.step = "write" /\ t.user \in User
           /\ \/ /\ t.at = 0
                 /\ \E k \in Row : /\ row[k] = NoRow /\ \A i \in Row : i # k => row'[i] = row[i]
                                   /\ row'[k] = Assignment(t.user, t.branch, t.role)
              \/ /\ t.at \in Row /\ RowFree(w, t.at) /\ row[t.at].user = t.user
                 /\ \A i \in Row : i # t.at => row'[i] = row[i]
                 /\ row'[t.at].user = row[t.at].user /\ row'[t.at].branch = row[t.at].branch
                 /\ row'[t.at].live = row[t.at].live
                 /\ row'[t.at].role = IF t.role = t.was THEN row[t.at].role ELSE t.role
<1> DEFINE t == txn[w]
<1>1. /\ t \in Txn /\ Named(w) /\ t.op = "role" /\ t.step = "write" /\ TypeOK /\ Worked
      /\ t.user \in User /\ t.branch \in Branch /\ t.role \in Role /\ t.at \in Row \cup {0}
      /\ GoOn(w, Idle) /\ UNCHANGED <<status, home, branch, asked>> /\ status[t.user] # "none"
      /\ row \in [Row -> RowRec]
  BY TxnType DEF BaseInv, WriteRole, Named, TypeOK
<1>2. CASE t.at = 0
  <2>1. /\ (CHOOSE i \in Fresh(1) : TRUE) \in Unwritten
        /\ Assignment(t.user, t.branch, t.role) \in RowRec
    BY <1>1, <1>2, FreshRow, NoneFacts DEF WriteRole
  <2>2. PICK k \in Unwritten : k = CHOOSE i \in Fresh(1) : TRUE
    BY <2>1
  <2>3. row' = [row EXCEPT ![k] = Assignment(t.user, t.branch, t.role)]
    BY <1>2, <2>2 DEF WriteRole
  <2>4. /\ row' \in [Row -> RowRec] /\ k \in Row /\ row[k] = NoRow
        /\ \A i \in Row : i # k => row'[i] = row[i]
        /\ row'[k] = Assignment(t.user, t.branch, t.role)
    BY <2>1, <2>3, NewRow
  <2>5. Spared
    BY <1>1, <2>4 DEF Spared, Opened
  <2>6. Worked'
    BY <1>1, <2>4, NoneFacts DEF Worked
  <2>7. BaseInv'
    BY <1>1, <2>4, <2>5, <2>6, WriteKeeps DEF TypeOK
  <2> QED BY <1>1, <1>2, <2>4, <2>5, <2>7
<1>3. CASE t.at # 0
  <2>1. t.at \in Row /\ row[t.at].user = t.user /\ row[t.at] # NoRow /\ RowFree(w, t.at)
    <3>1. Begun(w)
      BY <1>1 DEF Begun
    <3> QED BY <1>1, <1>3, <3>1, NoneFacts DEF WriteRole, Named
  <2>2. row' = [row EXCEPT ![t.at].role = IF t.role = t.was THEN @ ELSE t.role]
    BY <1>3 DEF WriteRole
  <2>3. row[t.at] \in [user : User, branch : Branch, role : Role, live : BOOLEAN]
    BY <1>1, <2>1, RowFacts
  <2>4. /\ row' \in [Row -> RowRec]
        /\ \A i \in Row : row'[i].user = row[i].user /\ row'[i].branch = row[i].branch
        /\ \A i \in Row : i # t.at => row'[i] = row[i]
    BY <1>1, <2>1, <2>2, <2>3 DEF RowRec
  <2>5. /\ row'[t.at].live = row[t.at].live
        /\ row'[t.at].role = IF t.role = t.was THEN row[t.at].role ELSE t.role
    BY <1>1, <2>1, <2>2, <2>3
  <2>6. Spared
    BY <1>1, <2>4 DEF Spared, Opened
  <2>7. Worked'
    BY <1>1, <2>1, <2>4 DEF Worked
  <2>8. BaseInv'
    BY <1>1, <2>4, <2>6, <2>7, WriteKeeps DEF TypeOK
  <2> QED BY <1>1, <2>1, <2>4, <2>5, <2>6, <2>8
<1> QED BY <1>2, <1>3

LEMMA WriteRevokeKeeps ==
    ASSUME BaseInv, NEW w \in Worker, WriteRevoke(w)
    PROVE  LET t == txn[w] IN
           /\ BaseInv' /\ Spared /\ GoOn(w, Idle) /\ UNCHANGED <<status, branch>>
           /\ t.op = "revoke" /\ t.step = "write" /\ t.user \in User
           /\ t.at \in Row /\ RowFree(w, t.at) /\ row[t.at].user = t.user /\ row[t.at].branch = t.branch
           /\ \A i \in Row : i # t.at => row'[i] = row[i]
           /\ row'[t.at].user = row[t.at].user /\ row'[t.at].branch = row[t.at].branch
           /\ row'[t.at].role = row[t.at].role /\ row'[t.at].live = FALSE
           /\ home' = IF t.home = None THEN home ELSE [home EXCEPT ![t.user] = t.home]
<1> DEFINE t == txn[w]
<1>1. /\ t \in Txn /\ Named(w) /\ t.op = "revoke" /\ t.step = "write" /\ TypeOK /\ Worked
      /\ t.user \in User /\ t.branch \in Branch
      /\ GoOn(w, Idle) /\ UNCHANGED <<status, branch, asked>> /\ RowFree(w, t.at)
      /\ row' = [row EXCEPT ![t.at].live = FALSE]
      /\ home' = IF t.home = None THEN home ELSE [home EXCEPT ![t.user] = t.home]
  BY TxnType DEF BaseInv, WriteRevoke, Named
<1>2. t.at \in Row /\ row[t.at].user = t.user /\ row[t.at].branch = t.branch /\ row \in [Row -> RowRec]
  <2>1. Begun(w)
    BY <1>1 DEF Begun
  <2> QED BY <1>1, <2>1, TxnType DEF Named, TypeOK
<1>3. row[t.at] \in [user : User, branch : Branch, role : Role, live : BOOLEAN] /\ row[t.at] # NoRow
  BY <1>1, <1>2, RowFacts
<1>4. /\ row' \in [Row -> RowRec]
      /\ \A i \in Row : row'[i].user = row[i].user /\ row'[i].branch = row[i].branch
      /\ \A i \in Row : i # t.at => row'[i] = row[i]
  BY <1>1, <1>2, <1>3 DEF RowRec
<1>5. row'[t.at].role = row[t.at].role /\ row'[t.at].live = FALSE
  BY <1>1, <1>2, <1>3
<1>6. home' \in [User -> Branch \cup {None}]
  <2>1. t.home \in Branch \cup {None} /\ home \in [User -> Branch \cup {None}]
    BY <1>1 DEF Txn, TypeOK
  <2> QED BY <1>1, <2>1
<1>7. Spared
  BY <1>1, <1>4 DEF Spared, Opened
<1>8. Worked'
  BY <1>1, <1>2, <1>3, <1>4 DEF Worked
<1>9. BaseInv'
  BY <1>1, <1>4, <1>6, <1>7, <1>8, WriteKeeps DEF TypeOK
<1> QED BY <1>1, <1>2, <1>4, <1>5, <1>7, <1>9

LEMMA WriteStatusKeeps ==
    ASSUME BaseInv, NEW w \in Worker, WriteStatus(w)
    PROVE  LET t == txn[w] IN
           /\ BaseInv' /\ Spared /\ GoOn(w, Idle) /\ UNCHANGED <<row, home, branch>>
           /\ t.op \in {"disable", "enable"} /\ t.step = "write" /\ t.user \in User
           /\ status[t.user] # "none"
           /\ \A u \in User : status'[u] # status[u] =>
                u = t.user /\ status'[u] = IF t.op = "enable" THEN "active" ELSE "disabled"
<1> DEFINE t == txn[w]
           new == IF t.op = "enable" THEN "active" ELSE "disabled"
<1>1. /\ t \in Txn /\ Named(w) /\ t.op \in {"disable", "enable"} /\ t.step = "write" /\ TypeOK /\ Worked
      /\ t.user \in User /\ status[t.user] # "none"
      /\ GoOn(w, Idle) /\ UNCHANGED <<row, home, branch, asked>>
      /\ status' = [status EXCEPT ![t.user] = IF t.loaded = new THEN @ ELSE new]
  BY TxnType DEF BaseInv, WriteStatus, Named
<1>2. /\ status' \in [User -> {"none", "active", "disabled"}]
      /\ \A u \in User : status[u] # "none" => status'[u] # "none"
      /\ \A u \in User : status'[u] # status[u] => u = t.user /\ status'[u] = new
  BY <1>1 DEF TypeOK
<1>3. Spared
  BY <1>1, <1>2 DEF Spared, Opened
<1>4. Worked'
  BY <1>1, <1>2, RowFacts DEF Worked
<1>5. BaseInv'
  BY <1>1, <1>2, <1>3, <1>4, WriteKeeps DEF TypeOK
<1> QED BY <1>1, <1>2, <1>3, <1>5

(* A request to hire finds the username taken, or writes. *)
LEMMA WriteEmployeeKeeps ==
    ASSUME BaseInv, NEW w \in Worker, WriteEmployee(w)
    PROVE  LET t == txn[w] IN
           /\ BaseInv' /\ t.op = "hire" /\ t.step = "write"
           /\ \/ Refuse(w)
              \/ /\ Spared /\ GoOn(w, Idle) /\ UNCHANGED branch
                 /\ t.user \in User /\ status[t.user] = "none" /\ t.branch \in Branch
                 /\ \E k \in Row : /\ row[k] = NoRow /\ \A i \in Row : i # k => row'[i] = row[i]
                                   /\ row'[k] = Assignment(t.user, t.branch, t.role)
                 /\ \A u \in User : u # t.user => status'[u] = status[u] /\ home'[u] = home[u]
                 /\ status'[t.user] = "active" /\ home'[t.user] = t.branch
<1> DEFINE t == txn[w]
<1>1. /\ Named(w) /\ t.op = "hire" /\ t.step = "write" /\ t.user \in User /\ t.branch \in Branch
      /\ t.role \in Role /\ TypeOK /\ Worked
  BY DEF BaseInv, WriteEmployee, Named
<1>2. CASE status[t.user] # "none"
  <2>1. Refuse(w)
    BY <1>2 DEF WriteEmployee
  <2> QED BY <1>1, <2>1, RefuseKeeps
<1>3. CASE status[t.user] = "none"
  <2>1. /\ GoOn(w, Idle) /\ UNCHANGED <<branch, asked>>
        /\ Unwritten # {}
        /\ row' = [row EXCEPT ![CHOOSE i \in Fresh(1) : TRUE] = Assignment(t.user, t.branch, t.role)]
        /\ status' = [status EXCEPT ![t.user] = "active"]
        /\ home' = [home EXCEPT ![t.user] = t.branch]
    BY <1>3 DEF WriteEmployee
  <2>2. PICK k \in Unwritten : k = CHOOSE i \in Fresh(1) : TRUE
    BY <2>1, FreshRow
  <2>3. Assignment(t.user, t.branch, t.role) \in RowRec
    BY <1>1, NoneFacts
  <2>4. /\ row' \in [Row -> RowRec] /\ k \in Row /\ row[k] = NoRow
        /\ \A i \in Row : i # k => row'[i] = row[i]
        /\ row'[k] = Assignment(t.user, t.branch, t.role)
    BY <2>1, <2>2, <2>3, NewRow
  <2>5. /\ status' \in [User -> {"none", "active", "disabled"}]
        /\ home' \in [User -> Branch \cup {None}]
        /\ branch' \in [Branch -> {"none", "active", "inactive"}]
        /\ \A u \in User : u # t.user => status'[u] = status[u] /\ home'[u] = home[u]
        /\ status'[t.user] = "active" /\ home'[t.user] = t.branch
    BY <1>1, <2>1 DEF TypeOK
  <2>6. Spared
    BY <1>3, <2>1, <2>4, <2>5 DEF Spared, Opened
  <2>7. Worked'
    BY <1>1, <1>3, <2>4, <2>5, RowFacts, NoneFacts DEF Worked
  <2>8. BaseInv'
    BY <2>1, <2>4, <2>5, <2>6, <2>7, WriteKeeps
  <2> QED BY <1>1, <1>3, <2>1, <2>4, <2>5, <2>6, <2>8
<1> QED BY <1>2, <1>3

LEMMA WriteBranchKeeps ==
    ASSUME BaseInv, NEW w \in Worker, WriteBranch(w)
    PROVE  LET t == txn[w] IN
           /\ BaseInv' /\ Spared /\ GoOn(w, Idle) /\ UNCHANGED <<status, home>>
           /\ t.op = "open" /\ t.step = "write"
           /\ t.branch \in Branch \ Opened /\ Opened' = Opened \cup {t.branch}
           /\ \A i \in Row : row[i] # NoRow => row'[i] = row[i]
           /\ \A i \in Row : row[i] = NoRow /\ row'[i] # NoRow => row'[i].branch = t.branch
           /\ \A u \in t.gets : \E i \in Row : row'[i] = Assignment(u, t.branch, "owner")
<1> DEFINE t == txn[w]
           new == Fresh(Cardinality(t.gets))
<1>1. /\ t \in Txn /\ TypeOK /\ Worked /\ Named(w) /\ t.op = "open" /\ t.step = "write"
      /\ \A u \in t.gets : status[u] # "none"
      /\ branch[t.branch] = "none" /\ branch' = [branch EXCEPT ![t.branch] = "active"]
      /\ GoOn(w, Idle) /\ UNCHANGED <<status, home, asked>>
  BY TxnType DEF BaseInv, WriteBranch, Named
<1>2. t.branch \in Branch /\ t.gets \subseteq User /\ new \subseteq Unwritten
  BY <1>1 DEF Named, Txn, Fresh
<1>3. PICK f \in [new -> t.gets] :
         /\ \A u \in t.gets : \E i \in new : f[i] = u
         /\ row' = [i \in Row |-> IF i \in new THEN Assignment(f[i], t.branch, "owner") ELSE row[i]]
  BY DEF WriteBranch
<1>4. t.branch \in Branch \ Opened /\ Opened' = Opened \cup {t.branch}
  BY <1>1, <1>2 DEF Opened, TypeOK
<1>5. \A i \in new : i \in Row /\ row[i] = NoRow /\ f[i] \in t.gets /\ f[i] \in User
  BY <1>2, <1>3 DEF Unwritten
<1> HIDE DEF new
<1>6. row' \in [Row -> RowRec]
  <2>1. \A i \in new : Assignment(f[i], t.branch, "owner") \in RowRec
    BY <1>2, <1>5, NoneFacts, RoleAssumption
  <2> QED BY <1>1, <1>3, <2>1 DEF TypeOK
<1>7. \A i \in Row : row[i] # NoRow => row'[i] = row[i]
  BY <1>3, <1>5
<1>8. \A i \in Row : row[i] = NoRow /\ row'[i] # NoRow =>
        row'[i].branch = t.branch /\ row'[i].user \in t.gets
  BY <1>3, <1>5 DEF Assignment
<1>9. \A u \in t.gets : \E i \in Row : row'[i] = Assignment(u, t.branch, "owner")
  BY <1>3, <1>5
<1>10. Spared
  BY <1>1, <1>4, <1>7 DEF Spared
<1>11. Worked'
  BY <1>1, <1>7, <1>8 DEF Worked
<1>12. BaseInv'
  BY <1>1, <1>6, <1>10, <1>11, WriteKeeps DEF TypeOK
<1> QED BY <1>1, <1>4, <1>7, <1>8, <1>9, <1>10, <1>12

LEMMA WriteActiveKeeps ==
    ASSUME BaseInv, NEW w \in Worker, WriteActive(w)
    PROVE  /\ BaseInv' /\ Spared /\ GoOn(w, Idle) /\ UNCHANGED <<row, status, home>> /\ Opened' = Opened
           /\ txn[w].op \in {"activate", "close"} /\ txn[w].step = "write"
<1> DEFINE t == txn[w]
           new == IF t.op = "activate" THEN "active" ELSE "inactive"
<1>1. /\ Named(w) /\ t.op \in {"activate", "close"} /\ t.branch \in Opened /\ TypeOK /\ Worked
      /\ branch' = [branch EXCEPT ![t.branch] = IF t.loaded = new THEN @ ELSE new]
      /\ GoOn(w, Idle) /\ UNCHANGED <<row, status, home, asked>> /\ t.step = "write"
  BY DEF BaseInv, WriteActive, Named
<1>2. branch' \in [Branch -> {"none", "active", "inactive"}] /\ Opened' = Opened
  BY <1>1 DEF TypeOK, Opened
<1>3. Spared /\ Worked'
  BY <1>1, <1>2 DEF Spared, Worked
<1>4. BaseInv'
  BY <1>1, <1>2, <1>3, WriteKeeps DEF TypeOK
<1> QED BY <1>1, <1>2, <1>3, <1>4

-----------------------------------------------------------------------------
(* The type invariant *)

LEMMA InitStart ==
    ASSUME Init
    PROVE  /\ TypeOK
           /\ \A i \in 1 .. Len(Start) : /\ i \in Row /\ row[i] = Start[i] /\ row[i].live
                                         /\ row[i].user \in User /\ status[row[i].user] = "active"
           /\ \A b \in Opened : \E i \in 1 .. Len(Start) : Start[i].branch = b
           /\ \A u \in User : status[u] # "none" => home[u] \in BranchesOf(u)
           /\ \A i \in Row : row[i] # NoRow => i \in 1 .. Len(Start)
           /\ First # {} /\ First \subseteq Opened
<1> DEFINE S(u) == {i \in 1 .. Len(Start) : Start[i].user = u}
<1>1. /\ Start \in Seq([user : User, branch : Branch, role : Role, live : {TRUE}])
      /\ Len(Start) \in Nat /\ Len(Start) <= MaxRow /\ MaxRow \in Nat /\ MaxAsked \in Nat
  BY StartAssumption, BoundsAssumption
<1>2. \A i \in 1 .. Len(Start) :
         Start[i] \in [user : User, branch : Branch, role : Role, live : {TRUE}] /\ i \in Row
  <2> TAKE i \in 1 .. Len(Start)
  <2>1. Start[i] \in [user : User, branch : Branch, role : Role, live : {TRUE}]
    BY <1>1, ElementOfSeq
  <2>2. i \in Row
    BY <1>1 DEF Row
  <2> QED BY <2>1, <2>2
<1>3. row \in [Row -> RowRec] /\ \A i \in 1 .. Len(Start) : row[i] = Start[i]
  <2>1. \A i \in Row : i <= Len(Start) => i \in 1 .. Len(Start)
    BY <1>1 DEF Row
  <2>2. \A i \in 1 .. Len(Start) : i <= Len(Start)
    BY <1>1
  <2>3. \A i \in 1 .. Len(Start) : Start[i] \in RowRec
    BY <1>2 DEF RowRec
  <2>4. NoRow \in RowRec
    BY NoneFacts
  <2> QED BY <1>2, <2>1, <2>2, <2>3, <2>4 DEF Init
<1>4. ASSUME NEW u \in User, S(u) # {}
      PROVE  /\ home[u] \in Branch
             /\ home[u] \in BranchesOf(u)
  <2>1. PICK k \in S(u) : \A j \in S(u) : k <= j
    <3>1. S(u) \in SUBSET (1 .. Len(Start))
      OBVIOUS
    <3> HIDE DEF S
    <3> QED BY <1>1, <1>4, <3>1, Smallest
  <2>2. \E i \in 1 .. Len(Start) : Start[i].user = u /\ \A j \in 1 .. i - 1 : Start[j].user # u
    <3>1. \A j \in 1 .. k - 1 : Start[j].user # u
      <4> TAKE j \in 1 .. k - 1
      <4>1. j \in 1 .. Len(Start) /\ ~(k <= j)
        BY <1>1, <2>1
      <4> QED BY <2>1, <4>1
    <3> QED BY <2>1, <3>1
  <2>3. PICK i \in 1 .. Len(Start) : /\ Start[i].user = u
                                    /\ home[u] = Start[i].branch
    BY <1>4, <2>2 DEF Init
  <2> QED BY <1>2, <1>3, <2>3 DEF BranchesOf, Rows
<1>5. home \in [User -> Branch \cup {None}]
  <2>1. \A u \in User : home[u] \in Branch \cup {None}
    <3> TAKE u \in User
    <3>1. CASE S(u) # {}
      BY <1>4, <3>1
    <3>2. CASE S(u) = {}
      BY <3>2 DEF Init
    <3> QED BY <3>1, <3>2
  <2>2. home = [u \in User |-> home[u]]
    BY DEF Init
  <2> QED BY <2>1, <2>2
<1>6. TypeOK
  BY SMTT(30), <1>1, <1>3, <1>5, NoneFacts DEF Init, TypeOK
<1>7. \A u \in User : status[u] # "none" => S(u) # {}
  BY DEF Init
<1>8. \A i \in Row : row[i] # NoRow => i \in 1 .. Len(Start)
  <2>1. \A i \in Row : i <= Len(Start) => i \in 1 .. Len(Start)
    BY <1>1 DEF Row
  <2> QED BY <2>1 DEF Init
<1>9. First # {} /\ First \subseteq Opened
  <2>1. \E i \in 1 .. Len(Start) : TRUE
    BY FounderAssumption
  <2>2. \A i \in 1 .. Len(Start) : Start[i].branch \in Branch /\ branch[Start[i].branch] = "active"
    BY <1>2 DEF Init
  <2> QED BY <2>1, <2>2 DEF First, Opened
<1>10. \A i \in 1 .. Len(Start) : /\ i \in Row /\ row[i] = Start[i] /\ row[i].live
                                   /\ row[i].user \in User /\ status[row[i].user] = "active"
  <2> TAKE i \in 1 .. Len(Start)
  <2>1. /\ Start[i] \in [user : User, branch : Branch, role : Role, live : {TRUE}] /\ i \in Row
        /\ row[i] = Start[i]
    BY <1>2, <1>3
  <2>2. Start[i].user \in User /\ Start[i].live
    BY <2>1
  <2>3. status[Start[i].user] = "active"
    BY <2>2 DEF Init
  <2> QED BY <2>1, <2>2, <2>3
<1>11. \A b \in Opened : \E i \in 1 .. Len(Start) : Start[i].branch = b
  BY DEF Init, Opened
<1> QED BY <1>4, <1>6, <1>7, <1>8, <1>9, <1>10, <1>11

LEMMA BaseInit == Init => BaseInv
<1> SUFFICES ASSUME Init PROVE BaseInv
  OBVIOUS
<1>1. /\ TypeOK /\ \A w \in Worker : txn[w] = Idle
      /\ First # {} /\ First \subseteq Opened
  BY InitStart DEF Init
<1>2. Worked
  BY InitStart DEF Worked
<1>3. \A w \in Worker : Named(w)
  BY <1>1 DEF Named, Begun, Idle, Counting
<1> QED BY <1>1, <1>2, <1>3 DEF BaseInv

LEMMA BaseStutter == BaseInv /\ UNCHANGED vars => BaseInv'
<1> SUFFICES ASSUME BaseInv, UNCHANGED vars PROVE BaseInv'
  OBVIOUS
<1>1. UNCHANGED <<row, status, home, branch, txn, asked>>
  BY DEF vars
<1>2. TypeOK' /\ Worked' /\ First' = First /\ Opened' = Opened
  BY <1>1 DEF BaseInv, TypeOK, Worked, Opened, First
<1>3. ASSUME NEW w \in Worker PROVE Named(w)'
  BY <1>1, <1>2 DEF BaseInv, Named, Begun
<1> QED BY <1>2, <1>3 DEF BaseInv

LEMMA BaseNext == BaseInv /\ [Next]_vars => BaseInv'
<1> SUFFICES ASSUME BaseInv, [Next]_vars PROVE BaseInv'
  OBVIOUS
<1>1. CASE UNCHANGED vars
  BY <1>1, BaseStutter
<1>2. ASSUME NEW w \in Worker,
             \/ AskFor(w) \/ Reads(w)
             \/ WriteRole(w) \/ WriteRevoke(w) \/ WriteStatus(w) \/ WriteEmployee(w)
             \/ WriteBranch(w) \/ WriteActive(w)
             \/ Fail(w)
      PROVE  BaseInv'
  BY <1>2, AskForKeeps, ReadKeeps, WriteRoleKeeps, WriteRevokeKeeps, WriteStatusKeeps, WriteEmployeeKeeps,
     WriteBranchKeeps, WriteActiveKeeps, RefuseKeeps DEF Fail
<1> QED BY <1>1, <1>2 DEF Next, Reads

(* The type invariant, for any employees, branches, roles, threads and requests, and   *)
(* whatever requests overlap.                                                          *)
THEOREM StaffTypeOK == Spec => []TypeOK
<1>1. BaseInv => TypeOK
  BY DEF BaseInv
<1> QED BY <1>1, BaseInit, BaseNext, PTL DEF Spec

-----------------------------------------------------------------------------
(* What the counts say *)

(* Owning the whole shop, row by row. *)
LEMMA OwnsAll ==
    ASSUME TypeOK, NEW u \in User
    PROVE  u \in ShopOwners <=>
             /\ status[u] = "active"
             /\ \A b \in Opened : \E i \in Row : /\ row[i].live /\ row[i].user = u
                                                /\ row[i].role = "owner" /\ row[i].branch = b
  BY DEF ShopOwners, Manages, OwnedBy, Rows

LEMMA OwnersHaveRows ==
    ASSUME TypeOK, NEW u \in ShopOwners, NEW b \in Opened
    PROVE  \E i \in OwnerRowsIn({b}) : row[i].user = u
<1>1. u \in User
  BY OwnersFacts
<1>2. PICK i \in Row : row[i].live /\ row[i].user = u /\ row[i].role = "owner" /\ row[i].branch = b
  BY <1>1, OwnsAll
<1>3. status[u] = "active"
  BY <1>1, OwnsAll
<1> QED BY <1>2, <1>3 DEF OwnerRowsIn, OwnerRows

LEMMA SomeOwnerRow == ASSUME OwnerInv PROVE OwnerRowsIn(First) # {}
<1>1. PICK u \in ShopOwners, b \in First : b \in Opened
  BY DEF OwnerInv, BaseInv
<1>2. PICK i \in OwnerRowsIn({b}) : row[i].user = u
  BY <1>1, OwnersHaveRows DEF OwnerInv, BaseInv
<1> QED BY <1>1, <1>2 DEF OwnerRowsIn

(* A count that found all it asks about finds the shop's owners. *)
LEMMA AllCounted ==
    ASSUME OwnerInv, NEW w \in Worker, txn[w].step = "lock"
    PROVE  /\ ShopOwners \subseteq OwnerOfAll(txn[w])
           /\ txn[w].ids = Opened => OwnerOfAll(txn[w]) = ShopOwners
<1> DEFINE t == txn[w]
<1>1. TypeOK /\ t.ids \subseteq Opened /\ OwnerRowsIn(First \cup t.ids) \subseteq t.found /\ Opened # {}
  BY DEF OwnerInv, BaseInv, Sure
<1>2. ASSUME NEW u \in ShopOwners PROVE u \in OwnerOfAll(t)
  <2>1. u \in User
    BY <1>1, OwnersFacts
  <2>2. ASSUME NEW b \in t.ids PROVE \E i \in Owners(t) : row[i].user = u /\ row[i].branch = b
    <3>1. PICK i \in OwnerRowsIn({b}) : row[i].user = u
      BY <1>1, <2>2, OwnersHaveRows
    <3> QED BY <1>1, <2>2, <3>1 DEF OwnerRowsIn, Owners
  <2> QED BY <2>1, <2>2 DEF OwnerOfAll
<1>3. ASSUME t.ids = Opened, NEW u \in OwnerOfAll(t) PROVE u \in ShopOwners
  <2>1. u \in User /\ \A b \in Opened : \E i \in Owners(t) : row[i].user = u /\ row[i].branch = b
    BY <1>3 DEF OwnerOfAll
  <2>2. \A i \in Owners(t) : i \in Row /\ row[i].live /\ row[i].role = "owner" /\ status[row[i].user] = "active"
    BY DEF Owners, OwnerRows
  <2>3. status[u] = "active"
    BY <1>1, <2>1, <2>2
  <2>4. \A b \in Opened : \E i \in Row : /\ row[i].live /\ row[i].user = u
                                        /\ row[i].role = "owner" /\ row[i].branch = b
    BY <2>1, <2>2
  <2> QED BY <1>1, <2>1, <2>3, <2>4, OwnsAll
<1> QED BY <1>2, <1>3

(* Who has locked the owners' rows is alone. *)
LEMMA LockedAlone ==
    ASSUME OwnerInv, NEW w \in Worker, Locks(w)
    PROVE  /\ \A v \in Worker \ {w} : txn[v].held = {}
           /\ txn[w].found # {} /\ OwnerRowsIn(First) \subseteq txn[w].found
<1>1. OwnerRowsIn(First) \subseteq txn[w].found
  BY DEF OwnerInv, Sure, Locks, OwnerRowsIn
<1>2. PICK i \in OwnerRowsIn(First) : TRUE
  BY SomeOwnerRow
<1>3. ASSUME NEW v \in Worker \ {w}, txn[v].held # {} PROVE FALSE
  <2>1. i \in txn[v].held
    BY <1>2, <1>3 DEF OwnerInv, Sure
  <2> QED BY <1>1, <1>2, <2>1 DEF Locks, CanLockFound, RowFree
<1> QED BY <1>1, <1>2, <1>3

-----------------------------------------------------------------------------
(* Owners: the steps that only read *)

(* A step that writes nothing but its own request. *)
LEMMA OwnerOwnStep ==
    ASSUME OwnerInv, BaseInv', NEW w \in Worker, UNCHANGED data, \A v \in Worker \ {w} : txn'[v] = txn[v],
           \A v \in Worker \ {w} : /\ Taking(w)' => ~Making(v)
                                   /\ Making(w)' => ~Taking(v),
           txn'[w].held = {} \/ \A v \in Worker \ {w} : txn[v].held = {},
           Sure(w)', AsRead(w)', Counted(w)'
    PROVE  OwnerInv'
<1>1. UNCHANGED <<row, status, branch>>
  BY DEF data
<1>2. /\ ShopOwners' = ShopOwners /\ Opened' = Opened /\ OwnerRows' = OwnerRows /\ First' = First
      /\ \A B : OwnerRowsIn(B)' = OwnerRowsIn(B)
  BY <1>1 DEF Opened, ShopOwners, Manages, OwnedBy, Rows, OwnerRows, OwnerRowsIn, First
<1>3. ASSUME NEW v \in Worker \ {w} PROVE Sure(v)' /\ AsRead(v)' /\ Counted(v)'
  <2>1. Sure(v) /\ AsRead(v) /\ Counted(v) /\ txn'[v] = txn[v]
    BY DEF OwnerInv
  <2>2. Sure(v)'
    BY <1>1, <1>2, <2>1 DEF Sure, Taking, OwnerRowsIn, OwnerRows
  <2>3. AsRead(v)'
    BY <1>1, <1>2, <2>1 DEF AsRead, Taking, Begun, OwnedBy, Rows
  <2>4. Counted(v)'
    BY <1>2, <2>1 DEF Counted
  <2> QED BY <2>2, <2>3, <2>4
<1>4. \A v \in Worker : Sure(v)' /\ AsRead(v)' /\ Counted(v)'
  BY <1>3
<1>5. \A x, v \in Worker : x # v => txn'[x].held = {} \/ txn'[v].held = {}
  BY DEF OwnerInv
<1>6. \A v \in Worker \ {w} : (Taking(v)' <=> Taking(v)) /\ (Making(v)' <=> Making(v))
  BY DEF Taking, Making
<1>7. ~(Taking(w)' /\ Making(w)')
  BY DEF Taking, Making, Takes, Makes
<1>8. \A x, v \in Worker : Taking(x)' => ~Making(v)'
  BY <1>6, <1>7 DEF OwnerInv
<1>9. ShopOwners' # {}
  BY <1>2 DEF OwnerInv
<1> QED BY <1>4, <1>5, <1>8, <1>9 DEF OwnerInv

LEMMA OwnerStop == ASSUME OwnerInv, NEW w \in Worker, Refuse(w) PROVE OwnerInv'
<1>1. BaseInv' /\ txn'[w] = Idle /\ UNCHANGED data /\ \A v \in Worker \ {w} : txn'[v] = txn[v]
  BY RefuseKeeps DEF OwnerInv, BaseInv, TypeOK, Refuse, GoOn
<1>2. Sure(w)' /\ AsRead(w)' /\ Counted(w)' /\ txn'[w].held = {} /\ ~Taking(w)' /\ ~Making(w)'
  BY <1>1 DEF Sure, AsRead, Counted, Idle, Begun, Counting, Unseats, Taking, Making, Takes, Makes
<1> QED BY <1>1, <1>2, OwnerOwnStep

LEMMA OwnerAsk == ASSUME OwnerInv, ~MadeMeanwhile, NEW w \in Worker, AskFor(w) PROVE OwnerInv'
<1>1. BaseInv' /\ Came(w)
  BY AskForKeeps DEF OwnerInv
<1>2. Sure(w)' /\ AsRead(w)' /\ Counted(w)'
  BY <1>1 DEF Came, Sure, AsRead, Counted, Begun, Counting, Unseats
<1>3. \A v \in Worker \ {w} : /\ Taking(w)' => ~Making(v)
                              /\ Making(w)' => ~Taking(v)
  BY <1>1 DEF Came, Unmixed, Taking, Making
<1> QED BY <1>1, <1>2, <1>3, OwnerOwnStep DEF Came

(* A request that goes on is about what it was about. *)
LEMMA OwnerTurn ==
    ASSUME OwnerInv, BaseInv', NEW w \in Worker, NEW s, Turns(w, s),
           s.held = {} \/ s.held = txn[w].held \/ \A v \in Worker \ {w} : txn[v].held = {},
           Sure(w)', AsRead(w)', Counted(w)'
    PROVE  OwnerInv'
<1>1. txn'[w] = s /\ UNCHANGED data /\ \A v \in Worker \ {w} : txn'[v] = txn[v]
  BY Turned DEF Turns, OwnerInv
<1>2. (Taking(w)' <=> Taking(w)) /\ (Making(w)' <=> Making(w))
  BY <1>1 DEF Turns, Taking, Making
<1>3. \A v \in Worker \ {w} : /\ Taking(w)' => ~Making(v)
                              /\ Making(w)' => ~Taking(v)
  BY <1>2 DEF OwnerInv
<1>4. txn'[w].held = {} \/ \A v \in Worker \ {w} : txn[v].held = {}
  BY <1>1 DEF OwnerInv
<1> QED BY <1>1, <1>3, <1>4, OwnerOwnStep

(* What the data a step reads is afterwards. *)
LEMMA ReadOnly ==
    ASSUME OwnerInv, NEW w \in Worker, NEW s, Turns(w, s)
    PROVE  /\ txn'[w] = s /\ UNCHANGED <<row, status>> /\ Opened' = Opened /\ ShopOwners' = ShopOwners
           /\ First' = First /\ OwnerRows' = OwnerRows /\ (OwnerRowsIn(First))' = OwnerRowsIn(First)
           /\ Sure(w) /\ AsRead(w) /\ Counted(w) /\ Named(w)
           /\ First \subseteq Opened /\ First # {}
           /\ (Taking(w)' <=> Taking(w))
           /\ s.op = txn[w].op /\ s.user = txn[w].user /\ s.role = txn[w].role
<1>1. txn'[w] = s /\ UNCHANGED <<row, status, branch>>
  BY Turned DEF OwnerInv
<1> QED BY <1>1 DEF Turns, OwnerInv, BaseInv, Opened, ShopOwners, Manages, OwnedBy, Rows, OwnerRows,
                    OwnerRowsIn, First, Taking

LEMMA SureStep ==
    ASSUME OwnerInv, NEW w \in Worker, NEW s, Turns(w, s), s.ids \subseteq Opened,
           s.step = "lock" => s.found = OwnerRows,
           s.held # {} => Taking(w) /\ OwnerRowsIn(First) \subseteq s.held,
           s.step = "rights" => s.owned # {}, s.step = "branches" => s.owned = {},
           s.op # "open" /\ s.owned = {} /\ s.step \in Counting => s.held # {},
           s.op # "open" /\ s.owned = {} /\ s.step \in {"look", "lock"} => s.ids = Opened
    PROVE  Sure(w)'
<1>1. (OwnerRowsIn(First \cup s.ids))' \subseteq OwnerRows
  BY ReadOnly DEF OwnerRowsIn
<1>2. /\ txn'[w] = s /\ Opened' = Opened /\ (OwnerRowsIn(First))' = OwnerRowsIn(First)
      /\ (Taking(w)' <=> Taking(w))
  BY ReadOnly
<1>3. (OwnerRowsIn(First \cup txn[w].ids))' \subseteq OwnerRows
  BY <1>1, <1>2 DEF OwnerRowsIn
<1> QED BY <1>2, <1>3 DEF Sure

LEMMA OwnerLoads ==
    ASSUME OwnerInv, NEW w \in Worker, ~Refuse(w),
           ReadAssignment(w) \/ ReadEmployee(w) \/ ReadUsername(w) \/ ReadBranch(w)
    PROVE  OwnerInv'
<1> DEFINE t == txn[w]
<1>1. BaseInv /\ BaseInv'
  BY ReadKeeps DEF OwnerInv, Reads
<1>2. CASE ReadAssignment(w)
  <2>1. PICK s : /\ Turns(w, s) /\ s.held = {} /\ s.ids = t.ids
                 /\ IF s.at = 0 THEN t.op = "role" /\ s.was = "none"
                    ELSE /\ row[s.at].user = t.user /\ row[s.at].branch = t.branch
                         /\ s.was = row[s.at].role
                 /\ IF Unseats(s) THEN s.step = "rights" /\ s.owned = {t.branch}
                    ELSE s.step = IF t.op = "revoke" THEN "rest" ELSE "write"
    BY <1>1, <1>2, ReadAssignmentStep
  <2>2. t.op \in {"role", "revoke"}
    BY <1>1, <1>2, ReadAssignmentStep
  <2>3. Sure(w)'
    BY <2>1, ReadOnly, SureStep DEF Sure, Counting
  <2>4. AsRead(w)'
    BY <2>1, <2>2, ReadOnly DEF AsRead
  <2>5. Counted(w)'
    BY <2>1, ReadOnly DEF Counted
  <2> QED BY <1>1, <2>1, <2>3, <2>4, <2>5, OwnerTurn
<1>3. CASE ReadEmployee(w)
  <2>1. PICK s : /\ Turns(w, s) /\ s.held = {} /\ s.ids = t.ids
                 /\ s.owned = (IF t.op = "disable" THEN OwnedBy(t.user) ELSE {})
                 /\ s.step = IF s.owned = {} THEN "write" ELSE "look"
    BY <1>1, <1>3, ReadEmployeeStep
  <2>2. t.op \in {"disable", "enable"}
    BY <1>1, <1>3, ReadEmployeeStep
  <2>3. Sure(w)'
    BY <2>1, ReadOnly, SureStep DEF Sure, Counting
  <2>4. AsRead(w)'
    <3>1. (OwnedBy(s.user))' = OwnedBy(s.user)
      BY <2>1, ReadOnly DEF OwnedBy, Rows
    <3>2. s.op = "disable" /\ s.step = "write" => OwnedBy(s.user) = {}
      BY <2>1, ReadOnly
    <3>3. s.op = "disable" /\ s.step = "write" => ~(First \subseteq (OwnedBy(s.user))')
      BY <2>1, <3>1, <3>2, ReadOnly
    <3> QED BY <2>1, <2>2, <3>3, ReadOnly DEF AsRead
  <2>5. Counted(w)'
    BY <2>1, ReadOnly DEF Counted
  <2> QED BY <1>1, <2>1, <2>3, <2>4, <2>5, OwnerTurn
<1>4. CASE ReadUsername(w)
  <2>1. PICK s : Turns(w, s) /\ s.step = "write" /\ s.held = {} /\ s.ids = t.ids
    BY <1>1, <1>4, ReadUsernameStep
  <2>2. t.op = "hire"
    BY <1>1, <1>4, ReadUsernameStep
  <2>3. Sure(w)'
    BY <2>1, ReadOnly, SureStep DEF Sure, Counting
  <2>4. AsRead(w)' /\ Counted(w)'
    BY <2>1, <2>2, ReadOnly DEF AsRead, Counted
  <2> QED BY <1>1, <2>1, <2>3, <2>4, OwnerTurn
<1>5. CASE ReadBranch(w)
  <2>1. PICK s : /\ Turns(w, s) /\ s.held = {} /\ s.ids = t.ids
                 /\ s.step = IF t.op = "activate" THEN "write" ELSE "rest"
    BY <1>1, <1>5, ReadBranchStep
  <2>2. t.op \in {"activate", "close"}
    BY <1>1, <1>5, ReadBranchStep
  <2>3. Sure(w)'
    BY <2>1, ReadOnly, SureStep DEF Sure, Counting
  <2>4. AsRead(w)' /\ Counted(w)'
    BY <2>1, <2>2, ReadOnly DEF AsRead, Counted
  <2> QED BY <1>1, <2>1, <2>3, <2>4, OwnerTurn
<1> QED BY <1>2, <1>3, <1>4, <1>5

LEMMA OwnerLooks ==
    ASSUME OwnerInv, NEW w \in Worker, ~Refuse(w), HasRights(w) \/ ReadBranches(w) \/ LookForOwners(w)
    PROVE  OwnerInv'
<1> DEFINE t == txn[w]
<1>1. BaseInv /\ BaseInv'
  BY ReadKeeps DEF OwnerInv, Reads
<1>2. PICK s : /\ Turns(w, s) /\ s.at = t.at /\ s.was = t.was /\ s.owned = t.owned /\ s.held = t.held
               /\ \/ t.step = "rights" /\ s.step = "look" /\ s.ids = t.ids
                  \/ t.step = "branches" /\ s.step = "look" /\ s.ids = Opened
                  \/ t.step = "look" /\ s.step = "lock" /\ s.ids = t.ids /\ s.found = OwnerRows
  <2>1. CASE HasRights(w)
    BY <1>1, <2>1, HasRightsStep
  <2>2. CASE ReadBranches(w)
    BY <1>1, <2>2, ReadBranchesStep
  <2>3. CASE LookForOwners(w)
    BY <1>1, <2>3, LookStep
  <2> QED BY <2>1, <2>2, <2>3
<1>3. Sure(w)'
  <2>1. s.ids \subseteq Opened /\ (s.held # {} => Taking(w) /\ OwnerRowsIn(First) \subseteq s.held)
    BY <1>2, ReadOnly DEF Sure
  <2>2. s.step = "lock" => s.found = OwnerRows
    BY <1>2
  <2>3. s.op # "open" /\ s.owned = {} => s.held # {} /\ s.ids = Opened
    BY <1>2, ReadOnly DEF Sure, Counting
  <2> QED BY <1>2, <2>1, <2>2, <2>3, ReadOnly, SureStep
<1>4. AsRead(w)'
  BY <1>2, ReadOnly DEF AsRead, Begun
<1>5. Counted(w)'
  BY <1>2, ReadOnly DEF Counted
<1> QED BY <1>1, <1>2, <1>3, <1>4, <1>5, OwnerTurn

LEMMA OwnerCounts ==
    ASSUME OwnerInv, NEW w \in Worker, ~Refuse(w), CountBranch(w) \/ CountShop(w) \/ ShareBranch(w)
    PROVE  OwnerInv'
<1> DEFINE t == txn[w]
<1>1. BaseInv /\ BaseInv'
  BY ReadKeeps DEF OwnerInv, Reads
<1>2. /\ t.step = "lock" /\ t.found # {} /\ OwnerRowsIn(First) \subseteq t.found
      /\ \A v \in Worker \ {w} : txn[v].held = {}
      /\ Taking(w)
  <2>1. Locks(w)
    BY <1>1, CountBranchStep, CountShopStep, ShareStep
  <2> QED BY <1>1, <2>1, LockedAlone DEF Locks, BaseInv, Named, Counting, Taking
<1>3. CASE CountBranch(w)
  <2>1. PICK s : /\ Turns(w, s) /\ s.at = t.at /\ s.was = t.was
                 /\ s.held = t.held \cup t.found /\ s.ids = t.ids
                 /\ s.step = IF s.owned = {} THEN "branches" ELSE "look"
    BY <1>1, <1>3, CountBranchStep
  <2>2. s.held # {} /\ OwnerRowsIn(First) \subseteq s.held
    BY <1>2, <2>1
  <2>3. Sure(w)'
    BY <1>2, <2>1, <2>2, ReadOnly, SureStep DEF Sure
  <2>4. AsRead(w)' /\ Counted(w)'
    BY <1>2, <2>1, ReadOnly DEF AsRead, Counted, Begun
  <2> QED BY <1>1, <1>2, <2>1, <2>3, <2>4, OwnerTurn
<1>4. CASE CountShop(w)
  <2>1. PICK s : /\ Turns(w, s) /\ s.at = t.at /\ s.was = t.was
                 /\ s.held = t.held \cup t.found /\ s.ids = t.ids
                 /\ s.step = IF t.op = "revoke" THEN "rest" ELSE "write"
    BY <1>1, <1>4, CountShopStep
  <2>2. t.op # "open" /\ t.owned = {} /\ (OwnerOfAll(t) # {} => OwnerOfAll(t) \ {t.user} # {})
    BY <1>1, <1>4, CountShopStep
  <2>3. s.held # {} /\ OwnerRowsIn(First) \subseteq s.held
    BY <1>2, <2>1
  <2>4. ShopOwners \ {t.user} # {}
    <3>1. t.ids = Opened
      BY <1>2, <2>2 DEF OwnerInv, Sure
    <3> QED BY <1>2, <2>2, <3>1, AllCounted DEF OwnerInv
  <2>5. Sure(w)'
    BY <1>2, <2>1, <2>3, ReadOnly, SureStep DEF Sure, Counting
  <2>6. AsRead(w)'
    BY <1>2, <2>1, <2>2, <2>3, ReadOnly DEF AsRead, Begun
  <2>7. Counted(w)'
    BY <2>1, <2>2, <2>4, ReadOnly DEF Counted
  <2> QED BY <1>1, <1>2, <2>1, <2>5, <2>6, <2>7, OwnerTurn
<1>5. CASE ShareBranch(w)
  <2>1. PICK s : /\ Turns(w, s) /\ s.held = t.held \cup t.found /\ s.ids = t.ids
                 /\ s.step = "write" /\ s.gets = OwnerOfAll(t) \cup {t.user}
    BY <1>1, <1>5, ShareStep
  <2>2. t.op = "open"
    BY <1>1, <1>5, ShareStep
  <2>3. s.held # {} /\ OwnerRowsIn(First) \subseteq s.held
    BY <1>2, <2>1
  <2>4. ShopOwners \subseteq s.gets
    BY <1>2, <2>1, AllCounted
  <2>5. Sure(w)'
    BY <1>2, <2>1, <2>2, <2>3, ReadOnly, SureStep DEF Sure, Counting
  <2>6. AsRead(w)' /\ Counted(w)'
    BY <2>1, <2>2, <2>3, <2>4, ReadOnly DEF AsRead, Counted
  <2> QED BY <1>1, <1>2, <2>1, <2>5, <2>6, OwnerTurn
<1> QED BY <1>3, <1>4, <1>5

LEMMA OwnerReadRest == ASSUME OwnerInv, NEW w \in Worker, ~Refuse(w), ReadRest(w) PROVE OwnerInv'
<1> DEFINE t == txn[w]
<1>1. BaseInv /\ BaseInv'
  BY ReadKeeps DEF OwnerInv, Reads
<1>2. PICK s : /\ Turns(w, s) /\ s.at = t.at /\ s.was = t.was
               /\ s.held = t.held /\ s.ids = t.ids /\ s.step = "write"
  BY <1>1, ReadRestStep
<1>3. t.step = "rest" /\ t.op \in {"revoke", "close"}
  BY <1>1, ReadRestStep
<1>4. Sure(w)'
  BY <1>2, <1>3, ReadOnly, SureStep DEF Sure, Counting
<1>5. AsRead(w)'
  BY <1>2, <1>3, ReadOnly DEF AsRead, Begun, Unseats
<1>6. Counted(w)'
  BY <1>2, <1>3, ReadOnly DEF Counted
<1> QED BY <1>1, <1>2, <1>4, <1>5, <1>6, OwnerTurn

LEMMA OwnerReads == ASSUME OwnerInv, NEW w \in Worker, Reads(w) PROVE OwnerInv'
<1>1. CASE Refuse(w)
  BY <1>1, OwnerStop
<1>2. CASE ~Refuse(w)
  BY <1>2, OwnerLoads, OwnerLooks, OwnerCounts, OwnerReadRest DEF Reads
<1> QED BY <1>1, <1>2

-----------------------------------------------------------------------------
(* Owners: the writes *)

\* Nobody is made an owner in a branch of the shop.
NoNewOwner ==
    /\ \A i \in Row : row'[i].live /\ row'[i].role = "owner" =>
         \/ row'[i].branch \notin Opened
         \/ /\ row[i].live /\ row[i].role = "owner"
            /\ row'[i].user = row[i].user /\ row'[i].branch = row[i].branch
    /\ \A i \in Row : row[i] # NoRow /\ row'[i].role = "owner" => row[i].role = "owner"
    /\ \A u \in User : status'[u] = "active" => status[u] \in {"active", "none"}

LEMMA OwnerRowsLeft ==
    ASSUME BaseInv, BaseInv', NoNewOwner, NEW B \in SUBSET Opened
    PROVE  (OwnerRowsIn(B))' \subseteq OwnerRowsIn(B)
<1> SUFFICES ASSUME NEW i \in OwnerRows', row'[i].branch \in B PROVE i \in OwnerRows /\ row[i].branch \in B
  BY DEF OwnerRowsIn
<1>1. i \in Row /\ row'[i].live /\ row'[i].role = "owner" /\ status'[row'[i].user] = "active"
  BY DEF OwnerRows
<1>2. row[i].live /\ row[i].role = "owner" /\ row'[i].user = row[i].user /\ row'[i].branch = row[i].branch
  BY <1>1 DEF NoNewOwner
<1>3. status[row[i].user] # "none" /\ row[i].user \in User
  BY <1>1, <1>2, RowFacts DEF BaseInv, Worked
<1> QED BY <1>1, <1>2, <1>3 DEF NoNewOwner, OwnerRows

LEMMA ShopOwnersLeft ==
    ASSUME BaseInv, BaseInv', NoNewOwner, Opened' = Opened
    PROVE  ShopOwners' \subseteq ShopOwners
<1> SUFFICES ASSUME NEW u \in ShopOwners' PROVE u \in ShopOwners
  OBVIOUS
<1>1. /\ u \in User /\ status'[u] = "active"
      /\ \A b \in Opened : \E i \in Row : /\ row'[i].live /\ row'[i].user = u
                                         /\ row'[i].role = "owner" /\ row'[i].branch = b
  BY DEF ShopOwners, Manages, OwnedBy, Rows
<1>2. \A b \in Opened : \E i \in Row : /\ row[i].live /\ row[i].user = u
                                      /\ row[i].role = "owner" /\ row[i].branch = b
  BY <1>1 DEF NoNewOwner
<1>3. \E i \in Row : row[i].live /\ row[i].user = u
  BY <1>2 DEF BaseInv
<1>4. status[u] # "none"
  BY <1>3, RowFacts DEF BaseInv, Worked
<1> QED BY <1>1, <1>2, <1>4, OwnsAll DEF NoNewOwner, BaseInv

(* Who owns the shop and is left alone goes on owning it. *)
LEMMA ShopOwnerKept ==
    ASSUME BaseInv, BaseInv', Opened' = Opened, NEW u \in ShopOwners, status'[u] = "active",
           \A i \in Row : row[i].live /\ row[i].user = u /\ row[i].role = "owner" =>
                          /\ row'[i].live /\ row'[i].user = u /\ row'[i].role = "owner"
                          /\ row'[i].branch = row[i].branch
    PROVE  u \in ShopOwners'
<1>1. /\ u \in User
      /\ \A b \in Opened : \E i \in Row : /\ row[i].live /\ row[i].user = u
                                         /\ row[i].role = "owner" /\ row[i].branch = b
  BY OwnersFacts, OwnsAll DEF BaseInv
<1>2. \A b \in Opened' : \E i \in Row : /\ row'[i].live /\ row'[i].user = u
                                       /\ row'[i].role = "owner" /\ row'[i].branch = b
  BY <1>1
<1>3. Opened' \subseteq (OwnedBy(u))'
  BY <1>2 DEF OwnedBy, Rows
<1> QED BY <1>1, <1>3 DEF ShopOwners, Manages

(* A write that ends its request. *)
LEMMA OwnerWrite ==
    ASSUME OwnerInv, BaseInv', NEW w \in Worker, GoOn(w, Idle), Spared, ShopOwners' # {},
           Making(w) \/ NoNewOwner,
           txn[w].held = {} => Opened' = Opened /\ ShopOwners \subseteq ShopOwners'
    PROVE  OwnerInv'
<1>1. /\ txn'[w] = Idle /\ \A v \in Worker \ {w} : txn'[v] = txn[v]
      /\ First' = First /\ First \subseteq Opened /\ Opened \subseteq Opened'
  BY DEF OwnerInv, BaseInv, TypeOK, GoOn, First, Spared
<1>2. Sure(w)' /\ AsRead(w)' /\ Counted(w)' /\ ~Taking(w)' /\ ~Making(w)'
  BY <1>1 DEF Sure, AsRead, Counted, Idle, Begun, Counting, Unseats, Taking, Making, Takes, Makes
<1>3. ASSUME NEW v \in Worker \ {w} PROVE Sure(v)' /\ AsRead(v)' /\ Counted(v)'
  <2>1. /\ Sure(v) /\ AsRead(v) /\ Counted(v) /\ Named(v) /\ txn'[v] = txn[v]
        /\ (Taking(v)' <=> Taking(v)) /\ (Begun(v)' <=> Begun(v))
        /\ txn[v].held = {} \/ txn[w].held = {}
    BY <1>1 DEF OwnerInv, BaseInv, Taking, Begun
  <2>2. Taking(v) => NoNewOwner
    BY DEF OwnerInv
  <2>3. \A B \in SUBSET Opened : Taking(v) => (OwnerRowsIn(B))' \subseteq OwnerRowsIn(B)
    BY <2>2, OwnerRowsLeft DEF OwnerInv
  <2>4. txn[v].held # {} => Opened' = Opened /\ ShopOwners \subseteq ShopOwners'
    BY <2>1
  <2>5. Sure(v)'
    <3>1. txn[v].step = "lock" => (OwnerRowsIn(First \cup txn[v].ids))' \subseteq txn[v].found
      <4>1. ASSUME txn[v].step = "lock" PROVE (OwnerRowsIn(First \cup txn[v].ids))' \subseteq txn[v].found
        <5>1. PICK B \in SUBSET Opened : B = First \cup txn[v].ids
          BY <1>1, <2>1 DEF Sure
        <5>2. Taking(v)
          BY <2>1, <4>1 DEF Named, Counting, Taking
        <5>3. (OwnerRowsIn(B))' \subseteq OwnerRowsIn(B) /\ OwnerRowsIn(B) \subseteq txn[v].found
          BY <2>1, <2>3, <4>1, <5>1, <5>2 DEF Sure
        <5>4. (OwnerRowsIn(First \cup txn[v].ids))' = (OwnerRowsIn(B))'
          BY <1>1, <2>1, <5>1 DEF OwnerRowsIn
        <5> QED BY <5>3, <5>4
      <4> QED BY <4>1
    <3>2. txn[v].held # {} => Taking(v) /\ (OwnerRowsIn(First))' \subseteq txn[v].held
      <4>1. ASSUME txn[v].held # {} PROVE Taking(v) /\ (OwnerRowsIn(First))' \subseteq txn[v].held
        <5>1. Taking(v) /\ OwnerRowsIn(First) \subseteq txn[v].held
          BY <2>1, <4>1 DEF Sure
        <5>2. PICK B \in SUBSET Opened : B = First
          BY <1>1
        <5>3. (OwnerRowsIn(B))' \subseteq OwnerRowsIn(B)
          BY <2>3, <5>1
        <5>4. (OwnerRowsIn(First))' = (OwnerRowsIn(B))'
          BY <1>1, <5>2 DEF OwnerRowsIn
        <5> QED BY <5>1, <5>2, <5>3, <5>4
      <4> QED BY <4>1
    <3>3. txn[v].ids \subseteq Opened'
      BY <1>1, <2>1 DEF Sure
    <3>4. txn[v].op # "open" /\ txn[v].owned = {} /\ txn[v].step \in {"look", "lock"} => txn[v].ids = Opened'
      BY <2>1, <2>4 DEF Sure, Counting
    <3> QED BY <2>1, <3>1, <3>2, <3>3, <3>4 DEF Sure
  <2>6. AsRead(v)'
    <3>1. Taking(v) /\ txn[v].op \in {"role", "revoke"} /\ Begun(v) /\ txn[v].at # 0 /\ txn[v].was # "owner" =>
            row'[txn[v].at].role # "owner"
      <4>1. ASSUME Taking(v), txn[v].op \in {"role", "revoke"}, Begun(v), txn[v].at # 0, txn[v].was # "owner"
            PROVE  row'[txn[v].at].role # "owner"
        <5>1. row[txn[v].at].role # "owner" /\ row[txn[v].at].user \in User /\ txn[v].at \in Row
          BY <2>1, <4>1, TxnType DEF AsRead, Named, OwnerInv, BaseInv
        <5>2. row[txn[v].at] # NoRow
          BY <5>1, NoneFacts
        <5> QED BY <2>2, <4>1, <5>1, <5>2 DEF NoNewOwner
      <4> QED BY <4>1
    <3>2. txn[v].op = "disable" /\ txn[v].step = "write" /\ txn[v].held = {} =>
            ~(First \subseteq (OwnedBy(txn[v].user))')
      <4>1. ASSUME txn[v].op = "disable", txn[v].step = "write", txn[v].held = {},
                   First \subseteq (OwnedBy(txn[v].user))'
            PROVE  FALSE
        <5>1. NoNewOwner /\ ~(First \subseteq OwnedBy(txn[v].user))
          BY <2>1, <2>2, <4>1 DEF AsRead, Taking, Takes
        <5>2. PICK b \in First : b \notin OwnedBy(txn[v].user)
          BY <5>1
        <5>3. PICK i \in Row : /\ row'[i].live /\ row'[i].user = txn[v].user
                               /\ row'[i].role = "owner" /\ row'[i].branch = b
          BY <2>1, <4>1 DEF OwnedBy, Rows
        <5>4. row[i].live /\ row[i].user = txn[v].user /\ row[i].role = "owner" /\ row[i].branch = b
          BY <1>1, <5>1, <5>3 DEF NoNewOwner
        <5> QED BY <5>2, <5>4 DEF OwnedBy, Rows
      <4> QED BY <4>1
    <3> QED BY <1>1, <2>1, <3>1, <3>2 DEF AsRead
  <2>7. Counted(v)'
    <3>1. ASSUME txn[v].held # {}, txn[v].op = "open", txn[v].step = "write", ShopOwners \subseteq txn[v].gets
          PROVE  ShopOwners' \subseteq txn[v].gets
      <4>1. NoNewOwner /\ Opened' = Opened
        BY <2>2, <2>4, <3>1 DEF Taking, Takes
      <4> QED BY <3>1, <4>1, ShopOwnersLeft DEF OwnerInv
    <3>2. txn[v].op = "open" => txn[v].step # "rest"
      BY <2>1 DEF Named
    <3> QED BY <2>1, <2>4, <3>1, <3>2 DEF Counted
  <2> QED BY <2>5, <2>6, <2>7
<1>4. \A v \in Worker : Sure(v)' /\ AsRead(v)' /\ Counted(v)'
  BY <1>2, <1>3
<1>5. \A x, v \in Worker : x # v => txn'[x].held = {} \/ txn'[v].held = {}
  BY <1>1 DEF OwnerInv, Idle
<1>6. \A v \in Worker \ {w} : (Taking(v)' <=> Taking(v)) /\ (Making(v)' <=> Making(v))
  BY <1>1 DEF Taking, Making
<1>7. \A x, v \in Worker : Taking(x)' => ~Making(v)'
  BY <1>2, <1>6 DEF OwnerInv
<1> QED BY <1>4, <1>5, <1>7 DEF OwnerInv

(* A write about one employee: the others go on owning the shop. *)
LEMMA OwnerWriteOne ==
    ASSUME OwnerInv, BaseInv', NEW w \in Worker, GoOn(w, Idle), Spared, Opened' = Opened,
           Making(w) \/ NoNewOwner, txn[w].op # "open", txn[w].step = "write",
           \A u \in ShopOwners : u # txn[w].user \/ txn[w].held = {} => u \in ShopOwners'
    PROVE  OwnerInv'
<1>1. PICK u \in ShopOwners : u # txn[w].user \/ txn[w].held = {}
  <2>1. CASE txn[w].held = {}
    BY <2>1 DEF OwnerInv
  <2>2. CASE txn[w].held # {}
    BY <2>2 DEF OwnerInv, Counted
  <2> QED BY <2>1, <2>2
<1>2. ShopOwners' # {} /\ (txn[w].held = {} => ShopOwners \subseteq ShopOwners')
  BY <1>1
<1> QED BY <1>2, OwnerWrite

LEMMA OwnerWriteRole == ASSUME OwnerInv, NEW w \in Worker, WriteRole(w) PROVE OwnerInv'
<1> DEFINE t == txn[w]
<1>1. /\ BaseInv /\ BaseInv' /\ Spared /\ GoOn(w, Idle) /\ UNCHANGED <<status, branch>>
      /\ t.op = "role" /\ t.step = "write" /\ t.user \in User /\ AsRead(w) /\ Begun(w) /\ TypeOK
      /\ Opened' = Opened
  BY WriteRoleKeeps DEF OwnerInv, BaseInv, Begun, Opened
<1>2. \A i \in Row :
        \/ row'[i] = row[i]
        \/ row[i] = NoRow /\ t.at = 0 /\ row'[i] = Assignment(t.user, t.branch, t.role)
        \/ /\ i = t.at /\ row[i] # NoRow /\ row[i].user = t.user
           /\ row'[i].user = row[i].user /\ row'[i].branch = row[i].branch /\ row'[i].live = row[i].live
           /\ row'[i].role = row[i].role \/ (t.role # t.was /\ row'[i].role = t.role)
  BY <1>1, WriteRoleKeeps, NoneFacts
<1>3. Making(w) \/ NoNewOwner
  <2>1. CASE t.role = "owner"
    BY <1>1, <2>1 DEF Making, Makes
  <2>2. CASE t.role # "owner"
    <3>1. \A i \in Row : row'[i].role = "owner" =>
            row[i].role = "owner" /\ row'[i].live = row[i].live /\ row'[i].user = row[i].user
            /\ row'[i].branch = row[i].branch
      BY <1>2, <2>2 DEF Assignment
    <3> QED BY <1>1, <3>1 DEF NoNewOwner
  <2> QED BY <2>1, <2>2
<1>4. ASSUME NEW u \in ShopOwners, u # t.user \/ t.held = {} PROVE u \in ShopOwners'
  <2>1. u \in User /\ status'[u] = "active"
    BY <1>1, OwnersFacts, OwnsAll
  <2>2. ASSUME NEW i \in Row, row[i].live, row[i].user = u, row[i].role = "owner"
        PROVE  /\ row'[i].live /\ row'[i].user = u /\ row'[i].role = "owner"
               /\ row'[i].branch = row[i].branch
    <3>1. row[i] # NoRow
      BY <2>1, <2>2, NoneFacts
    <3>2. CASE row'[i] = row[i]
      BY <2>2, <3>2
    <3>3. CASE row'[i] # row[i]
      <4>1. /\ i = t.at /\ row[i].user = t.user
            /\ row'[i].user = row[i].user /\ row'[i].branch = row[i].branch /\ row'[i].live = row[i].live
            /\ row'[i].role = row[i].role \/ row'[i].role = t.role
        BY <1>2, <3>1, <3>3
      <4>2. i # 0
        BY DEF Row
      <4>3. /\ i = t.at /\ u = t.user /\ t.held = {} /\ i # 0
            /\ row'[i].user = row[i].user /\ row'[i].branch = row[i].branch /\ row'[i].live = row[i].live
            /\ row'[i].role = row[i].role \/ row'[i].role = t.role
        BY <1>4, <2>2, <4>1, <4>2
      <4>4. t.role = "owner"
        <5>1. t.role # "owner" => t.was = "owner"
          BY <1>1, <2>2, <4>3 DEF AsRead, Taking, Takes
        <5>2. ~Unseats(t)
          BY <1>1, <4>3 DEF AsRead
        <5> QED BY <5>1, <5>2 DEF Unseats
      <4> QED BY <2>2, <4>3, <4>4
    <3> QED BY <3>2, <3>3
  <2> QED BY <1>1, <2>1, <2>2, ShopOwnerKept
<1> QED BY <1>1, <1>3, <1>4, OwnerWriteOne

LEMMA OwnerWriteRevoke == ASSUME OwnerInv, NEW w \in Worker, WriteRevoke(w) PROVE OwnerInv'
<1> DEFINE t == txn[w]
<1>1. /\ BaseInv /\ BaseInv' /\ Spared /\ GoOn(w, Idle) /\ UNCHANGED <<status, branch>>
      /\ t.op = "revoke" /\ t.step = "write" /\ t.user \in User /\ t.at \in Row
      /\ row[t.at].user = t.user
      /\ \A i \in Row : i # t.at => row'[i] = row[i]
      /\ row'[t.at].role = row[t.at].role /\ row'[t.at].live = FALSE
      /\ AsRead(w) /\ Begun(w) /\ TypeOK /\ Named(w) /\ Opened' = Opened
  BY WriteRevokeKeeps DEF OwnerInv, BaseInv, Begun, Opened
<1>2. NoNewOwner
  <2>1. \A i \in Row : row'[i].live => row'[i] = row[i]
    BY <1>1
  <2>2. \A i \in Row : row'[i].role = row[i].role
    BY <1>1
  <2> QED BY <1>1, <2>1, <2>2 DEF NoNewOwner
<1>3. ASSUME NEW u \in ShopOwners, u # t.user \/ t.held = {} PROVE u \in ShopOwners'
  <2>1. u \in User /\ status'[u] = "active"
    BY <1>1, OwnersFacts, OwnsAll
  <2>2. u = t.user => row[t.at].role # "owner"
    <3>1. u = t.user => ~Unseats(t)
      BY <1>1, <1>3 DEF AsRead
    <3>2. t.role = "none"
      BY <1>1 DEF Named
    <3>3. t.at # 0
      BY <1>1 DEF Row
    <3> QED BY <1>1, <3>1, <3>2, <3>3 DEF AsRead, Unseats, Taking, Takes
  <2>3. ASSUME NEW i \in Row, row[i].live, row[i].user = u, row[i].role = "owner" PROVE row'[i] = row[i]
    BY <1>1, <2>2, <2>3
  <2> QED BY <1>1, <2>1, <2>3, ShopOwnerKept
<1> QED BY <1>1, <1>2, <1>3, OwnerWriteOne

LEMMA OwnerWriteStatus == ASSUME OwnerInv, NEW w \in Worker, WriteStatus(w) PROVE OwnerInv'
<1> DEFINE t == txn[w]
<1>1. /\ BaseInv /\ BaseInv' /\ Spared /\ GoOn(w, Idle) /\ UNCHANGED <<row, branch>>
      /\ t.op \in {"disable", "enable"} /\ t.step = "write" /\ t.user \in User
      /\ status[t.user] # "none"
      /\ \A u \in User : status'[u] # status[u] =>
           u = t.user /\ status'[u] = IF t.op = "enable" THEN "active" ELSE "disabled"
      /\ AsRead(w) /\ TypeOK /\ Opened' = Opened
  BY WriteStatusKeeps DEF OwnerInv, BaseInv, Opened
<1>2. Making(w) \/ NoNewOwner
  <2>1. CASE t.op = "enable"
    BY <2>1 DEF Making, Makes
  <2>2. CASE t.op = "disable"
    <3>1. \A u \in User : status'[u] = "active" => status[u] = "active"
      BY <1>1, <2>2
    <3> QED BY <1>1, <3>1 DEF NoNewOwner
  <2> QED BY <1>1, <2>1, <2>2
<1>3. ASSUME NEW u \in ShopOwners, u # t.user \/ t.held = {} PROVE u \in ShopOwners'
  <2>1. u \in User /\ status[u] = "active" /\ Opened \subseteq OwnedBy(u)
    BY <1>1, OwnersFacts DEF ShopOwners, Manages
  <2>2. status'[u] = "active"
    <3>1. CASE t.op = "enable"
      BY <1>1, <2>1, <3>1
    <3>2. CASE t.op = "disable"
      <4>1. u # t.user
        <5>1. First \subseteq OwnedBy(u)
          BY <2>1 DEF OwnerInv, BaseInv
        <5> QED BY <1>1, <1>3, <3>2, <5>1 DEF AsRead
      <4> QED BY <1>1, <2>1, <4>1
    <3> QED BY <1>1, <3>1, <3>2
  <2>3. \A i \in Row : row'[i] = row[i]
    BY <1>1
  <2> QED BY <1>1, <2>2, <2>3, ShopOwnerKept
<1> QED BY <1>1, <1>2, <1>3, OwnerWriteOne

LEMMA OwnerWriteEmployee == ASSUME OwnerInv, NEW w \in Worker, WriteEmployee(w) PROVE OwnerInv'
<1> DEFINE t == txn[w]
<1>1. CASE Refuse(w)
  BY <1>1, OwnerStop
<1>2. CASE ~Refuse(w)
  <2>1. /\ BaseInv /\ BaseInv' /\ Spared /\ GoOn(w, Idle) /\ Opened' = Opened
        /\ t.op = "hire" /\ t.step = "write" /\ t.user \in User /\ status[t.user] = "none"
        /\ \A u \in User : u # t.user => status'[u] = status[u]
    BY <1>2, WriteEmployeeKeeps DEF OwnerInv, Opened
  <2>2. PICK k \in Row : /\ row[k] = NoRow /\ \A i \in Row : i # k => row'[i] = row[i]
                         /\ row'[k] = Assignment(t.user, t.branch, t.role)
    BY <1>2, WriteEmployeeKeeps DEF OwnerInv
  <2>3. Making(w) \/ NoNewOwner
    <3>1. CASE t.role = "owner"
      BY <2>1, <3>1 DEF Making, Makes
    <3>2. CASE t.role # "owner"
      <4>1. \A i \in Row : row'[i].role = "owner" => row'[i] = row[i]
        BY <2>2, <3>2 DEF Assignment
      <4> QED BY <2>1, <4>1 DEF NoNewOwner
    <3> QED BY <3>1, <3>2
  <2>4. ASSUME NEW u \in ShopOwners PROVE u \in ShopOwners'
    <3>1. u \in User /\ status[u] = "active"
      BY <2>1, OwnersFacts, OwnsAll DEF BaseInv
    <3>2. status'[u] = "active"
      BY <2>1, <3>1
    <3>3. \A i \in Row : row[i].live => row'[i] = row[i]
      BY <2>2, NoneFacts
    <3> QED BY <2>1, <3>2, <3>3, ShopOwnerKept
  <2> QED BY <2>1, <2>3, <2>4, OwnerWriteOne
<1> QED BY <1>1, <1>2

LEMMA OwnerWriteBranch == ASSUME OwnerInv, NEW w \in Worker, WriteBranch(w) PROVE OwnerInv'
<1> DEFINE t == txn[w]
<1>1. /\ BaseInv /\ BaseInv' /\ Spared /\ GoOn(w, Idle) /\ UNCHANGED status
      /\ t.op = "open" /\ t.step = "write"
      /\ t.branch \in Branch \ Opened /\ Opened' = Opened \cup {t.branch}
      /\ \A i \in Row : row[i] # NoRow => row'[i] = row[i]
      /\ \A i \in Row : row[i] = NoRow /\ row'[i] # NoRow => row'[i].branch = t.branch
      /\ \A u \in t.gets : \E i \in Row : row'[i] = Assignment(u, t.branch, "owner")
  BY WriteBranchKeeps DEF OwnerInv
<1>2. t.held # {} /\ ShopOwners \subseteq t.gets
  BY <1>1 DEF OwnerInv, AsRead, Counted
<1>3. NoNewOwner
  <2>1. ASSUME NEW i \in Row, row'[i].live /\ row'[i].role = "owner"
        PROVE  row'[i].branch \notin Opened \/ row'[i] = row[i]
    <3>1. row'[i] # NoRow
      BY <2>1, NoneFacts
    <3> QED BY <1>1, <3>1
  <2>2. \A i \in Row : row[i] # NoRow => row'[i] = row[i]
    BY <1>1
  <2> QED BY <1>1, <2>1, <2>2 DEF NoNewOwner
<1>4. ShopOwners' # {}
  <2>1. PICK u \in ShopOwners : u \in t.gets
    BY <1>2 DEF OwnerInv
  <2>2. /\ u \in User /\ status'[u] = "active"
        /\ \A b \in Opened : \E i \in Row : /\ row[i].live /\ row[i].user = u
                                           /\ row[i].role = "owner" /\ row[i].branch = b
    BY <1>1, OwnersFacts, OwnsAll DEF BaseInv
  <2>3. \A i \in Row : row[i].live => row'[i] = row[i]
    BY <1>1, NoneFacts
  <2>4. PICK k \in Row : row'[k] = Assignment(u, t.branch, "owner")
    BY <1>1, <2>1
  <2>5. row'[k].live /\ row'[k].user = u /\ row'[k].role = "owner" /\ row'[k].branch = t.branch
    BY <2>4 DEF Assignment
  <2>6. \A b \in Opened' : \E i \in Row : /\ row'[i].live /\ row'[i].user = u
                                         /\ row'[i].role = "owner" /\ row'[i].branch = b
    BY <1>1, <2>2, <2>3, <2>5
  <2>7. Opened' \subseteq (OwnedBy(u))'
    BY <2>6 DEF OwnedBy, Rows
  <2> QED BY <2>2, <2>7 DEF ShopOwners, Manages
<1> QED BY <1>1, <1>2, <1>3, <1>4, OwnerWrite

LEMMA OwnerWriteActive == ASSUME OwnerInv, NEW w \in Worker, WriteActive(w) PROVE OwnerInv'
<1>1. /\ BaseInv' /\ Spared /\ GoOn(w, Idle) /\ UNCHANGED <<row, status>> /\ Opened' = Opened
      /\ txn[w].op \in {"activate", "close"} /\ txn[w].step = "write"
  BY WriteActiveKeeps DEF OwnerInv
<1>2. NoNewOwner
  BY <1>1 DEF NoNewOwner
<1>3. ShopOwners' = ShopOwners
  BY <1>1 DEF ShopOwners, Manages, OwnedBy, Rows
<1> QED BY <1>1, <1>2, <1>3, OwnerWriteOne

LEMMA OwnerInit == Init => OwnerInv
<1> SUFFICES ASSUME Init PROVE OwnerInv
  OBVIOUS
<1>1. BaseInv /\ TypeOK
  BY BaseInit DEF BaseInv
<1>2. /\ \A i \in 1 .. Len(Start) : /\ i \in Row /\ row[i] = Start[i] /\ row[i].live
                                    /\ row[i].user \in User /\ status[row[i].user] = "active"
      /\ \A b \in Opened : \E i \in 1 .. Len(Start) : Start[i].branch = b
  BY InitStart
<1>3. PICK u \in User :
        /\ \E i \in 1 .. Len(Start) : Start[i].user = u
        /\ \A i \in 1 .. Len(Start) :
              \E j \in 1 .. Len(Start) : /\ Start[j].user = u /\ Start[j].role = "owner"
                                         /\ Start[j].branch = Start[i].branch
  BY FounderAssumption
<1>4. \A b \in Opened : \E i \in Row : /\ row[i].live /\ row[i].user = u
                                      /\ row[i].role = "owner" /\ row[i].branch = b
  <2> SUFFICES ASSUME NEW b \in Opened
               PROVE  \E i \in Row : /\ row[i].live /\ row[i].user = u
                                     /\ row[i].role = "owner" /\ row[i].branch = b
    OBVIOUS
  <2>1. PICK i \in 1 .. Len(Start) : Start[i].branch = b
    BY <1>2
  <2>2. PICK j \in 1 .. Len(Start) : /\ Start[j].user = u /\ Start[j].role = "owner"
                                    /\ Start[j].branch = b
    BY <1>3, <2>1
  <2> QED BY <1>2, <2>2
<1>5. u \in ShopOwners
  <2>1. status[u] = "active"
    BY <1>2, <1>3
  <2> QED BY <1>1, <1>4, <2>1, OwnsAll
<1>6. \A w \in Worker : txn[w] = Idle
  BY DEF Init
<1>7. \A w \in Worker : /\ Sure(w) /\ AsRead(w) /\ Counted(w)
                        /\ ~Taking(w) /\ ~Making(w) /\ txn[w].held = {}
  BY <1>6 DEF Sure, AsRead, Counted, Idle, Begun, Counting, Unseats, Taking, Making, Takes, Makes
<1> QED BY <1>1, <1>5, <1>7 DEF OwnerInv

LEMMA OwnerNext == ASSUME ~MadeMeanwhile PROVE OwnerInv /\ [Next]_vars => OwnerInv'
<1> SUFFICES ASSUME OwnerInv, [Next]_vars PROVE OwnerInv'
  OBVIOUS
<1>1. CASE UNCHANGED vars
  <2>1. BaseInv' /\ UNCHANGED <<row, status, home, branch, txn>>
    BY <1>1, BaseStutter DEF OwnerInv, vars
  <2>2. ShopOwners' = ShopOwners
    BY <2>1 DEF Opened, ShopOwners, Manages, OwnedBy, Rows
  <2>3. ASSUME NEW w \in Worker PROVE Sure(w)' /\ AsRead(w)' /\ Counted(w)'
    <3>1. Sure(w)'
      BY <2>1 DEF OwnerInv, Sure, Opened, OwnerRowsIn, OwnerRows, Taking, First
    <3>2. AsRead(w)'
      <4>1. AsRead(w) /\ (Taking(w)' <=> Taking(w)) /\ (Begun(w)' <=> Begun(w)) /\ First' = First
        BY <2>1 DEF OwnerInv, Taking, Begun, First
      <4>2. (OwnedBy(txn[w].user))' = OwnedBy(txn[w].user)
        BY <2>1 DEF OwnedBy, Rows
      <4> QED BY <2>1, <4>1, <4>2 DEF AsRead
    <3>3. Counted(w)'
      BY <2>1, <2>2 DEF OwnerInv, Counted
    <3> QED BY <3>1, <3>2, <3>3
  <2>4. \A w, v \in Worker : Taking(w)' => ~Making(v)'
    BY <2>1 DEF OwnerInv, Taking, Making
  <2> QED BY <2>1, <2>2, <2>3, <2>4 DEF OwnerInv
<1>2. ASSUME NEW w \in Worker, Fail(w) PROVE OwnerInv'
  BY <1>2, OwnerStop DEF Fail
<1>3. ASSUME NEW w \in Worker,
             \/ AskFor(w) \/ Reads(w)
             \/ WriteRole(w) \/ WriteRevoke(w) \/ WriteStatus(w) \/ WriteEmployee(w)
             \/ WriteBranch(w) \/ WriteActive(w)
      PROVE  OwnerInv'
  BY <1>3, OwnerAsk, OwnerReads, OwnerWriteRole, OwnerWriteRevoke, OwnerWriteStatus,
     OwnerWriteEmployee, OwnerWriteBranch, OwnerWriteActive
<1> QED BY <1>1, <1>2, <1>3 DEF Next, Reads

(* ShopKeepsOwner: somebody active owns every branch, however requests that unseat,    *)
(* switch off, close and open branches interleave, each reading and locking statement  *)
(* by statement, as long as no request that makes an owner is served while one is that *)
(* takes an owner's rights away or opens a branch.                                     *)
THEOREM ShopAlwaysKeepsOwner ==
    ASSUME ~MadeMeanwhile
    PROVE  Spec => []ShopKeepsOwner
<1>1. OwnerInv => ShopKeepsOwner
  BY DEF OwnerInv, ShopKeepsOwner
<1> QED BY <1>1, OwnerInit, OwnerNext, PTL DEF Spec

(* BranchKeepsOwner: no branch loses its last active owner, under the same condition;  *)
(* without it the runs granted and promoted show one that does.                        *)
THEOREM BranchAlwaysKeepsOwner ==
    ASSUME ~MadeMeanwhile
    PROVE  Spec => []BranchKeepsOwner
<1>1. OwnerInv => BranchKeepsOwner
  <2> SUFFICES ASSUME OwnerInv, NEW b \in Opened PROVE OwnersOf(b) # {}
    BY DEF BranchKeepsOwner
  <2>1. PICK u \in ShopOwners : TRUE
    BY DEF OwnerInv
  <2> QED BY <2>1 DEF ShopOwners, OwnersOf
<1> QED BY <1>1, OwnerInit, OwnerNext, PTL DEF Spec


-----------------------------------------------------------------------------
(* Requests kept apart *)

\* A step of w leaves its request what it was about, or ends it.
SameRequest(w) ==
    /\ \A v \in Worker \ {w} : txn'[v] = txn[v]
    /\ txn'[w] = Idle \/ (txn'[w].op = txn[w].op /\ txn'[w].user = txn[w].user)

LEMMA IdleRequest ==
    ASSUME BaseInv, NEW w \in Worker, GoOn(w, Idle)
    PROVE  SameRequest(w) /\ txn'[w] = Idle
  BY NoneFacts DEF BaseInv, TypeOK, GoOn, SameRequest

LEMMA SameStays ==
    ASSUME NEW w \in Worker, SameRequest(w), NEW op \in Op, KeptApart(op)
    PROVE  KeptApart(op)'
<1> SUFFICES ASSUME NEW x \in Worker, NEW v \in Worker, x # v, txn'[x].op = op, txn'[v].op # "none"
             PROVE  txn'[x].user # txn'[v].user
  BY DEF KeptApart
<1>1. \A y \in Worker : txn'[y].op # "none" => txn'[y].op = txn[y].op /\ txn'[y].user = txn[y].user
  BY DEF SameRequest, Idle
<1> QED BY <1>1 DEF KeptApart, Op

LEMMA AskStays ==
    ASSUME BaseInv, NEW w \in Worker, AskFor(w), NEW op \in Alone, op # "none", KeptApart(op)
    PROVE  KeptApart(op)'
<1>1. /\ \A v \in Worker \ {w} : txn'[v] = txn[v]
      /\ Together(txn'[w].op, txn'[w].user)
  BY AskForKeeps DEF Came
<1>2. \A v \in Worker \ {w} : txn[v].op # "none" /\ txn[v].user = txn'[w].user =>
                              txn'[w].op # op /\ txn[v].op # op
  BY <1>1 DEF Together
<1> SUFFICES ASSUME NEW x \in Worker, NEW v \in Worker, x # v, txn'[x].op = op, txn'[v].op # "none"
             PROVE  txn'[x].user # txn'[v].user
  BY DEF KeptApart
<1>3. CASE x = w
  BY <1>1, <1>2, <1>3
<1>4. CASE v = w
  BY <1>1, <1>2, <1>4
<1>5. CASE x # w /\ v # w
  BY <1>1, <1>5 DEF KeptApart
<1> QED BY <1>3, <1>4, <1>5
-----------------------------------------------------------------------------
(* Employment *)

LEMMA BranchesKept ==
    ASSUME NEW u,
           \A i \in Row : row[i].live /\ row[i].user = u =>
                          row'[i].live /\ row'[i].user = u /\ row'[i].branch = row[i].branch
    PROVE  BranchesOf(u) \subseteq (BranchesOf(u))'
  BY DEF BranchesOf, Rows

(* A step that writes nothing but its own request. *)
LEMMA EmployedOwnStep ==
    ASSUME EmployedInv, BaseInv', NEW w \in Worker, UNCHANGED data, \A v \in Worker \ {w} : txn'[v] = txn[v],
           KeptApart("revoke")', HomeAsRead(w)'
    PROVE  EmployedInv'
<1>1. UNCHANGED <<row, status, home>>
  BY DEF data
<1>2. StaysEmployed'
  BY <1>1 DEF EmployedInv, StaysEmployed, BranchesOf, Rows
<1>3. ASSUME NEW v \in Worker \ {w} PROVE HomeAsRead(v)'
  BY <1>1 DEF EmployedInv, HomeAsRead, BranchesOf, Rows
<1> QED BY <1>2, <1>3 DEF EmployedInv

(* A write leaves the revocations of others what they read of their employee. *)
LEMMA EmployedWrite ==
    ASSUME EmployedInv, BaseInv', NEW w \in Worker, GoOn(w, Idle), StaysEmployed',
           \A v \in Worker \ {w} : txn[v].op = "revoke" =>
               LET u == txn[v].user IN
               home'[u] = home[u] /\ \A i \in Row : row[i].live /\ row[i].user = u => row'[i] = row[i]
    PROVE  EmployedInv'
<1>1. SameRequest(w) /\ txn'[w] = Idle /\ \A v \in Worker \ {w} : txn'[v] = txn[v]
  BY IdleRequest DEF EmployedInv, SameRequest
<1>2. KeptApart("revoke")'
  BY <1>1, SameStays DEF EmployedInv, Op
<1>3. HomeAsRead(w)'
  BY <1>1 DEF HomeAsRead, Idle
<1>4. ASSUME NEW v \in Worker \ {w} PROVE HomeAsRead(v)'
  <2>1. CASE txn[v].op = "revoke"
    <3>1. PICK u : u = txn[v].user
      OBVIOUS
    <3>2. home'[u] = home[u] /\ \A i \in Row : row[i].live /\ row[i].user = u => row'[i] = row[i]
      BY <2>1, <3>1
    <3>3. BranchesOf(u) \subseteq (BranchesOf(u))'
      BY <3>2, BranchesKept
    <3>4. txn'[v] = txn[v] /\ HomeAsRead(v)
      BY <1>1 DEF EmployedInv
    <3>5. txn'[v].step \in Counting \cup {"rest"} => txn'[v].home = home'[u]
      BY <2>1, <3>1, <3>2, <3>4 DEF HomeAsRead
    <3>6. txn'[v].step = "write" => IF home'[u] = txn'[v].branch
                                    THEN txn'[v].home \in (BranchesOf(u))' \ {txn'[v].branch}
                                    ELSE txn'[v].home = None
      BY <2>1, <3>1, <3>2, <3>3, <3>4 DEF HomeAsRead
    <3>7. txn'[v].user = u
      BY <3>1, <3>4
    <3>8. (BranchesOf(txn[v].user))' = (BranchesOf(u))'
      BY <3>7 DEF BranchesOf, Rows
    <3> QED BY <3>5, <3>6, <3>7, <3>8 DEF HomeAsRead
  <2>2. CASE txn[v].op # "revoke"
    BY <1>1, <2>2 DEF HomeAsRead
  <2> QED BY <2>1, <2>2
<1>5. \A v \in Worker : HomeAsRead(v)'
  BY <1>3, <1>4
<1> QED BY <1>2, <1>5 DEF EmployedInv

LEMMA EmployedStop ==
    ASSUME EmployedInv, BaseInv', NEW w \in Worker, GoOn(w, Idle), UNCHANGED data
    PROVE  EmployedInv'
<1>1. SameRequest(w) /\ txn'[w] = Idle /\ \A v \in Worker \ {w} : txn'[v] = txn[v]
  BY IdleRequest DEF EmployedInv, SameRequest
<1>2. KeptApart("revoke")'
  BY <1>1, SameStays DEF EmployedInv, Op
<1>3. HomeAsRead(w)'
  BY <1>1 DEF HomeAsRead, Idle
<1> QED BY <1>1, <1>2, <1>3, EmployedOwnStep

LEMMA EmployedAsk == ASSUME EmployedInv, "revoke" \in Alone, NEW w \in Worker, AskFor(w) PROVE EmployedInv'
<1>1. BaseInv' /\ Came(w)
  BY AskForKeeps DEF EmployedInv
<1>2. KeptApart("revoke")'
  BY AskStays DEF EmployedInv
<1>3. HomeAsRead(w)'
  BY <1>1 DEF Came, HomeAsRead, Counting
<1> QED BY <1>1, <1>2, <1>3, EmployedOwnStep DEF Came

LEMMA EmployedReads == ASSUME EmployedInv, NEW w \in Worker, Reads(w) PROVE EmployedInv'
<1> DEFINE t == txn[w]
<1>1. BaseInv' /\ BaseInv /\ TypeOK /\ t \in Txn /\ Named(w) /\ HomeAsRead(w)
  BY ReadKeeps, TxnType DEF EmployedInv, BaseInv
<1>2. CASE Refuse(w)
  BY <1>1, <1>2, EmployedStop DEF Refuse
<1>3. CASE ~Refuse(w)
  <2>1. PICK s : /\ Turns(w, s)
                 /\ t.op = "revoke" =>
                      \/ s.step \in {"rights", "rest"} /\ s.home = home[t.user]
                      \/ t.step \in Counting /\ s.step \in Counting \cup {"rest"} /\ s.home = t.home
                      \/ t.step = "rest" /\ Remains(t) /\ s.step = "write" /\ s.home = NewHome(t)
    <3>1. CASE ReadAssignment(w)
      BY <1>1, <1>3, <3>1, ReadAssignmentStep
    <3>2. CASE ReadEmployee(w)
      BY <1>1, <1>3, <3>2, ReadEmployeeStep
    <3>3. CASE ReadUsername(w)
      BY <1>1, <1>3, <3>3, ReadUsernameStep
    <3>4. CASE ReadBranch(w)
      BY <1>1, <3>4, ReadBranchStep
    <3>5. CASE HasRights(w)
      BY <1>1, <1>3, <3>5, HasRightsStep DEF Counting
    <3>6. CASE ReadBranches(w)
      BY <1>1, <3>6, ReadBranchesStep DEF Counting
    <3>7. CASE LookForOwners(w)
      BY <1>1, <3>7, LookStep DEF Counting
    <3>8. CASE CountBranch(w)
      BY <1>1, <1>3, <3>8, CountBranchStep DEF Counting, Locks
    <3>9. CASE CountShop(w)
      BY <1>1, <1>3, <3>9, CountShopStep DEF Counting, Locks
    <3>10. CASE ShareBranch(w)
      BY <1>1, <3>10, ShareStep
    <3>11. CASE ReadRest(w)
      BY <1>1, <1>3, <3>11, ReadRestStep
    <3> QED BY <3>1, <3>2, <3>3, <3>4, <3>5, <3>6, <3>7, <3>8, <3>9, <3>10, <3>11 DEF Reads
  <2>2. /\ txn'[w] = s /\ UNCHANGED <<row, home>> /\ \A v \in Worker \ {w} : txn'[v] = txn[v]
        /\ UNCHANGED data /\ s.op = t.op /\ s.user = t.user /\ s.branch = t.branch
    BY <1>1, <2>1, Turned DEF Turns
  <2>3. KeptApart("revoke")'
    BY <2>2, SameStays DEF EmployedInv, SameRequest, Op
  <2>4. HomeAsRead(w)'
    <3>1. CASE t.op # "revoke"
      BY <2>2, <3>1 DEF HomeAsRead
    <3>2. CASE t.op = "revoke" /\ s.step = "write"
      <4>1. t.step = "rest" /\ Remains(t) /\ s.home = NewHome(t) /\ t.home = home[t.user]
        BY <1>1, <2>1, <3>2 DEF HomeAsRead, Counting
      <4>2. IF home[t.user] = t.branch THEN s.home \in BranchesOf(t.user) \ {t.branch} ELSE s.home = None
        BY <1>1, <3>2, <4>1, NewHomeType
      <4>3. (BranchesOf(t.user))' = BranchesOf(t.user)
        BY <2>2 DEF BranchesOf, Rows
      <4> QED BY <2>2, <3>2, <4>2, <4>3 DEF HomeAsRead, Counting
    <3>3. CASE t.op = "revoke" /\ s.step # "write"
      <4>1. s.home = home[t.user]
        BY <1>1, <2>1, <3>3 DEF HomeAsRead
      <4> QED BY <2>2, <3>3, <4>1 DEF HomeAsRead
    <3> QED BY <3>1, <3>2, <3>3
  <2> QED BY <1>1, <2>2, <2>3, <2>4, EmployedOwnStep
<1> QED BY <1>2, <1>3

(* Everybody's live assignments and default branch stay where they are. *)
LEMMA EmployedKept ==
    ASSUME StaysEmployed, \A u \in User : status'[u] # "none" => status[u] # "none",
           \A u \in User : home'[u] = home[u],
           \A i \in Row : row[i].live => /\ row'[i].live /\ row'[i].user = row[i].user
                                         /\ row'[i].branch = row[i].branch
    PROVE  StaysEmployed'
<1> SUFFICES ASSUME NEW u \in User, status'[u] # "none" PROVE home'[u] \in (BranchesOf(u))'
  BY DEF StaysEmployed
<1>1. BranchesOf(u) \subseteq (BranchesOf(u))'
  BY BranchesKept
<1> QED BY <1>1 DEF StaysEmployed

LEMMA EmployedWriteRole == ASSUME EmployedInv, NEW w \in Worker, WriteRole(w) PROVE EmployedInv'
<1> DEFINE t == txn[w]
<1>1. /\ BaseInv /\ BaseInv' /\ t.op = "role" /\ t.user \in User /\ GoOn(w, Idle) /\ UNCHANGED <<status, home>>
  BY WriteRoleKeeps DEF EmployedInv
<1>2. \A i \in Row : row[i].live =>
        /\ row'[i].live /\ row'[i].user = row[i].user /\ row'[i].branch = row[i].branch
        /\ row[i].user # t.user => row'[i] = row[i]
  BY <1>1, WriteRoleKeeps, NoneFacts
<1>3. StaysEmployed'
  BY <1>1, <1>2, EmployedKept DEF EmployedInv
<1>4. \A v \in Worker \ {w} : txn[v].op = "revoke" => txn[v].user # t.user
  BY <1>1 DEF EmployedInv, KeptApart
<1> QED BY <1>1, <1>2, <1>3, <1>4, EmployedWrite

LEMMA EmployedWriteRevoke == ASSUME EmployedInv, NEW w \in Worker, WriteRevoke(w) PROVE EmployedInv'
<1> DEFINE t == txn[w]
<1>1. /\ BaseInv /\ BaseInv' /\ TypeOK /\ t.step = "write" /\ t.op = "revoke" /\ t.user \in User
      /\ GoOn(w, Idle) /\ status' = status
      /\ home' = IF t.home = None THEN home ELSE [home EXCEPT ![t.user] = t.home]
      /\ t.at \in Row /\ row[t.at].user = t.user /\ row[t.at].branch = t.branch
      /\ \A i \in Row : i # t.at => row'[i] = row[i]
  BY WriteRevokeKeeps DEF EmployedInv, BaseInv
<1>2. home \in [User -> Branch \cup {None}] /\ \A u \in User : u # t.user => home'[u] = home[u]
  BY <1>1 DEF TypeOK
<1>3. \A v \in Worker \ {w} : txn[v].op = "revoke" => txn[v].user # t.user /\ txn[v].user \in User
  BY <1>1 DEF EmployedInv, KeptApart, BaseInv, Named
<1>4. StaysEmployed'
  <2> SUFFICES ASSUME NEW u \in User, status'[u] # "none" PROVE home'[u] \in (BranchesOf(u))'
    BY DEF StaysEmployed
  <2>1. home[u] \in BranchesOf(u)
    BY <1>1 DEF EmployedInv, StaysEmployed
  <2>2. CASE u # t.user
    <3>1. \A i \in Row : row[i].user = u => row'[i] = row[i]
      BY <1>1, <2>2
    <3> QED BY <1>2, <2>1, <2>2, <3>1, BranchesKept
  <2>3. CASE u = t.user
    <3>1. home'[u] \in BranchesOf(u) \ {t.branch}
      <4>1. IF home[u] = t.branch THEN t.home \in BranchesOf(u) \ {t.branch} ELSE t.home = None
        BY <1>1, <2>3 DEF EmployedInv, HomeAsRead
      <4>2. None \notin BranchesOf(u)
        BY <1>1, RowFacts, NoneFacts DEF BranchesOf, Rows
      <4> QED BY <1>1, <1>2, <2>1, <2>3, <4>1, <4>2
    <3>2. PICK i \in Row : row[i].live /\ row[i].user = u /\ row[i].branch = home'[u]
      BY <3>1 DEF BranchesOf, Rows
    <3>3. row'[i] = row[i]
      BY <1>1, <3>1, <3>2
    <3>4. row'[i].live /\ row'[i].user = u /\ row'[i].branch = home'[u]
      BY <3>2, <3>3
    <3> QED BY <3>4 DEF BranchesOf, Rows
  <2> QED BY <2>2, <2>3
<1> QED BY <1>1, <1>2, <1>3, <1>4, EmployedWrite

LEMMA EmployedWriteStatus == ASSUME EmployedInv, NEW w \in Worker, WriteStatus(w) PROVE EmployedInv'
<1> DEFINE t == txn[w]
<1>1. /\ BaseInv' /\ t.user \in User /\ status[t.user] # "none"
      /\ GoOn(w, Idle) /\ UNCHANGED <<row, home>>
      /\ \A u \in User : status'[u] # status[u] => u = t.user
  BY WriteStatusKeeps DEF EmployedInv
<1>2. \A u \in User : status'[u] # "none" => status[u] # "none"
  BY <1>1
<1>3. StaysEmployed'
  BY <1>1, <1>2, EmployedKept DEF EmployedInv
<1> QED BY <1>1, <1>3, EmployedWrite

LEMMA EmployedWriteEmployee == ASSUME EmployedInv, NEW w \in Worker, WriteEmployee(w) PROVE EmployedInv'
<1> DEFINE t == txn[w]
<1>1. BaseInv /\ BaseInv' /\ TypeOK
  BY WriteEmployeeKeeps DEF EmployedInv, BaseInv
<1>2. CASE Refuse(w)
  BY <1>1, <1>2, EmployedStop DEF Refuse
<1>3. CASE ~Refuse(w)
  <2>1. /\ GoOn(w, Idle) /\ t.user \in User /\ status[t.user] = "none" /\ t.branch \in Branch
        /\ \A u \in User : u # t.user => status'[u] = status[u] /\ home'[u] = home[u]
        /\ home'[t.user] = t.branch
    BY <1>1, <1>3, WriteEmployeeKeeps
  <2>2. PICK k \in Row : /\ row[k] = NoRow /\ \A i \in Row : i # k => row'[i] = row[i]
                         /\ row'[k] = Assignment(t.user, t.branch, t.role)
    BY <1>1, <1>3, WriteEmployeeKeeps
  <2>3. \A i \in Row : row[i].live => row'[i] = row[i]
    BY <2>2, NoneFacts
  <2>4. StaysEmployed'
    <3> SUFFICES ASSUME NEW u \in User, status'[u] # "none" PROVE home'[u] \in (BranchesOf(u))'
      BY DEF StaysEmployed
    <3>1. CASE u # t.user
      <4>1. home[u] \in BranchesOf(u)
        BY <2>1, <3>1 DEF EmployedInv, StaysEmployed
      <4> QED BY <2>1, <2>3, <3>1, <4>1, BranchesKept
    <3>2. CASE u = t.user
      <4>1. home'[u] = t.branch
        BY <2>1, <3>2
      <4>2. row'[k].live /\ row'[k].user = u /\ row'[k].branch = t.branch
        BY <2>2, <3>2 DEF Assignment
      <4> QED BY <4>1, <4>2 DEF BranchesOf, Rows
    <3> QED BY <3>1, <3>2
  <2>5. \A v \in Worker \ {w} : txn[v].op = "revoke" => txn[v].user \in User /\ txn[v].user # t.user
    BY <1>1, <2>1 DEF BaseInv, Named
  <2> QED BY <1>1, <2>1, <2>3, <2>4, <2>5, EmployedWrite
<1> QED BY <1>2, <1>3

LEMMA EmployedWriteBranch == ASSUME EmployedInv, NEW w \in Worker, WriteBranch(w) PROVE EmployedInv'
<1>1. /\ BaseInv' /\ GoOn(w, Idle) /\ UNCHANGED <<status, home>>
      /\ \A i \in Row : row[i].live => row'[i] = row[i]
  BY WriteBranchKeeps, NoneFacts DEF EmployedInv
<1>2. StaysEmployed'
  BY <1>1, EmployedKept DEF EmployedInv
<1> QED BY <1>1, <1>2, EmployedWrite

LEMMA EmployedWriteActive == ASSUME EmployedInv, NEW w \in Worker, WriteActive(w) PROVE EmployedInv'
<1>1. BaseInv' /\ GoOn(w, Idle) /\ UNCHANGED <<row, status, home>>
  BY WriteActiveKeeps DEF EmployedInv
<1>2. StaysEmployed'
  BY <1>1, EmployedKept DEF EmployedInv
<1> QED BY <1>1, <1>2, EmployedWrite

LEMMA EmployedInit == Init => EmployedInv
<1> SUFFICES ASSUME Init PROVE EmployedInv
  OBVIOUS
<1>1. BaseInv /\ StaysEmployed
  BY BaseInit, InitStart DEF StaysEmployed
<1>2. \A w \in Worker : txn[w] = Idle
  BY DEF Init
<1>3. KeptApart("revoke") /\ \A w \in Worker : HomeAsRead(w)
  BY <1>2 DEF KeptApart, HomeAsRead, Idle
<1> QED BY <1>1, <1>3 DEF EmployedInv

LEMMA EmployedNext == ASSUME "revoke" \in Alone PROVE EmployedInv /\ [Next]_vars => EmployedInv'
<1> SUFFICES ASSUME EmployedInv, [Next]_vars PROVE EmployedInv'
  OBVIOUS
<1>1. CASE UNCHANGED vars
  <2>1. BaseInv' /\ UNCHANGED <<row, status, home, txn>>
    BY <1>1, BaseStutter DEF EmployedInv, vars
  <2>2. \A u : (BranchesOf(u))' = BranchesOf(u)
    BY <2>1 DEF BranchesOf, Rows
  <2>3. KeptApart("revoke")' /\ StaysEmployed'
    BY <2>1, <2>2 DEF EmployedInv, KeptApart, StaysEmployed
  <2>4. \A w \in Worker : HomeAsRead(w)'
    BY <2>1, <2>2 DEF EmployedInv, HomeAsRead
  <2> QED BY <2>1, <2>3, <2>4 DEF EmployedInv
<1>2. ASSUME NEW w \in Worker, Fail(w) PROVE EmployedInv'
  BY <1>2, RefuseKeeps, EmployedStop DEF Fail, Refuse, EmployedInv
<1>3. ASSUME NEW w \in Worker,
             \/ AskFor(w) \/ Reads(w)
             \/ WriteRole(w) \/ WriteRevoke(w) \/ WriteStatus(w) \/ WriteEmployee(w)
             \/ WriteBranch(w) \/ WriteActive(w)
      PROVE  EmployedInv'
  BY <1>3, EmployedAsk, EmployedReads, EmployedWriteRole, EmployedWriteRevoke,
     EmployedWriteStatus, EmployedWriteEmployee, EmployedWriteBranch, EmployedWriteActive
<1> QED BY <1>1, <1>2, <1>3 DEF Next, Reads

(* StaysEmployed: whoever is employed keeps an assignment in their default branch, if   *)
(* an assignment is not revoked while another request about that employee is served.    *)
THEOREM EverybodyStaysEmployed ==
    ASSUME "revoke" \in Alone
    PROVE  Spec => []StaysEmployed
<1>1. EmployedInv => StaysEmployed
  BY DEF EmployedInv
<1> QED BY <1>1, EmployedInit, EmployedNext, PTL DEF Spec
=============================================================================
