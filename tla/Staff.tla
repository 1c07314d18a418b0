--------------------------------- MODULE Staff ---------------------------------
(***************************************************************************)
(* Who works where and with which role: employees, their assignments to    *)
(* branches, and the branches of the shop.                                 *)
(*                                                                         *)
(*   server/dukan/infrastructure/iam_service.py, scope.py                  *)
(*   server/dukan/domain/identity.py, branches.py                          *)
(*                                                                         *)
(* A request is one database transaction at READ COMMITTED: each of its    *)
(* statements reads what is committed when that statement starts.  Its     *)
(* actor is read before it, its target without a lock.  Taking an owner    *)
(* role away, switching an owner off and opening a branch go on to         *)
(* SELECT ... FOR UPDATE every assignment of an active owner with those    *)
(* owners' user rows, several times over.  Such a statement waits for the  *)
(* rows its snapshot found, drops those that are no longer an active       *)
(* owner's, and never sees the ones that came while it waited.  An UPDATE  *)
(* carries the columns that differ from what was loaded.                   *)
(*                                                                         *)
(* user.manage and branch.manage are the owner role's alone, so the actor  *)
(* is the set of branches it owned when the request came in.               *)
(***************************************************************************)
EXTENDS Integers, Sequences, FiniteSets

CONSTANTS
    User,       \* employees; one is also a username
    Branch,
    Worker,     \* server threads, each with one request at a time
    Role,       \* role names, "owner" among them
    None,       \* no user, no branch
    Start,      \* the assignments of a shop at work, oldest first
    MaxRow,     \* bound: assignment rows ever written
    MaxAsked,   \* bound: requests
    Alone,      \* kinds of request never made while another one about the
                \* same employee (or about the branches) is being served
    MadeMeanwhile   \* whether a request that makes an owner may be served while one
                    \* is that takes owners' rights away or opens a branch

ASSUME RoleAssumption == "owner" \in Role
ASSUME IdsAssumption == None \notin User \cup Branch
ASSUME BoundsAssumption == MaxRow \in Nat /\ MaxAsked \in Nat /\ MadeMeanwhile \in BOOLEAN
ASSUME StartAssumption ==
    /\ Start \in Seq([user : User, branch : Branch, role : Role, live : {TRUE}])
    /\ Len(Start) <= MaxRow
\* A shop begins with a user who owns all of it (bootstrap_owner).
ASSUME FounderAssumption ==
    \E u \in User :
        /\ \E i \in 1 .. Len(Start) : Start[i].user = u
        /\ \A i \in 1 .. Len(Start) :
              \E j \in 1 .. Len(Start) : /\ Start[j].user = u /\ Start[j].role = "owner"
                                       /\ Start[j].branch = Start[i].branch

VARIABLES
    row,        \* row[i]: branch_assignments, in the order they were created
    status,     \* status[u]: the user row's status, "none" before there is one
    home,       \* home[u]: default_branch_id
    branch,     \* branch[b]: "none" until it is opened, then active or inactive
    txn,        \* txn[w]: the request thread w serves
    asked       \* requests so far

data == <<row, status, home, branch>>
vars == <<row, status, home, branch, txn, asked>>

-----------------------------------------------------------------------------
(* Values *)

Row == 1 .. MaxRow
NoRow == [user |-> None, branch |-> None, role |-> "none", live |-> FALSE]
RowRec == {NoRow} \cup [user : User, branch : Branch, role : Role, live : BOOLEAN]

Op == {"role", "revoke", "disable", "enable", "hire", "open", "activate", "close"}
\* A request: what its actor owned when it came in; the employee it is about (who
\* opens a branch gets a role there) and the branch; the role it gives; what it
\* loaded of its target (an assignment and its role there, its status and default
\* branch).  Then: the branches whose owners it still has to count, the branches of
\* the shop it read, the rows its SELECT ... FOR UPDATE found, who gets the new
\* branch, and the assignments it has locked with their users.
Txn == [op : Op \cup {"none"},
        step : {"idle", "read", "rights", "branches", "look", "lock", "rest", "write"},
        owns : SUBSET Branch, user : User \cup {None},
        branch : Branch \cup {None}, role : Role \cup {"none"},
        at : Row \cup {0}, was : Role \cup {"none"},
        loaded : {"none", "active", "disabled", "inactive"}, home : Branch \cup {None},
        owned : SUBSET Branch, ids : SUBSET Branch, found : SUBSET Row,
        gets : SUBSET User, held : SUBSET Row]
Idle == [op |-> "none", step |-> "idle", owns |-> {}, user |-> None,
         branch |-> None, role |-> "none", at |-> 0, was |-> "none",
         loaded |-> "none", home |-> None, owned |-> {}, ids |-> {}, found |-> {},
         gets |-> {}, held |-> {}]

GoOn(w, t) == txn' = [txn EXCEPT ![w] = t]
NextStep(w, step) == GoOn(w, [txn[w] EXCEPT !.step = step])
Refuse(w) == GoOn(w, Idle) /\ UNCHANGED <<data, asked>>

Opened == {b \in Branch : branch[b] # "none"}

Rows(u) == {i \in Row : row[i].live /\ row[i].user = u}
RowsIn(u, b) == {i \in Rows(u) : row[i].branch = b}
BranchesOf(u) == {row[i].branch : i \in Rows(u)}
OwnedBy(u) == {row[i].branch : i \in {j \in Rows(u) : row[j].role = "owner"}}

\* The branches where the permission policy lets u manage staff and branches.
Manages(u) == IF status[u] = "active" THEN OwnedBy(u) ELSE {}

\* What _active_owner_query reads, and locks.
OwnerRows == {i \in Row : /\ row[i].live /\ row[i].role = "owner"
                          /\ status[row[i].user] = "active"}
OwnersOf(b) == {u \in User : b \in Manages(u)}
ShopOwners == {u \in User : status[u] = "active" /\ Opened \subseteq Manages(u)}

\* SELECT ... FOR UPDATE holds the assignment and the user row it joins.
RowFree(w, i) == \A v \in Worker \ {w} : i \notin txn[v].held
UserFree(w, u) == \A v \in Worker \ {w} : \A i \in txn[v].held : row[i].user # u
\* Mutated: no FOR UPDATE, the count waits for nobody.
CountUnlocked(w) == TRUE

CanLockFound(w) == \A i \in txn[w].found : RowFree(w, i) /\ UserFree(w, row[i].user)

-----------------------------------------------------------------------------
Init ==
    /\ row = [i \in Row |-> IF i <= Len(Start) THEN Start[i] ELSE NoRow]
    /\ branch = [b \in Branch |-> IF \E i \in 1 .. Len(Start) : Start[i].branch = b
                                  THEN "active" ELSE "none"]
    /\ status = [u \in User |-> IF \E i \in 1 .. Len(Start) : Start[i].user = u
                                THEN "active" ELSE "none"]
    /\ home = [u \in User |->
                 IF \E i \in 1 .. Len(Start) : Start[i].user = u
                 THEN Start[CHOOSE i \in 1 .. Len(Start) :
                              Start[i].user = u /\ \A j \in 1 .. i - 1 : Start[j].user # u].branch
                 ELSE None]
    /\ txn = [w \in Worker |-> Idle]
    /\ asked = 0

-----------------------------------------------------------------------------
(* A request comes in.  Its actor is authenticated and its permissions are *)
(* those of the actor's assignments as they are now.                       *)

Permitted(op, owns, b) ==
    CASE op \in {"role", "hire", "revoke", "activate", "close"} -> b \in owns
      [] op \in {"disable", "enable"} -> owns # {}
      [] op = "open" -> Opened \subseteq owns     \* require_everywhere

\* Requests about one employee, or about branches, that the shop keeps apart.
Together(op, u) ==
    \A v \in Worker : txn[v].op # "none" /\ txn[v].user = u => {op, txn[v].op} \cap Alone = {}

\* Requests that make an owner, and those that may take an owner's rights away or
\* share a new branch out among the owners.
Makes(op, role) == op = "enable" \/ (op \in {"role", "hire"} /\ role = "owner")
Takes(op, role) == op \in {"revoke", "disable", "open"} \/ (op = "role" /\ role # "owner")
Unmixed(op, role) ==
    \A v \in Worker : /\ Makes(op, role) => ~Takes(txn[v].op, txn[v].role)
                      /\ Takes(op, role) => ~Makes(txn[v].op, txn[v].role)

Ask(w, op, a, u, b, role) ==
    /\ Together(op, u) /\ (MadeMeanwhile \/ Unmixed(op, role))
    /\ Permitted(op, Manages(a), b)
    /\ GoOn(w, [Idle EXCEPT !.op = op, !.step = IF op = "open" THEN "branches" ELSE "read",
                            !.owns = Manages(a), !.user = u, !.branch = b, !.role = role])
    /\ asked' = asked + 1
    /\ UNCHANGED data

AskFor(w) ==
    /\ txn[w] = Idle /\ asked < MaxAsked
    /\ \E a \in User :
       /\ status[a] = "active"
       /\ \/ \E u \in User, b \in Opened, role \in Role : status[u] # "none" /\ Ask(w, "role", a, u, b, role)
          \/ \E u \in User, b \in Opened : status[u] # "none" /\ Ask(w, "revoke", a, u, b, "none")
          \/ \E u \in User, op \in {"disable", "enable"} : status[u] # "none" /\ Ask(w, op, a, u, None, "none")
          \/ \E u \in User, b \in Opened, role \in Role : Ask(w, "hire", a, u, b, role)
          \/ \E b \in Branch \ Opened : Ask(w, "open", a, a, b, "none")
          \/ \E b \in Opened, op \in {"activate", "close"} : Ask(w, op, a, None, b, "none")

-----------------------------------------------------------------------------
(* What the request loads, without a lock *)

\* Takes an owner's role away.
Unseats(t) == t.was = "owner" /\ t.role # "owner"

\* assign_role and revoke_assignment load the target, the branch and a live
\* assignment there, whichever of them comes first.
ReadAssignment(w) ==
    LET t == txn[w]
        next(read) == IF Unseats(read) THEN [read EXCEPT !.step = "rights", !.owned = {t.branch}]
                      ELSE [read EXCEPT !.step = IF t.op = "revoke" THEN "rest" ELSE "write"] IN
    /\ t.step = "read" /\ t.op \in {"role", "revoke"}
    /\ IF \/ t.op = "role" /\ branch[t.branch] # "active"
          \/ t.op = "revoke" /\ RowsIn(t.user, t.branch) = {}
       THEN Refuse(w)
       ELSE /\ \E i \in IF RowsIn(t.user, t.branch) = {} THEN {0} ELSE RowsIn(t.user, t.branch) :
                 GoOn(w, next([t EXCEPT !.at = i, !.home = home[t.user],
                                        !.was = IF i = 0 THEN "none" ELSE row[i].role]))
            /\ UNCHANGED <<data, asked>>

\* set_employee_status: the actor manages every branch the target works in.
ReadEmployee(w) ==
    LET t == txn[w]
        owned == IF t.op = "disable" THEN OwnedBy(t.user) ELSE {} IN
    /\ t.step = "read" /\ t.op \in {"disable", "enable"}
    /\ IF BranchesOf(t.user) \subseteq t.owns
       THEN /\ GoOn(w, [t EXCEPT !.step = IF owned = {} THEN "write" ELSE "look",
                                 !.owned = owned, !.loaded = status[t.user]])
            /\ UNCHANGED <<data, asked>>
       ELSE Refuse(w)

\* create_employee: the branch is active and the username free.
ReadUsername(w) ==
    LET t == txn[w] IN
    /\ t.step = "read" /\ t.op = "hire"
    /\ IF branch[t.branch] = "active" /\ status[t.user] = "none"
       THEN NextStep(w, "write") /\ UNCHANGED <<data, asked>>
       ELSE Refuse(w)

\* set_branch_active loads the branch.
ReadBranch(w) ==
    LET t == txn[w] IN
    /\ t.step = "read" /\ t.op \in {"activate", "close"}
    /\ GoOn(w, [t EXCEPT !.step = IF t.op = "activate" THEN "write" ELSE "rest",
                         !.loaded = branch[t.branch]])
    /\ UNCHANGED <<data, asked>>

-----------------------------------------------------------------------------
(* Who remains: first in each branch that is losing an owner, then in the  *)
(* shop.  Each count is a SELECT ... FOR UPDATE of its own.                *)

\* _require_owner_rights_over: the actor owns every branch the target works in.
HasRights(w) ==
    LET t == txn[w] IN
    /\ t.step = "rights"
    /\ IF BranchesOf(t.user) \subseteq t.owns
       THEN NextStep(w, "look") /\ UNCHANGED <<data, asked>>
       ELSE Refuse(w)

\* _shop_owners reads the branches before it locks the owners.
ReadBranches(w) ==
    /\ txn[w].step = "branches"
    /\ GoOn(w, [txn[w] EXCEPT !.step = "look", !.ids = Opened])
    /\ UNCHANGED <<data, asked>>

\* The snapshot of a SELECT ... FOR UPDATE, before it waits for anybody.
LookForOwners(w) ==
    /\ txn[w].step = "look"
    /\ GoOn(w, [txn[w] EXCEPT !.step = "lock", !.found = OwnerRows])
    /\ UNCHANGED <<data, asked>>

\* Of what the statement found it returns the rows that are still an active owner's;
\* the others stay locked too.
Owners(t) == t.found \cap OwnerRows
Locks(w) == txn[w].step = "lock" /\ CanLockFound(w)
Locked(t) == [t EXCEPT !.held = t.held \cup t.found, !.found = {}]
OwnerOfAll(t) == {u \in User : t.ids \subseteq {row[i].branch : i \in {j \in Owners(t) : row[j].user = u}}}

\* _assert_owner_remains, for one branch after the other.
CountBranch(w) ==
    LET t == txn[w] IN
    /\ Locks(w)
    /\ \E b \in t.owned :
         IF \E i \in Owners(t) : row[i].branch = b /\ row[i].user # t.user
         THEN /\ GoOn(w, [Locked(t) EXCEPT !.step = IF t.owned = {b} THEN "branches" ELSE "look",
                                           !.owned = t.owned \ {b}])
              /\ UNCHANGED <<data, asked>>
         ELSE Refuse(w)

\* _assert_shop_owner_remains: the shop keeps a user who owns every branch, if it
\* has one.
CountShop(w) ==
    LET t == txn[w] IN
    /\ Locks(w) /\ t.owned = {} /\ t.op # "open"
    /\ IF OwnerOfAll(t) # {} => OwnerOfAll(t) \ {t.user} # {}
       THEN /\ GoOn(w, [Locked(t) EXCEPT !.step = IF t.op = "revoke" THEN "rest" ELSE "write"])
            /\ UNCHANGED <<data, asked>>
       ELSE Refuse(w)

\* create_branch: the new branch is for the shop's owners and who opens it.
ShareBranch(w) ==
    LET t == txn[w] IN
    /\ Locks(w) /\ t.op = "open"
    /\ GoOn(w, [Locked(t) EXCEPT !.step = "write", !.gets = OwnerOfAll(t) \cup {t.user}])
    /\ UNCHANGED <<data, asked>>

\* Mutated: revoking leaves the default branch alone.
HomeStays(t) == None

\* Revoking the default branch moves it to the oldest assignment that is left.
NewHome(t) ==
    IF t.op = "revoke" /\ t.home = t.branch
    THEN LET left == {i \in Rows(t.user) : row[i].branch # t.branch}
         IN  row[CHOOSE i \in left : \A j \in left : i <= j].branch
    ELSE None

\* What a revocation leaves the employee, and closing a branch the shop.
Remains(t) ==
    \/ t.op = "revoke" /\ BranchesOf(t.user) \ {t.branch} # {}
    \/ t.op = "close" /\ Cardinality({b \in Branch : branch[b] = "active"}) > 1

ReadRest(w) ==
    LET t == txn[w] IN
    /\ t.step = "rest"
    /\ IF Remains(t)
       THEN /\ GoOn(w, [t EXCEPT !.step = "write", !.home = NewHome(t)])
            /\ UNCHANGED <<data, asked>>
       ELSE Refuse(w)

-----------------------------------------------------------------------------
(* Flush and commit, once nobody else holds a row it updates *)

Unwritten == {i \in Row : row[i] = NoRow}
Fresh(n) == {i \in Unwritten : Cardinality({j \in Unwritten : j < i}) < n}
Assignment(u, b, role) == [user |-> u, branch |-> b, role |-> role, live |-> TRUE]

WriteRole(w) ==
    LET t == txn[w] IN
    /\ t.step = "write" /\ t.op = "role"
    /\ IF t.at = 0
       THEN /\ Unwritten # {}
            /\ row' = [row EXCEPT ![CHOOSE i \in Fresh(1) : TRUE] = Assignment(t.user, t.branch, t.role)]
       ELSE /\ RowFree(w, t.at)
            /\ row' = [row EXCEPT ![t.at].role = IF t.role = t.was THEN @ ELSE t.role]
    /\ GoOn(w, Idle)
    /\ UNCHANGED <<status, home, branch, asked>>

WriteRevoke(w) ==
    LET t == txn[w] IN
    /\ t.step = "write" /\ t.op = "revoke"
    /\ RowFree(w, t.at) /\ (t.home # None => UserFree(w, t.user))
    /\ row' = [row EXCEPT ![t.at].live = FALSE]
    /\ home' = IF t.home = None THEN home ELSE [home EXCEPT ![t.user] = t.home]
    /\ GoOn(w, Idle)
    /\ UNCHANGED <<status, branch, asked>>

WriteStatus(w) ==
    LET t == txn[w]
        new == IF t.op = "enable" THEN "active" ELSE "disabled" IN
    /\ t.step = "write" /\ t.op \in {"disable", "enable"}
    /\ UserFree(w, t.user)
    /\ status' = [status EXCEPT ![t.user] = IF t.loaded = new THEN @ ELSE new]
    /\ GoOn(w, Idle)
    /\ UNCHANGED <<row, home, branch, asked>>

\* The unique index on usernames refuses the second of two.
WriteEmployee(w) ==
    LET t == txn[w] IN
    /\ t.step = "write" /\ t.op = "hire"
    /\ IF status[t.user] # "none"
       THEN Refuse(w)
       ELSE /\ Unwritten # {}
            /\ row' = [row EXCEPT ![CHOOSE i \in Fresh(1) : TRUE] = Assignment(t.user, t.branch, t.role)]
            /\ status' = [status EXCEPT ![t.user] = "active"]
            /\ home' = [home EXCEPT ![t.user] = t.branch]
            /\ GoOn(w, Idle)
            /\ UNCHANGED <<branch, asked>>

\* A new branch belongs to the shop's owners and to the one who opened it.
WriteBranch(w) ==
    LET t == txn[w]
        new == Fresh(Cardinality(t.gets)) IN
    /\ t.step = "write" /\ t.op = "open" /\ branch[t.branch] = "none"
    /\ Cardinality(new) = Cardinality(t.gets)
    /\ \E f \in [new -> t.gets] :
         /\ \A u \in t.gets : \E i \in new : f[i] = u
         /\ row' = [i \in Row |-> IF i \in new THEN Assignment(f[i], t.branch, "owner") ELSE row[i]]
    /\ branch' = [branch EXCEPT ![t.branch] = "active"]
    /\ GoOn(w, Idle)
    /\ UNCHANGED <<status, home, asked>>

\* Mutated: the branch gets a status of users.
WriteActiveAsUser(w) ==
    LET t == txn[w] IN
    /\ t.step = "write" /\ t.op \in {"activate", "close"}
    /\ branch' = [branch EXCEPT ![t.branch] = IF t.op = "activate" THEN "active" ELSE "disabled"]
    /\ GoOn(w, Idle)
    /\ UNCHANGED <<row, status, home, asked>>

WriteActive(w) ==
    LET t == txn[w]
        new == IF t.op = "activate" THEN "active" ELSE "inactive" IN
    /\ t.step = "write" /\ t.op \in {"activate", "close"}
    /\ branch' = [branch EXCEPT ![t.branch] = IF t.loaded = new THEN @ ELSE new]
    /\ GoOn(w, Idle)
    /\ UNCHANGED <<row, status, home, asked>>

\* A request that fails (a lost connection, a deadlock the database breaks) writes
\* nothing.
Fail(w) == txn[w] # Idle /\ Refuse(w)

Next ==
    \E w \in Worker :
        \/ AskFor(w)
        \/ ReadAssignment(w) \/ ReadEmployee(w) \/ ReadUsername(w) \/ ReadBranch(w)
        \/ HasRights(w) \/ ReadBranches(w) \/ LookForOwners(w)
        \/ CountBranch(w) \/ CountShop(w) \/ ShareBranch(w) \/ ReadRest(w)
        \/ WriteRole(w) \/ WriteRevoke(w) \/ WriteStatus(w) \/ WriteEmployee(w)
        \/ WriteBranch(w) \/ WriteActive(w)
        \/ Fail(w)

Spec == Init /\ [][Next]_vars

-----------------------------------------------------------------------------
(* Properties *)

TypeOK ==
    /\ row \in [Row -> RowRec]
    /\ status \in [User -> {"none", "active", "disabled"}]
    /\ home \in [User -> Branch \cup {None}]
    /\ branch \in [Branch -> {"none", "active", "inactive"}]
    /\ txn \in [Worker -> Txn]
    /\ asked \in 0 .. MaxAsked

\* Every branch keeps an active owner, whoever unseats or switches off whom at the
\* same time (assert_branch_keeps_owner behind _active_owner_query's locks).
BranchKeepsOwner == \A b \in Opened : OwnersOf(b) # {}

\* Someone active keeps owning every branch, so that branches can be opened and the
\* audit trail read (assert_shop_keeps_owner), also while a branch is being opened.
ShopKeepsOwner == ShopOwners # {}

\* An employee has a branch to work in, and requests that name none go to one of
\* theirs (assert_keeps_an_assignment, the move of default_branch_id).
StaysEmployed == \A u \in User : status[u] # "none" => home[u] \in BranchesOf(u)
=============================================================================
