# DukanPro in TLA+

DukanPro is an offline-first point of sale: tills (Flutter, a local SQLite
database) that work without a connection, and a server (Python, PostgreSQL) that
they sync with. These modules model the parts of it where several actors meet
and order matters, check them with TLC on small instances, and prove what
matters most with TLAPS for instances of any size.

    tlc -workers 2 -config SyncPush_chain.cfg MCSyncPush.tla     a run
    tlapm SyncPushProofs.tla                                     the proofs

`PROJECT.json` lists the runs, the source lines each definition stands for, the
hazards the properties are aimed at, the findings and the theorems.

## The system

| Component | State | Operations | What is hard | What makes it correct |
|---|---|---|---|---|
| Outbox and push engine (`packages/dukan_data/lib/src/sync_service.dart`, `sync_recorder.dart`) | `sync_outbox`, the local rows | record an op with its row, push pending ops in batches, read the answers, overwrite a losing row, retry, dismiss | answers lost, app killed between two writes, edits while a sync runs | an op is applied once; its status is true; no edit overwrites a write nobody saw; the device ends with the server's rows |
| Server push (`server/dukan/infrastructure/sync_service.py`) | the rows, `processed_ops`, `change_log` | decide one op after another: replay, chain rule, policy, compare-and-set, record | two threads on the same op; REST writes in between | the same |
| Change feed and pull (`change_feed.py`, `SyncEngine.pullSince`) | `change_log`, cursors and scopes per user | append under an advisory lock, pull pages, restart | commits out of order, restores, scopes that change, several users on one database | nothing committed is missed; the till agrees with the server; an unpushed edit is kept |
| Sync policy (`server/dukan/application/sync_policy.py`) | none | accept, refuse for now or for good, flag | what it reads may be old when it is used | refusals are recorded exactly when final |
| Device transactions (`_push_together`, `_settle`, the handlers of the ledger tables) | the rows of a document, `processed_ops`, the outbox | apply a group in one database transaction, fall back to one by one, record refusals | a repeat in the middle of a group; two tills undoing one sale; permissions and products that change | a document is entered once and whole, or refused |
| Drawer shifts (`sales_service.py`, `shift_cash.py`, `_shifts_*`, `_sales_*`) | shifts, sales, payments, ledgers | open, sell, collect, pay out, return, void, close | transactions side by side under row locks; late ops from tills | a close counts what went in; money goes back once; a close is final |
| Stock, customers, suppliers (`sales_service.py`, `customers_service.py`, `purchasing_service.py`, `catalog_service.py`) | stock movements, customer and supplier ledgers, customers' rows | sell, void, return, collect, forgive, receive, pay, correct, change credit | several requests lock several rows each; balances are sums | nothing is sold twice; limits hold; a return adds up |
| Barcodes (`catalog_store.dart`, `catalog_service.py`, `_barcodes_*`) | barcode rows on tills and server, their ops | put a code on a product, take it off | two tills give one code offline; a refused copy; a removal of a row the server never had | a scan finds one product, the same on every till; a code that is off stays off |
| Staff (`iam_service.py`, `scope.py`) | users, assignments, branches | grant, revoke, hire, switch on and off, open and close branches | requests of several statements at a time, targets read without a lock, counts that wait and do not see what came meanwhile | every branch and the shop keep an owner; everybody has a branch |
| Sessions (`auth_service.py`, `http.dart`, `auth_controller.dart`) | sessions, tokens, the till's saved token | sign in, renew with rotation, revalidate, sign out, disable, reset | a refresh whose answer is lost, reuse of an old token, a till that changes hands | a dead session stays dead; a lost answer is no theft; a till keeps the token of who is signed in |
| Sales at the till (`sales_store.dart`, `shifts_store.dart`) | the local tables | settle, void, refund, open, close | one local transaction each | the outbox carries the whole document or nothing |
| Reports, audit, routers, screens, hardware, backup files | none, or files | reads and I/O | | |

How they meet: a till's operations write the local rows and an op each in one
local transaction; the push engine sends the ops to the server's push; the
server applies them under the sync policy to the same rows the REST services
write; both append to the one change feed; every till pulls that feed. The
hard places are therefore the push of an op (device, server threads, REST) and
of a document (several rows, several tills), the feed (writers, readers,
restores) and the transactions that run side by side on the server: on a drawer,
on stock and balances, on the staff. Sessions stand beside all of this, between a
till and the server. Each has a module.

## The modules

| Module | Models | Runs with |
|---|---|---|
| `SyncPush` | the outbox, the push, the server's decisions | `MCSyncPush` |
| `SyncPushProofs` | theorems about it | |
| `ChangeFeed` | the change feed, cursors, scopes, restores | `MCChangeFeed` |
| `ChangeFeedProofs` | theorems about it | |
| `Drawer` | shifts, money in and out, voids, returns, closes | `MCDrawer` |
| `DrawerProofs` | theorems about it | |
| `Documents` | what the server promises of a document: entered once and whole, or refused | through `DeviceTransaction` |
| `DeviceTransaction` | how it keeps the promise: rows, groups, threads, locks | `MCDeviceTransaction` |
| `DeviceTransactionProofs` | theorems about it | |
| `Counter` | REST transactions on stock, customers, suppliers, drawers | `MCCounter` |
| `CounterProofs` | theorems about it | |
| `Barcodes` | codes put on products and taken off, on tills and over REST | `MCBarcodes` |
| `BarcodesProofs` | theorems about it | |
| `Staff` | employees, roles, branches | `MCStaff` |
| `StaffProofs` | theorems about it | |
| `Sessions` | sign-in and renewal, server and till | `MCSessions` |
| `SessionsProofs` | theorems about it | |

### SyncPush

Rows are master rows (products, customers, suppliers). A row's content is
abstracted to the write it came from: `<<device, n>>` is the n-th op of a
device, `<<Rest, n>>` the n-th REST write, `Origin` what both sides began with.
`outbox[d]` is the table `sync_outbox`, `local[d]` the till's rows, `form[d]`
the edit screen somebody has open, `push[d]` the local variables of
`pushPending` (the pending list, the batch, the map of failed rows, the answers
still to read), `cursor[d]` the feed cursor; `store`, `feed` and `processed` are
the server's rows, `change_log` and `processed_ops`; `thread[h]` is a request
handler in the middle of `push`, with its own map of failed rows.

Every database transaction of the code is one action, and nothing larger: the
till's status write for an op (`ReadAnswer`) and its overwrite of the losing row
(`Overwrite`) are two transactions, so two actions, and the app may be killed
between them (`KillApp`). On the server, the look-up in `processed_ops`
(`LookUp`), the applied write with its feed entry and its record (`ApplyOp`),
and the record of a failure (`Settle`) are separate transactions that another
thread may come between. `LoseConnection` loses a request or its answer: the
thread goes on and may meet the thread of the repeated request.

A rule of the policy is abstracted to its outcome: refused for now (answered,
not recorded, `is_cacheable`) or for good. Left out: the system actor's seed
rows, an op id reused by another device (`SYNC_OP_ID_TAKEN`), rows that are
deleted, and an edit that changes nothing (it queues no op). The ops of one
document that go to the server together are in `DeviceTransaction`.

### ChangeFeed

Writers take a row lock and, at their first append, the feed's advisory lock,
which they hold to the commit (`LockRow`, `AppendChange`, `Commit`, `Rollback`).
A row's image carries a version and a write. `Restore` puts the server back to
an earlier state of its rows and feed, so seqs are given out again; the token of
a change (`change_token`) tells two histories of one seq apart (`Holds`). Users
of a till read with a cursor and a scope each (`cursor`, `scope`) into one set of
rows; `MustRestart`, `RequestPage`, `Restart`, `ApplyPage`, `LeaveRest` and
`StopPull` are `pullSince` page by page. `Apply` is the skip rule: an image of a
master row older than the local one is skipped, and an edit that waits in the
outbox is kept. Left out: the old device-wide cursor, redacted cost fields, and
changes of tables a till does not know.

### Drawer

`shift`, `entry` and `txn` are the shift rows, the rows that move cash and the
transactions under way, one per server thread. PostgreSQL's READ COMMITTED is
modelled by what each statement sees: a read sees what is committed when it
runs, `SELECT ... FOR UPDATE` and `UPDATE` wait for the row's holder, and the
locks go at the end. A REST request that takes money locks the shift
(`Post`); a return or a void over REST locks the sale and then the drawer. What
a till synced reads the shift unlocked (`Arrive`, `ArriveReturn`, `ArriveVoid`),
and its close counts unlocked and then writes by compare-and-set
(`ReadAndCount`, `CompareAndClose`). `Rollback` ends any transaction at any
point, a server that dies included.

An amount is the row that carries it, so what a close expects is the set of
rows it counted; a debt collection or a payout is a sale that nobody takes back,
for the drawer tells them apart by nothing else. The three queries of `expected_cash` are one step: a row is in
one of them only, so reading them apart could only split rows that nothing
relates. One seller, one branch, cash only; on SQLite writers are serialised and
these interleavings do not arise, so the module is about the deployed database.
A device transaction is reduced to the row that moves cash: the header of a
return locks the original sale and the lock lasts to the commit.

### Documents and DeviceTransaction

`Documents` is the abstract specification: a document (sale, void, return,
receipt) is open, then entered or refused; a return is entered only of an entered
sale that is not voided and only for what is left of it, a void only of a sale
nothing was returned of. `DeviceTransaction` is how the rows get there, and
`ImplementsDocuments` says that every step of it is a step of `Documents` or
none, under the mapping `Became`: entered when all rows are in the database,
refused when none is and one has a recorded refusal, and "torn", which
`Documents` does not know, when some are.

`Written` is what the till records for a document, in its order. `Push` sends
what is still pending; a thread looks into `processed_ops` (`Look`), plans and
writes row by row in one transaction (`PlanRow`, `WriteRow`: the headers a row
belongs to or undoes are locked as they are met, the feed by the first write),
and commits rows and outcomes together (`Commit`). A refusal rolls back and is
recorded for each row in a commit of its own (`Settle`); a group of which one row
is recorded is decided one by one (`PushOne`). `Plan` is `plan_op` with the rules
of the handlers that relate rows to each other: a parent that is missing, totals
of lines, payments, stock and debt against the header, and what earlier voids and
returns took. Prices are one unit, so money and goods share a measure; branches,
customers, users and formats are left out, and a permission that comes and goes
(`denied`) and a product edited meanwhile (`loose`) stand for what may refuse a
document for now or for good. `NoAnswer`, `KillApp` and `Fail` are the faults.

### Counter

A request of the REST API (`Ask`: what it is, the goods, the money, the customer,
supplier or drawer) is one transaction. `Lock` takes the next row of `Rows` in the
order the code takes them (`Tables`, and products as they come in the cart or by
id) and checks what the request is refused for by that row (`Refused`); one action
for each kind of request then writes and commits (`SettleSale`, `VoidSale`,
`RefundSale`, ...). Ledgers are append-only and read as a sum, so their sums are
the state: `stock`, `debt`, `bill`, and for a sale what its returns took back.
`RefundTotal` is the worth of a return with the rounding of `_div_round_half_up`
and the last return taking what is left. `seen` is the balance a request read when
it locked the customer. `Fail` is a lost connection, or the database breaking a
circle of waiting transactions. Requests of tills do not meet these balances: a
till sells against what it knows, and the server flags what does not fit.

### Barcodes

A barcode is a row with an id of its own, made by one till or over REST. On a till
`AddBarcode` and `RemoveBarcode` write the row and an op in one local transaction;
a sync sends the pending ops (`NextOp`), reads the answers (`ReadAnswer`, and
`DropRefused` in a write of its own) and pulls (`PullChange`, with the skip rule
`Older`). On the server an op is looked up and planned (`PlanOp`) and then written
(`WriteOp`), with other writers in between; `Fits` is the unique index. Over REST
a request looks (`RestAdd`, `RestRemove`) and then writes (`RestWrite`). A version
is 1 for a live row and 2 for a removed one. An op is pushed alone; a batch of a
till's ops changes nothing, since the server decides them one by one and the
verdict that a later op takes in one push is the one the till would give it.

### Staff

An actor is the set of branches it owned when its request came in, since
`user.manage` and `branch.manage` belong to the owner's role alone. A request is one
transaction at READ COMMITTED, and each of its statements that may see something new
is an action. The target is loaded without a lock (`ReadAssignment`, `ReadEmployee`,
`ReadUsername`, `ReadBranch`) and, where an owner is unseated, loaded again for the
actor's rights (`HasRights`, `_require_owner_rights_over`). Then owners are counted, in
each branch that loses one (`CountBranch`) and in the shop (`CountShop`); opening a
branch asks for the shop's owners too (`ShareBranch`), and both read the list of
branches first (`ReadBranches`). Each count is a `SELECT ... FOR UPDATE` of two steps:
`LookForOwners` is its snapshot, and the count itself waits for the rows the snapshot
found (`CanLockFound`), drops those that are no active owner's any more, and does not
see the rows that came while it waited (`Owners`). What was locked stays locked to the
end. `ReadRest` reads what a revocation leaves the employee and a closing leaves the
shop; the write happens at the flush (`Write...`), waits for rows others hold, and
writes only the columns that differ from what was loaded.

Two switches say what the shop keeps apart: `Alone` names kinds of requests of which no
two about one employee are served at the same time, and with `MadeMeanwhile = FALSE` no
request that makes an owner is served while one is that takes an owner's rights away or
opens a branch. What happens otherwise is among the findings.

### Sessions

One till, several users, the sessions it opens one after another. A session
keeps the newest token and the one before it; `fresh` says that the last rotation
is less than `REFRESH_RETRY_GRACE` old. A refresh is a read and a conditional
update (`RefreshRead`, `RefreshWrite`). On the till `ask` is a renewal: it reads
the saved token, asks, asks once more when no answer came, and saves, unless the
session it is of has been left (`stale`, the epoch of `TokenRefresher`). Signing
in, signing out and the end of a session leave it.

`check` is a revalidation, `AuthController._revalidate`: it asks `/auth/me` with the
till's access token (`Revalidate`), on `TOKEN_EXPIRED` asks again with the token saved by
then or waits for the till's renewal (`TokenExpired`, `Tell`), and acts on the answer in a
step of its own (`Confirmed`, `NotConfirmed`). It carries no epoch: while it waits the
till may change hands, the refusal of a renewal reaches it whoever the renewal was for
(`RenewalRefused`), and what it does then it does to the session the till has by then.
The requests of the interceptor do carry one: `CallRefused` is the refusal of a request
of the till's session, and those of an earlier session are dropped.

`out` is a sign-out on its way to the server, `lost` a ghost: the sessions of which the
till gave up a renewal unanswered. Left out: expiry of sessions, the lock after failed
sign-ins, access tokens as such (that one has expired is a choice, also of the one a revalidation
asks again with, where the code gives up), and a profile
that a revalidation puts back after a sign-out, which opens no session. Of sign-ins
one at a time is served, so the screen and a revalidation do not sign in both at once.
`GraceEnds` lets the grace of 60 seconds pass only when no renewal of the session waits:
30 seconds for an answer and a pause of one, without the second try's own time to
connect and send.

## The runs

| Run | Question |
|---|---|
| `SyncPush_chain` | One till, two rows, three ops, REST writes, one lost request or answer, refusals for good, two server threads: does an edit overwrite a write its author had not seen (`NoUnseenOverwrite`)? Does a till that has caught up hold the server's rows (`DeviceAgrees`)? |
| `SyncPush_faults` | Two users on a till that is killed once in a sync; refusals for now and for good; two server threads: at most one write per op, recorded as applied exactly then (`AppliedOnce`); statuses true (`StatusIsTrue`); every op ends in a verdict (`EveryOpSettles`). |
| `ChangeFeed_shared` | Two users with different scopes on one till, concurrent writers, rollbacks, a role change, a stopped pull: `NothingMissed`, `AgreesWithServer`, `PendingEditKept`, `CommitsInOrder`. |
| `ChangeFeed_restored` | A restore that gives the lost seqs out again: `AgreesWithServer`, and under fairness `FeedIsRead`. |
| `Drawer_counted` | Two transactions at a time over two shifts and three rows: `RestCloseIsWhole`, `GoesBackOnce`, `ClosedForGood`, `NoDeadlock`. |
| `DeviceTransaction_together` | A sale, two voids and two returns of it from five tills, two threads, two faults: is each document entered whole or refused, in an order `Documents` allows (`ImplementsDocuments`)? Does a till ever show half of one (`ShownWhole`)? Do transactions wait in a circle (`NoDeadlock`)? |
| `DeviceTransaction_decided` | A sale and a receipt of goods, permissions that come and go, a product that is edited, one fault: `AllOrNone`, and under fairness `EveryDocumentIsDecided`. |
| `Counter_kept` | Three requests at a time out of eight or nine in three mixes: `BalancesHold`, `ReturnsAddUp`, `CreditKept`, `CirclesAreOfCarts`. |
| `Barcodes_scanned` | Two tills, one code, a row made on a till and one over REST, lost answers, refusals for now, a killed app: `CodesUnique`, `ScansAgree`, `RemovedStaysRemoved`. |
| `Staff_kept` | Three requests, all of which may overlap, in a shop of two branches, two owners and a cashier, none that makes an owner beside one that unseats one or opens a branch: `ShopKeepsOwner` (and so `BranchKeepsOwner`, which it implies), `StaysEmployed`. |
| `Sessions_renewed` | Two users, two sessions with three tokens each, a renewal and a revalidation, one outage or kill: `DeadStaysDead`, `LiveIsEntitled`, `NotTakenForThief`, `SavedIsOwn`, `KeepsLiveSession`. |

Each that passes has at least one mutant per property in `PROJECT.json`: a plausible bug in
the code the property is about, under which TLC finds it violated.

**Bounds.** Every hazard needs few of everything. A lost update takes one row,
one till's two stacked edits and one foreign write, so two rows and three ops
leave room for a row the chain rule must not touch; a repeated request takes two
threads; three ops in batches of two (`PushBatch`) make the chain rule cross
batches, a lost connection makes it cross syncs. In the feed, two writers and one page between them show a commit that
comes late, `PageSize` one makes every read end between two changes, and three
writes with one restore give a seq two histories. In the drawer, two
transactions show every race on one row, two shifts let a return pay out of
another drawer than the sale went into, and three rows are a sale and two
returns of it. A document has at most five
rows, and a fault between any two of them is one fault; two voids and two returns
of one sale are every pair that may contradict each other, and one of the returns
wants more than the other leaves. Three requests at a time are the least that can
wait in a circle through three tables; the three mixes of 17 requests put every pair of requests that
share a row into one run, two sales want the same last piece, and the return in
two parts of a discounted sale with a price of 13 for ten pieces rounds three
times. One code is enough, since rows of
different codes never meet; a row of a till and one of REST want it, and the second
till removes and reads. Unseating owners takes two requests; a third, on a thread of its own, may change
what the two have read or wait for. One revalidation and one renewal are enough to meet
each other and a hand-over; a renewal the till has left and a new one are never there
together in the run (the theorems have any number of each). A session shows
a lost answer, its retry and a late reuse with three tokens, and one outage is enough
for each, since both tries of a renewal may fall into it (`Outage`).
`MaxOps`, `MaxRest`, `MaxLost`, `MaxKilled`, `MaxRefused`,
`MaxWrites`, `MaxRescopes`, `MaxRestores`, `MaxStops`, `MaxRow`, `MaxAsked`, `MaxIssued`,
`MaxFault` and `Mixes` bound what would
otherwise go on for ever; `MaxPages` is the code's `maxPullPages`. `Drawer` has
no counter: its ids run out, and `CHECK_DEADLOCK FALSE` in its configurations
says that it may then stop. The other configurations that say so stop the same
way, when the bounds are used up. Symmetry is used for ids and threads in safety
runs only.

**Fairness.** The app syncs every two minutes and after each change of the
connection, a sync under way goes on, and the server answers what it took: weak
fairness of `SyncStep` and of each server thread, and of the pull's steps in
`ChangeFeed`. An op goes out under the sign-in of its author, so `FairSpec` of
`SyncPush` needs every user to come back to the till again and again, which is
strong fairness of `StartSync(d, u)`: the till is busy in between. Nothing is
assumed of the people who edit, of REST writes, refusals, losses, kills or
restores; they are bounded instead. An edit of a row whose insert was refused for
good waits for ever, as docs/sync-protocol.md says, so `SyncPush_faults` refuses
only updates for good. `FairSpec` of `DeviceTransaction` has weak fairness of a
thread's steps and strong fairness of a document's push, since the threads may be
busy when it is due; `EveryDocumentIsDecided` speaks only of behaviours in which
faults, permission changes and product edits stop and no permission is missing.

**What the runs take for granted.** `SyncPush_chain` keeps forms closed during a
sync (`EditDuringSync = FALSE`), has one user, and no refusals for now; its batch of
two keeps an edit together with the one it was made on. `ChangeFeed_restored` has sales and no master
rows, and `ChangeFeed_shared` one change of roles. `Staff_kept` and
`Sessions_renewed` keep some requests apart (`Alone`, `MadeMeanwhile`, `Apart`), and
`DeviceTransaction_decided` records the refusals of a document in one go
(`AtOnce`). Each of these switches excludes something the code lets happen; what
happens then is listed next.

## Findings

One run checks a property that a document states and the code does not keep,
`DeviceTransaction_half_settled`: the refusals of a document's rows are recorded in
one commit each. A push of the same document that comes in between finds the first
recorded, decides the others one by one and enters some of them: a supplier's bill
without the goods.

The models show more. Where a switch or a formula is named, TLC finds the
counterexample with it; the rest was read in the code while modelling it:

- *A till killed between a verdict and what it asks for*: `pushPending` marks an op as
  a conflict in one transaction and replaces the losing row in another. Killed in
  between, the till keeps the losing row: the op is not sent again and a pull skips
  the server's older version (`DeviceAgrees` in `SyncPush_chain` with `MaxKilled = 1`,
  one op and no refusals; docs/sync-protocol.md:137 says the local copy is replaced).
  It marks a refused barcode as rejected in one write and deletes the local copy in
  the next. Killed in between, the till scans a code that the server gave to another
  product, for good (`ScansAgree` in `Barcodes_scanned` with `KilledAt = {"drop"}`;
  docs/sync-protocol.md:142 says the copy is deleted).
- *A late removal*: a code is taken off while the push waits for the verdict on its
  insert. The verdict is kept for that push only; the next sync sends the removal,
  is answered `BARCODE_NOT_FOUND` and tries again at every sync
  (sync_service.dart:149 says a later op takes the verdict instead of being sent). In
  `Barcodes_scanned`, for every till `t` with `sync[t].step = "plan"` and
  `sync[t].op.kind = "remove"`:
  `recorded[OpOf(t, "add", sync[t].op.row)] # "rejected"`.
- *An edit during a sync* (`SyncPush_chain` with `EditDuringSync = TRUE`): an edit
  saved on top of one that the sync finds to conflict is sent by the next sync,
  which knows nothing of the failed row, and overwrites a write its author never
  saw (`NoUnseenOverwrite`).
- *A connection lost between two batches*: the map of failed rows is a variable of
  one `pushPending`. An edit on top of one that conflicted, in a later batch when the
  connection is lost in between, is sent by the next sync and overwrites what its
  author never saw (`NoUnseenOverwrite` in `SyncPush_chain` with `PushBatch = 1`;
  sync_service.dart:147-151 says that such an op takes the verdict).
- *Two users of a till*: the sync of one leaves the edit of the other below it in the
  outbox and sends its own, which may overwrite a write over REST
  (`NoUnseenOverwrite` in `SyncPush_chain` with `User = {u1, u2}` and `MaxOps = 2`).
- *Wrong verdict*: with two server threads and a refusal for now between them, an
  op whose answer was lost can take the verdict of an earlier op of its row and be
  shown as a conflict although the server holds it (`StatusIsTrue` with
  `MaxOps = 3`, `TransientRefusals = {"update"}`, one lost answer).
- *Refused edits count*: a till's version counts edits the server refused, so an
  edit on top of one can pass the compare-and-set against another writer's row
  (`NoUnseenOverwrite` in `SyncPush_chain` with `FinalRefusals = {"update"}`, or with
  `TransientRefusals = {"update"}`, `MaxRefused = 1` and `MaxOps = 2`: the refusal
  passes between the two edits of one push, and a write over REST comes in between;
  sync_service.dart:151 says that other refusals make the next edit conflict).
- *Two grants* (`ChangeFeed_restored` with `ChangesDuringPull = TRUE`, one writer,
  `MaxRescopes = 2`, `MaxPages = 4`): a second change of scope in one pull; the
  pull restarts once only, and the second grant's rows behind the cursor stay
  hidden (`NothingMissed`).
- *Restored master rows* (the same run with `Master = {r1, r2}`): the re-read after
  a restore skips a master row whose restored version is lower, and the till keeps
  what the server lost (`AgreesWithServer`). A push after a restore and before the
  next pull brings the feed back to the cursor, and versions of two histories are
  compared.
- *A sale rewound*: images of sales have no version (`_apply` skips by version, which
  only master rows carry). Of two users of a till, the one whose cursor is behind
  applies older images over what the other has read: a sale the second has seen voided
  is shown as sold again until the first's pull is through, or for longer if it stops.
  `FactsOneReader` in `ChangeFeedProofs` is there for it.
- *A void rewound* (the same run with `Editable = {r1, r2}`): a sale voided on the
  till and not yet pushed is shown as sold again by a pull of its own change:
  `\A r \in Fact : edit[r] # None => local[r].version = Voided`.
- *A close from a till* counts without the shift's lock and misses a REST sale that
  was going in: `\A s \in Shift : shift[s].status = "closed" => Whole(shift[s].counted, s)`
  in `Drawer_counted`.
- *Late and not flagged*: synced money reads an open shift, a close counts and
  commits, the money commits. In `Drawer_counted`, for every row `e` of a shift `s`
  closed over REST:
  `entry[e].void = "no" => e \in shift[s].counted \/ entry[e].late`, and
  `entry[e].void # "no" /\ e \in shift[s].counted => entry[e].voidLate`.
- *Children left waiting* (`DeviceTransaction_decided` with `AtOnce = FALSE`): the
  server stops between the commits of `_settle`; the header is recorded
  `SYNC_TX_ABORTED`, and its rows then wait for a sale that never comes
  (`EveryDocumentIsDecided`).
- *A debt taken off twice* (`DeviceTransaction_together` with `AtOnce = FALSE`, a sale
  of 2 on credit and two voids that take off 1 each, as tills do that know of a lower
  balance): the second void is refused, the server stops between the commits of
  `_settle`, and the next push decides its debt row alone. `_debt_reversal`
  (sync_policy.py:1277) compares what is taken off with what was owed, finds room for
  it and enters it without its void (`AllOrNone`).
- *A branch nobody owns* (`Staff_kept` with `MadeMeanwhile = TRUE`,
  `Alone = {"role", "enable", "revoke"}`, `Start <- OneBranch`, `User = {o1, c}`,
  `Branch = {b1, b2}` and two threads): an owner opens a branch and waits for the owner
  rows that a disable of the same owner has locked. Before it counted, the disable saw
  somebody made owner meanwhile, and let the owner go; `create_branch`
  (iam_service.py:492) has looked before that, gets neither the disabled owner's rows nor
  the new one's, and gives the branch to its actor alone. The new branch has no active
  owner (`BranchKeepsOwner`; iam_service.py:6 says that every branch keeps one).
- *An owner not counted* (the same with `Alone = {"revoke"}`): a request to switch a
  cashier off has loaded them and counts nobody (iam_service.py:348). The cashier is made
  owner, is counted when the other owner is switched off, and then the first request goes
  on (`BranchKeepsOwner`).
- *Two requests about one employee* (`Staff_kept` with `Alone = {}`): two
  revocations each leave the other's branch, and the employee has none, or a
  default branch they no longer work in (`StaysEmployed`). Two assignments at once give an employee
  two rows in one branch; two closes leave no branch active.
- *A revalidation of the user before* (`Sessions_renewed` with `"revalidate"` taken out
  of `Apart`; `MaxFault = 0` and `MaxIssued = 2` are enough): `_revalidate` of A waits
  while A signs out and B signs in. Its `SESSION_REVOKED` or `REFRESH_INVALID` goes to
  `_end` (auth_controller.dart:355), which looks at no epoch and drops B's live tokens
  (`KeepsLiveSession`; http.dart:54-58 says that such an answer is dropped). Or A is
  confirmed: A's profile is saved (line 346) and B's tokens stay, so the till shows A and
  works as B (`SavedIsOwn`; auth_controller.dart:488 says that the profile is that of the
  one signed-in user).
- *Sessions that overlap* (`Sessions_renewed` with a member of `Apart` taken out):
  a request that arrives after its till gave up on it and after the grace is taken
  for theft (`"late"`); a sign-in saved while a renewal waits for storage can have
  its token dropped or replaced (`"handover"`); a sign-in in the middle of a reset
  or a disable leaves a live session behind (`"signin"`).
- *A sign-out during a retried renewal* presents a token two rotations old and ends
  nothing; docs/domain/identity-access.md:11 says a sign-out ends the session with
  either token, which is so for one renewal and not for two.
- *A correction of stock* takes no lock on the product: it may commit between a
  sale's look at the stock and its commit, and stock goes below zero, which
  docs/domain/inventory.md:17 (invariant 4) excludes for a shop that is online.
  `BalancesHold` counts corrections apart for that reason.
- *Crossed carts* wait for each other, and the database has to break one off
  (`CirclesAreOfCarts` says that there is no other circle). A REST request has no
  key by which a repeat would be recognised. Two requests of one seller may both
  find no open shift and open one each.

## What is proved

Proofs are checked by TLAPS for every value of the constants that meets the
`ASSUME`s: any number of tills, users, rows, threads, ops and faults.

`SyncPushProofs`:

- `TypeInvariant`: `Spec => []TypeOK`.
- `ExactlyOnce`: `Spec => []AppliedOnce`.
- `SyncedWasWritten`: `Spec => []SyncedIsWritten`, the half of `StatusIsTrue` that
  holds in every instance.
- `StatusesAreTrue`: all of `StatusIsTrue`, under `HeldBack`; `EditsOfKnownRows` is the
  same where every row is on the server and nothing is refused for now, and has no
  condition on the behaviour.
- `NothingUnseenIsOverwritten`: `NoUnseenOverwrite`, and `SettledRowsAgree`:
  `DeviceAgrees`, under `HeldBack`, `CleanStop` and `OwnChain`, with forms closed
  during a sync and only inserts refused for good.
- `EditsInOneRequest`: both with no condition on the behaviour, for one user whose
  edits of rows the server has fit one request (`MaxOps <= PushBatch`) and are not
  refused, on a till nobody kills; other tills, REST writes and lost requests and
  answers are unlimited.

`AppliedOnce` is not inductive. An applied record is written together with the
change, so what has to be shown is that no thread writes an op that is already
written; that is the second look at `processed_ops` inside the writing
transaction. `SyncedIsWritten` needs more: that an answer read "applied" is true
when the till reads it. The inductive invariant `Inv` is `TypeOK`, `AppliedOnce`,
`AnswersAreTrue` (every applied answer in a thread or at a till is of an op in
the feed) and `InFlight`: ids held by forms, pushes and threads are ids of ops
that exist, and a till waits only on a thread that works for it, so an answer is
read against the op it was given for. The proof has a step for each action of
`Next`; lemmas say what an append to an outbox or to the feed leaves as it was.

The other half says that an op in the review list never took effect. A till puts an
op there unsent when an earlier one of its row failed in the same push, and that is
true only as long as no thread can still write it. `HeldBack` is a condition on each
state: an op that the server refuses for now, by itself or because its row is not
there, has nothing of its author behind it on its row, or the row never comes (its
insert was refused for good). Without it the statement is false (*Wrong verdict*
above). The inductive invariant `HeldInv` adds to `Inv`: a thread comes to the later
of two waiting ops of a row past the earlier, and writes it only if that one did not
break the chain of the row (`InTurn`, `NotBroke`); an op shown as failed is one no
thread will write (`Doomed`, `StatusesStand`); and of each push, that ops go in the
order they were saved (`GoesFirst`, `SentFirst`) and are of one user (`OneAuthor`),
that what was refused for now has nothing behind it (`RetryIsLast`), and that what is
left on a row that failed is doomed (`RestDoomed`).

The conditions of `NothingUnseenIsOverwritten` and `SettledRowsAgree` keep out what
the code leaves open, and each answers to a finding. They hold in every state of `SyncPush_chain`
(TLC, with the conditions as invariants), and a switch that lifts one of them lets
TLC refute `NoUnseenOverwrite` or `DeviceAgrees`:

| Condition | Without it |
|---|---|
| `CleanStop`: a lost connection or a kill comes upon no server row still to be written over the local one, and no op still to be marked with its row's verdict | *A till killed between a verdict and what it asks for*, *A connection lost between two batches* |
| `OwnChain`: nobody saves an edit on top of one that another user of the till has not synced | *Two users of a till* |
| `~EditDuringSync`: no form is open while its till syncs | *An edit during a sync* |
| `FinalRefusals` has inserts only | *Refused edits count* |
| `HeldBack`, as above | *Wrong verdict*, *Refused edits count* |

Versions are all the server compares, so both properties hang on one fact: a version
of a row, wherever it is held, stands for one content. `KnownInv` says where that
content came from. The feed's images of a row rise up to the row itself
(`FeedKnown`), so two contents the server has held with one version are the same. A
till's copy of a row is one the server has held, or an edit of its own that waits or
was taken, or about to be replaced (`LocalKnown`). An edit was made on what the
server has held, or on an earlier edit of its author that is taken before it and
fails it when it fails (`Parented`): this is the chain rule, and the proof follows
it through a push that carries all the waiting ops behind one it carries
(`AllGo`), through threads that answer in order and hold a row broken for every
answer that broke it (`ThreadKnown`), and through the verdicts a till keeps for the
rest of its push (`FailedKnown`, `BrokenStaysBroken`). An edit the server takes has
the row's version as its base, so what it was made on is what it replaces
(`ServerKnown`). A till does not fall back behind what it has read (`SeenKnown`): a
caught-up till holds versions no older than the server's, of contents the server has
held, hence the server's rows (`KnownAgrees`). `KnownInv` was checked by TLC on small
instances before it was proved; it is inductive beside `HeldInv`, with a lemma for
every action. For `EditsInOneRequest` the conditions are shown to hold: a request
that takes the whole outbox leaves no op behind to be marked (`OneRequest`).

`ChangeFeedProofs`, for any number of rows, users, writers, pages, stops, restores
and changes of roles:

- `FeedInOrder`: `Spec => CommitsInOrder`: no change becomes visible below one
  that is.
- `ChangeFeedTypeOK`: `Spec => []TypeOK`.
- `NothingIsMissed`: `NothingMissed`, under `RolesSteady` and `FactsOneReader`;
  `QuietPullsMissNothing` is the same where roles change and backups return between
  pulls only (`~ChangesDuringPull`).
- `PendingEditIsKept`: `PendingEditKept` without restores.
- `CaughtUpAgrees`: `AgreesWithServer` of master rows without restores, under
  `RolesSteady`.
- `RestoredSalesAgree`: `AgreesWithServer` of sales that nobody voids on the till,
  with any restores, for one user, under `RolesSteady`.

The conditions are what the code needs, and each is a finding or follows from one.
`RolesSteady` is an action of the behaviour: once a pull has started again, its
user's roles stay until it ends (see *Two grants*; in `ChangeFeed_shared` it always
holds, the one change of roles being spent when a pull starts again).
`FactsOneReader` says that sales are read by one user, or there are none: an image
of a sale has no version, so the older cursor of a second user rewinds what the
first has read (*A sale rewound*). Restores are excluded where master rows are read
again and compared by versions of two histories (*Restored master rows*).

`OrderInv` says that one transaction at most holds the feed lock, that every
committed seq is below the next and that the holder's seqs lie between. `WritesInv`
says that every write has a name of its own, used once; `FeedInv`, that along the
feed the versions of a row rise and the server's row is its last image, which with
the write names also identifies a change across restores (`Holds`). A step keeps
all of the feed up to any position that is still held (`FeedKeeps`), so a page
stays whole between request and apply (`PageSound`), and what a cursor and a pull
under way have read stays read (`ReadSoFar`: not only what the property says of the
roles of now, but for the scope the reader had). `HeldInv` says where a local row
comes from: the feed, or an edit that waits. For sales, `ReadExactly` replaces
versions: each row is as its last image below the cursor.

`DrawerProofs` proves every property of the passing run of `Drawer`:

- `TypeInvariant`: `Spec => []TypeOK`.
- `RestCloseCountsEverything`: `Spec => []RestCloseIsWhole`.
- `MoneyGoesBackOnce`: `Spec => []GoesBackOnce`.
- `LocksNeverCircle`: `Spec => []NoDeadlock`.
- `CloseIsFinal`: `Spec => ClosedForGood`.

None of the five is inductive: each depends on what a transaction read earlier
being so still when it commits. That is the invariant `Inv`: what every step of a
transaction relies on (`TxnOK`: a row about to be inserted is not there, the sale
about to be voided or returned is locked and still voidable or returnable, a
shift about to be counted is locked, open and counted as it is, who waits for a
drawer holds none), that no two transactions share a lock, a new shift or a new
row (`Apart`), and that the version of a shift tells whether it is open
(`ShiftOK`). A step that writes nothing keeps it when the transaction's own facts
hold (`OwnStep`); for each of the four writes the proof shows that it disturbs
nothing another transaction relies on, by the locks (`CommitOpenInv`,
`CommitInsertInv`, `CommitVoidInv`, `CloseInv`). `NoDeadlock` then follows from
the order of the locks: who holds a drawer waits for nothing.

`CounterProofs` proves every property of the run of `Counter`, for any requests,
products, prices, mixes and number of threads:

- `CounterTypeOK`: `Spec => []TypeOK`.
- `BalancesAlwaysHold`: `Spec => []BalancesHold`.
- `ReturnsAlwaysAddUp`: `Spec => []ReturnsAddUp`.
- `CreditAlwaysKept`: `Spec => CreditKept`.
- `CirclesAreAlwaysOfCarts`: `Spec => []CirclesAreOfCarts`.

What a transaction checked when it locked a row must be so still when it writes.
`Inv` says so: no two transactions hold one row (`Exclusive`), and while one holds
a row, what it found there holds (`Checked`: the goods it counted are there, the
customer is active and within the limit, the sale may still be voided or returned,
the balance it read is the balance). Locks are taken in an order (`InOrder`), so a
request that has its goods has its sale, and `SaleKept` is what a sale's row says
of its returns. `OthersSpared` shows that a write by one transaction leaves alone
what another has found. The rounding is a lemma of its own (`DivPart`: the
rounded share of a discount is no more than what is shared out). Circles are by
`Topmost`: the table that comes last of those waited for is held by somebody who
waits for no later one. Sums over a sale's lines are functions of the subsets of the
lines; what is needed of them (a sum of naturals is a natural, and no more than the
sum of what is larger line by line) is proved by taking the smallest subset for which
it would fail.

`SessionsProofs`, for any number of users, sessions, renewals under way, threads
and lost messages:

- `TypeInvariant`: `Spec => []TypeOK`.
- `RevokedStaysRevoked`: `Spec => DeadStaysDead`.
- `OnlyTheEntitled`: `Spec => []LiveIsEntitled`, where no reset or disable falls
  into a sign-in (`"signin" \in Apart`; without that it does not hold, see the
  findings).
- `SavedTokenIsOwn`: `Spec => []SavedIsOwn`, where no sign-in is saved while a
  revalidation waits (`"revalidate" \in Apart`; without that *A revalidation of the user before*
  breaks it). Renewals, sign-outs, kills and late answers may fall as they like.
- `RetriesAreNotTheft`: `Spec => NotTakenForThief`, where `"late"`, `"handover"` and
  `"signin"` are kept apart, as in the run (what happens without each of them is under
  *Sessions that overlap*); revalidations may fall as they like.
- `LiveSessionsAreKept`: `Spec => KeepsLiveSession`, where `"revalidate"` is kept apart
  too (*A revalidation of the user before*).

The invariant `Inv` says that whatever names a session (a saved token, a renewal, a
request, a refresh under way, a sign-out, a revalidation) names one that was opened, so a
refresh rotates no row that is not there; that an opened session has a user; under
`"revalidate" \in Apart`, that the saved token is of the user signed in and that a
revalidation under way is about the till's session (`OwnOK`); and, under
`"signin" \in Apart`, that accounts in the middle of a sign-in and of live sessions are
active and nothing is outdated. All steps but opening a session change sessions the same
way (`SessKept`: the user stays, revoked stays as it is, nothing comes to life), and each
action is shown to be such a step.

For `RetriesAreNotTheft`, `Agreed` says what the till and the server hold of one session.
`OneByOne`: the till renews the session it has, once at a time, and a renewal that
goes on after the till has left is marked. `Fits`, of a live session of which no
renewal was given up: its renewal has a token the server takes, the newest, or the
one before it within the grace where the answer to the first try was lost; whatever
is on its way or with a thread is the request that the renewal waits for, and no
second thread serves it. So the token that comes back late is of a session given up
(`LetThrough`). For `LiveSessionsAreKept`, `EndsOver` says that where an end waits for
storage, or a revalidation was refused, the till's session is over, and that a
revalidation waits for no renewal the till has left. Most steps leave the other sessions alone
(`Spared`).

`BarcodesProofs` proves every property of the run of `Barcodes`, for any number of
tills, rows, codes and server threads:

- `BarcodesTypeOK`: `Spec => []TypeOK`.
- `CodesAlwaysUnique`: `Spec => []CodesUnique`.
- `RemovedAlwaysStaysRemoved`: `Spec => RemovedStaysRemoved`.
- `ScansAlwaysAgree`: `Spec => []ScansAgree`, where the app is not killed between the
  verdict on a barcode and the removal of its copy (`"drop" \notin KilledAt`, see *A till
  killed* above).

A till and the server may agree although each is a step behind the other, so `Inv`
says of every op what the server decided of it and what became of the row
(`Recorded`, `Shown`), of every row which images of it the feed has (`FeedKept`), of
a local row which of those the till has read and which of its ops are unanswered
(`LocalKept`), and of an answer on its way that it still is what was decided
(`Fine`). `ScansAgree` is the case in which nothing is unanswered or unread.

`StaffProofs`, for any number of employees, roles, branches, threads and requests:

- `StaffTypeOK`: `Spec => []TypeOK`.
- `ShopAlwaysKeepsOwner` and `BranchAlwaysKeepsOwner`: `ShopKeepsOwner` and
  `BranchKeepsOwner`, where nobody is made owner while a request is served that takes an
  owner's rights away or opens a branch (`~MadeMeanwhile`).
- `EverybodyStaysEmployed`: `StaysEmployed`, where an assignment is not revoked
  meanwhile (`"revoke" \in Alone`).

These are the conditions without which TLC finds the property violated
(*A branch nobody owns*, *An owner not counted*, *Two requests about one employee*). What a request
names is there (`Named`). Where nobody is made owner meanwhile, no owner's row comes up
in the branches the shop began with, so a statement that waits has found all of them
(`Sure`) and locks them all; two requests cannot both hold them, so from its first count
to its commit a request is the only one that unseats or opens. The shop's owners are
therefore counted over the branches there are, the count holds until it is acted on
(`Counted`), a new branch is shared among all who own the shop, and a target that was
found to be no owner has not become one (`AsRead`). `HomeAsRead` says the same of the
default branch, which is what `Alone` is needed for.

`DeviceTransactionProofs`, for any documents, threads, faults, and refusals recorded
at once or one by one:

- `DeviceTransactionTypeOK`: `Spec => []TypeOK`.
- `TransactionsNeverCircle`: `Spec => []NoDeadlock`.
- `DocumentsAreWhole`: `Spec => []AllOrNone`, under `SettlesWhole`.
- `TillsShowWhole`: `Spec => []ShownWhole`, under `SettlesWhole`.
- `TransactionsImplementDocuments`: `Spec => ImplementsDocuments`, under
  `SettlesWhole`: every behaviour of the rows is one of `Documents`.

A thread that has written holds the feed and every header it can still ask for; a
thread that has not holds nothing another one needs in order to write. The case that
matters is a return, which needs two headers: the sale's is locked by its own first
row. That the first row is in the request is the reason for most of `Inv`: a till
stops sending only what is recorded, of a document the first row is recorded first,
and where it is recorded the rows are decided one by one and in transactions of their
own (`Recording`, `Headed`, `Ready`).

For the other three the invariant is `Inv /\ Kept`. `BooksKept` says of the books that
a document is there as a whole and recorded applied, or not there at all
(`DocKept`); that beside a void there is no return and no other void of the sale
(`VoidBooked`); and that returns take off no more debt than the sale made
(`DebtBooked`). What must be shown is that a document that goes in row by row is never
refused in the middle and never joined by a part of another. So `Does` says of every
thread that what it has written is the document from its header on (`InOrder`), or
that it holds a document that must end in a refusal: a void whose sale is voided
already, or what was left when the header was refused (`FoundDone`, `LeftOver`); and
that what its header was checked against (the sale is there, no void, this much left
to return) holds until it commits (`Checked`), because whoever would change it needs
the lock of the sale.

`SettlesWhole` is the condition without which TLC finds `AllOrNone` violated: either
the refusals of a document are recorded at once (`AtOnce`), or no document has a part
that the server would enter alone after its header was refused. Such documents are
receipts (`DeviceTransaction_half_settled`) and voids with a debt row that fits beside
the one of another void (*A debt taken off twice*). It holds of both passing runs: of
`DeviceTransaction_decided` by `AtOnce`, of `DeviceTransaction_together`, which records
refusals one by one, because each of its voids takes off all that was owed. Sales and returns need no condition: a part of one always misses its header.

Only model-checked are the liveness properties (`EveryOpSettles`, `FeedIsRead`,
`EveryDocumentIsDecided`), which are beyond the prover: it has neither `ENABLED` nor
fairness. Every invariant and every safety property of the runs is a theorem, under
the conditions it states.

Each `ASSUME` of a module is a bound or the shape of its data (`BoundsAssumption`,
`BoundAssumption`: bounds are natural numbers; `FounderAssumption`: the shop begins
with an owner; `NoneAssumption`: the absence of an edit is no edit; `DocsAssumption`:
there are finitely many documents, and none sells or takes back nothing, which the
till refuses), and TLC evaluates it on the runs. What a theorem needs beyond is stated in it, and above.

## What is not modelled

- The checks a till makes in its own tables before it records a document
  (`sales_store.dart`, `shifts_store.dart`, `customers_store.dart`): one local
  SQLite transaction each, which nothing interrupts.
- Groups that mix ledger rows with master rows; transfers between branches.
- Names, formats and limits of fields, currencies, units of measure, unique SKUs
  and receipt numbers (the database's indexes decide them).
- What a receipt does to a product's cost; tendered cash and change.
- The expiry of a session, the lock after failed sign-ins, the till's PIN.
- The till's encrypted file, its key and its backups: files and cryptography.
- The solar calendar, Persian digits, the printing of money: pure conversions.
- Reports, insights, audit queries, routers, migrations, screens and hardware:
  they keep no state of their own, or only format it.

## Plan

1. The calendar as a function against a reference definition.
2. The tie of a voided sale to the count of its shift, once the server has one.
