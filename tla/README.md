# A verification project for the Offline Platform API

The repository is a FastAPI service over PostgreSQL (`repo/app`): an offline
cash desk with after-sales, and around it project incubation, notifications, a
feature store, operation configuration, shifts, permissions and metrics.
Almost all state is in the database. Nearly every request handler is a plain
`def`, so FastAPI runs it in a thread with a session of its own (submission, upload
and the websocket are coroutines on the event loop); handlers interleave at every
statement, and what keeps them apart is only what the database gives at READ
COMMITTED: row locks of updates, unique constraints, CHECK constraints.
The service takes no lock of its own. One background task, `maintenance_loop`,
works on the same tables.

The modules here model that: sessions that read, keep what they read, flush
and commit. The questions are about overlaps, failures between two steps and
the promises of the design documents.

## 1. Inventory

Lines are of `repo/app/domain/services.py` unless another file is named.

| Component | State | Operations | Hard behaviour | Correct when |
|---|---|---|---|---|
| Order desk (537-611, `routes.py` 474-540, 644-649) | `orders`, `order_lines`, `payment_records`, `audit_logs` | checkout, settle, auto-void, print receipt | overlap of settlements with each other and with auto-void; a CHECK that fails at the flush; a printer that cannot be rolled back; lock order | charged exactly once, never void when paid, nothing half-written, no deadlock, receipts only of sales |
| After-sales (614-811, `routes.py` 543-641) | `after_sales_orders`, `after_sales_line_refunds`, `accounting_reversals` | refund, exchange, reverse settlement | repeats under one key, also concurrent; overlap of refunds; stale copy of the order | one answer per key, books that balance, refunds within the sale |
| Maintenance loop (`main.py` 50-70) | a task | auto-void, compaction, sleep | an exception ends the task | drafts close in time |
| Receipt printer (`printer.py`) | the paper | print | effect outside the transaction | log and paper agree |
| Pricing (413-534, `routes.py` promotions) | `promotion_rules` | create a promotion, calculate a cart | promotions accumulate and combine; nothing validates their configuration | a new promotion never makes a cart dearer or one that was refused acceptable |
| Product catalogue (`routes.py`) | `products` | create, list | none: one insert | SKU unique (a constraint) |
| Projects (814-914) | `projects`, `project_versions` | create, submit, edit, status change, diff | blind writes after stale reads; version numbers | status follows the transition table; a submitted version is not changed |
| Attachments (917-965) | files, `attachments` | save, verify | no transaction spans disk and table; lost answer of a COMMIT; two size limits | a row has its file and a file its row |
| Notifications (969-1014, `routes.py` 285-460, `events.py`, `ws.py`) | `notifications`, the hub's sockets | publish, push, list, read, connect | publication after commit; throttle by unique bucket; a second connection; dead sockets and sockets whose handler has failed | a bounded rate, and every open socket served |
| Feature store (1017-1113) | hot and cold values | upsert, compute, compact, verify | upsert against compaction, compaction against compaction | no value lost or archived twice, hash agrees |
| Operation configuration (1116-1142) | `operation_configurations` | set, roll back | version numbers read and then used; bulk update beside ORM update | exactly one active version per key |
| Daily metrics (1145-1183) | `daily_operation_metrics` | aggregate, query, export | two aggregations of a day | one row per day |
| Identity (149-194, 292-410, `auth.py`, `security.py`) | `users`, bindings, logs | bootstrap, create, login, change password, grant, revoke, update | lost updates of the counter; a slow hash test on a stale copy; log against bindings | lock after the limit; no entry on an old password; the log replays to the bindings |
| Shifts (197-289) | `shift_schedules` | create, update, status | partial updates, each valid against what it read | start before end; transitions |
| Envelope, settings, engine, encryption, migrations | none of their own | | | not about state |

How they meet: the order desk and after-sales share `orders` and
`payment_records`; the loop calls the order desk and the feature store;
`submit_project` publishes to the event bus, whose one handler writes notifications in
a session of its own and hands messages to the websocket hub; two trigger endpoints and
the create endpoint write notifications directly; everything writes the audit log.

## 2. Plan

Most important first. What is done is marked.

1. `Orders`, `MCOrders`, `OrdersProofs`: the order desk and the loop. **Done.**
2. `OnceLedger`, `AfterSales`, `MCAfterSales`, `AfterSalesProofs`: after-sales, shown
   to implement the abstract ledger. **Done.**
3. `Projects`, `MCProjects`, `ProjectsProofs`: versions, workflow and the announcement
   of a submission. **Done.**
4. `UnitOfWork`: which columns a flush writes; used by 5 to 7. **Done.**
5. `Logins`, `Permissions`, `Shifts`, `MCStaff`, and `StaffProofs` about all four; TLC checks them
   in `MCProjects`. **Done.**
6. `Configs` and `Features`, and `StoresProofs` about both. **Done.**
7. `Inbox`, `Attachments`, `Pricing`, `Metrics`, and with 6 `MCBackOffice`; `InboxProofs`, and
   `BackOfficeProofs` about the others and the composition. **Done.**
8. `Sums`: the lemmas about sums over finite sets that the proofs about amounts need. **Done.**
9. `Store`: the composition of `Orders` and `AfterSales` over shared tables. Open; what after-sales
   meets of it, an order settled twice or voided after it was settled, is in `AfterSales`.
10. The connection pool that the second session of the event handler can exhaust. Open.

## 3. What is modelled

### `Orders`

A job is a request or the loop. `pc` is where its session is, `target` the
orders it loaded, `held` the rows it has updated and not committed, `tender`
and `startedAt` what it will write. The tables are variables that change only
in commits.

| Action | Code |
|---|---|
| `Checkout` | `checkout_order`: inserts nobody can see until the one commit, so a single step |
| `SettleLoad`, `SettleRefuse` | the access check loads the order (`routes.py` 104), and every later test of `settle_order` reads that copy from the identity map |
| `SettleFlush`, `SettleReject` | line 582: the UPDATE waits for the row lock, then the INSERTs meet the CHECK constraint |
| `SettleCommit` | `_commit_atomic` |
| `VoidScan`, `VoidUpdate`, `VoidCommit` | `auto_void_unsettled_orders`: the SELECT takes no lock; the commit flushes one UPDATE per loaded order, in primary key order (SQLAlchemy sorts them), by id alone |
| `LoopSleeps` | the rest of the loop's body |
| `PrintLoad`, `PrintEmit`, `PrintCommit` | `print_receipt_for_order` and its handler: paper first, then the log |
| `Fail` | an error in any session: rollback and 500; in the loop, the end of the task |
| `Restart` | the process dies with its sessions, `lifespan` starts a new loop |

`raced[o]` is a history variable: set when a job loads an order that another
job has loaded or updated with intent to change. It is read by no guard; it
separates what the code guarantees from what it guarantees only without
overlap.

Amounts are cents, tenders a small set of payment lists. The order's total is
a constant per order, since nothing in this component depends on how
the cart came to it. Caller checks of the settle endpoint are modelled, the role
lists of the endpoints are not: every caller has a cashier's role. The access log
is left out.

### `AfterSales` and `OnceLedger`

A call is one request with a body (operation, order, user, key, reason,
basket). `Load` is the access check, whose copy of the order (`seen`) decides
eligibility later; `Replay`, `Refuse` and `Pass` are the three outcomes of the
idempotency lookup and the tests after it; a refund then reads line rows
(`CheckLines`) and header sums (`CheckTotal`) in two separate statements, which
may see different committed states; `Insert` is the flush that meets the unique
scope; `ReadPayments` the later query of a reverse settlement; `Commit`
publishes everything. A scope hash is taken as its input and a fingerprint as
the bag of items, because sorting makes the order of lines irrelevant.
`Decimal.quantize` rounds half to even and is modelled by `HalfEven`.

What no schema bounds stays unbounded: the price of a product is any integer
(`ProductCreateReq`, `routes.py` 156), and so is the amount an exchange line claims. One body
of the instance claims a negative amount. A negative price is what
`RefundsCappedUnlessRaced` has to except (`Priced`): an exchange of such a line
adds a negative amount to the sum that later refunds are compared with, and
they may then pass what the order cost. The assumption on settlements
(`SettlementAssumption`) is what `Orders` shows of each of them
(`SettlementAllOrNothing`): its payments add up to the order.

`Settle` and `Void` are the order desk seen from here. A settlement or a void tests the copy
of the order it has loaded, so any number of settlements that overlap may commit, each
with its payments, before or after a void, and a void after a settlement
(`Orders`, run `orders_charge`). What an instance has of this is in `Faults` ("overlap",
"void") and in `Settlements`. The audit and access logs are left out of this module, as no
property here reads them. What is written is computed at the commit from the body,
which no step between the insert and the commit can change.

`OnceLedger` is what idempotency promises in three actions: ask, book once per
scope, replay. `AfterSales!LedgerSpec` is its specification under the mapping
`asked` = what a call that has begun asks, `ledger` = the committed headers,
`answers` = what was answered.

### `Projects`

A request is one call of submit, edit or status change. `Load` is the access
check, whose copy of the project decides whether the operation is accepted;
`ReadLatest` the query for the latest version; the commits write what differs
from what was read. `edit` and `status` are plain handlers and run in threads.
`submit_project_handler` is an `async def` that never awaits, so two of them
never overlap in the one process the service runs as (`Dockerfile`, line 11):
`LoopFree` is that guard. It does not keep threads out: their requests interleave
with a submission at every step.

`Publish`, `Notify`, `Vanished` and `Answer` are `event_bus.publish` and the one
subscriber. Each notification is a commit, which expires the list of bindings, so a binding
revoked meanwhile ends the loop with an exception. The ten-minute window only decides
whether a recipient gets a second row, so `notes` records who has one.

A second process would take `LoopFree` away, and two submissions could read one number:
the unique constraint on project and version would then fail one of them.

`raced[p]` is a history variable as in `Orders`; `submitted` keeps each version as
it was when submitted. A content is a model value, a diff the pair of contents it was
made from. Reviewers and administrators are the bindings; whether a caller has the
role of an endpoint is left out, as is the audit log.

### `UnitOfWork`

Most services read an object, assign to its attributes and commit. SQLAlchemy writes only
the columns whose new value differs from the value that was read, by primary key and
without looking at what is there now. `Column(stored, read, new)` is the column after
such a flush. Two overlapping writers can so leave a row made of columns of both, and a
writer that assigns what it has read writes nothing. `Logins`, `Shifts`, `Configs`,
`Features` and `Metrics` use it; `Orders`, `AfterSales` and `Projects` state the same
in place.

In the modules that follow a call is again made once, reads in one action and commits in
another, and a history variable (`loginRaced`, `roleRaced`, `bootRaced`, `shiftRaced`,
`setRaced`, `upsertRaced`, `scanRaced`, `overlapped`) records that two calls were between
the two at the same time on the same object. No guard reads these.

### `Logins`, `Permissions`, `Shifts`

| Action | Code |
|---|---|
| `LoginRead`, `LoginLocked` | `login`, 377-381: the query, and the lock on the copy it gave |
| `LoginFails`, `LoginEnters` | 382-398: the hash test, the counter and the lock; `failed_login_attempts` is assigned from the copy |
| `ChangeRead`, `ChangeCommit` | `change_own_password`, for whoever has a token, which outlives the password |
| `LoginEnds` | the current password is wrong, or an error |
| `LoginTick` | a minute; the lock is a time |
| `SeedStart` | `seed_admin` looks for an administrator and inserts later |
| `CreateStart`, `GrantStart`, `RevokeStart`, `UpdateStart` | the access check and what `create_user`, `grant_role`, `revoke_role`, `update_role` read |
| `UserCommit`, `GrantCommit`, `RevokeCommit`, `UpdateCommit` | the binding and its entry of `permission_change_logs` in one transaction; unique constraints are guards; `RevokeCommit` on a binding that is gone deletes nothing and logs all the same |
| `CreateShift` | `create_shift` |
| `MoveShift`, `TurnShift` | `update_shift`, `update_shift_status`: load, and test the merged window or the transition on that copy |
| `MoveCommit`, `TurnCommit` | the columns that differ |
| `ChangeFails`, `ShiftFails` | a constraint or an error: rollback |

Passwords are values compared by `verify_password`; the lock endures for
`AccountLockMinutes` after the failure that reaches `FailedLoginLimit`. `streak` counts
the failures in a row that the counter is meant to count. `born` keeps the bindings
that users are created with, which the permission log does not have.

### `Configs`, `Features`

| Action | Code |
|---|---|
| `SetRead`, `RollbackRead` | `set_config` reads the greatest version, `rollback_config` loads its target (1116-1142) |
| `BulkMatch`, `BulkClear` | the bulk `UPDATE ... SET is_active = false`: it matches rows of a snapshot, waits for those another session has updated, and tests each again |
| `SetCommit`, `RollbackCommit` | the insert, or the flush of `is_active` on the target, through `Column`: the bulk update goes round the session |
| `UpsertRead`, `UpsertUpdate`, `UpsertInsert` | `upsert_feature_value`: the query, and the flush of a row that was found or the insert that meets the unique key |
| `CompactScan`, `CompactCommit` | `compact_hot_to_cold`: the SELECT without a lock; cold rows as they were found, and DELETEs by id of which one that matches nothing only warns |
| `WriteFails`, `FeatureFails`, `FeatureTick` | errors; the clock of the expiry |

`Configs` is about one key, as keys share no row. The compaction is the same whether the
maintenance loop or the endpoint calls it. A hash is an injective function of the value.

### `Inbox`

| Action | Code |
|---|---|
| `CreateBegin`, `TriggerBegin`, `SubmissionBegin` | who calls `push_notification` for whom: the create endpoint for one user, the triggers and the event handler for the bindings of some roles |
| `PushRead`, `PushCommit`, `PushThrottled`, `PushEnds` | `push_notification`: the clock and its bucket, the insert that meets the unique key, and `send_user` scheduled if there is a running loop |
| `MarkRead` | `mark_notification_read_for_user` |
| `Accept`, `Register`, `Disconnect`, `HandlerFails`, `PeerGone` | the websocket endpoint and the hub; only `WebSocketDisconnect` deregisters |
| `SendBegin`, `SendOne`, `SendEnds` | `send_user` over a copy of the set of sockets, one `await` per socket; sending to a dead one is lost or raises |

Coroutines run only while no submission holds the loop (`LoopIdle`). A task is kept after
it is over, with the sockets it was to reach (`expected`), those it reached (`got`), and
whether the hub held a dead socket of its user meanwhile (`spoilt`).

### `Attachments`, `Pricing`, `Metrics`

`Attachments` is `save_attachment` and its handler step by step: the body, the two size
limits, the file, the flush, the commit, the answer, each with its way to fail, the end of the
process between any two, and a COMMIT whose answer is lost. The commit expires the row, so the
answer reads it again (`routes.py` 1028); when that fails the handler unlinks the file of a row
that is committed, if it can still read its path (`AnswerBreaks`). `Verify` opens the file of a
row. What a file must look like is the Boolean `genuine`.

`Pricing` translates `calculate_cart` as functions of a cart and the set of active rules,
each `rule_type` reading its own fields of a configuration with their defaults.
The one action is the creation of a promotion: nothing takes one away. Amounts are
whole cents; there is no division, so nothing is rounded. Prices, thresholds and discounts
are any integers. A unit given free of a product with a negative price is a charge
(`Charged`); with that, and a promotion that is itself a surcharge, `PricesOnlyFall` would not
hold, and the instance has a cart and a promotion of each kind.

`docs/questions.md:3` has levels (item, order, global) in a hierarchy, the code adds them up. The
document leaves open what a hierarchy is, so there are two readings, `InTurn` (each level works on
what the one before has left) and `ByPrecedence` (the first level that gives something is the only
one), and `ScopesInHierarchy` asks only that the price be that of one of them; the run
`pricing_hierarchy` violates it. `PricesOnlyFall` is about
promotions of which no active one is of a later level, so that it asks nothing that a
hierarchy could not keep either.

`Metrics` is `aggregate_daily_metrics` as its three queries and its write, beside
`SaleCreated`, `SaleCloses`, `Dispute` and `NextDay`, which stand for what the order
desk and after-sales do to the counted tables. The rate is in units of `1/RateUnit`, a
multiple of every number of orders that the instance can have.

### Composition: `MCStaff`, `MCProjects`, `MCBackOffice`

`MCStaff` puts `Logins`, `Permissions` and `Shifts` side by side, `MCProjects` is the instance of
these three and `Projects`, `MCBackOffice` that of the other six. The components of each
write no table in common. Their steps
commute, and a property of one cannot tell what the others do; so the variable `part`,
chosen once, says which component a behaviour works on, and the state spaces add up
instead of multiplying. (The roles that `Permissions` changes and the bindings that `Projects`
reads are one table; what `Projects` sees of its changes is `Revoke`.) `Inbox` is taken twice: "threads" has the calls that run in
threads and no sockets; "stream" has the submission on the event loop with all the
sockets, within one window and without reads of the inbox. What is left out of each is
what the property of the other is about: `RateBounded` does not look at sockets,
and `OpenSocketsServed` not at the table, and a thread leaves no task to send.

## 4. Runs

| Run | Instance | What it shows |
|---|---|---|
| `orders_safety` | 2 orders (2 cents and 0), 4 requests, 4 tenders, failing requests and loop | the six invariants and one action property of `Orders` below |
| `orders_live` | 1 order, 3 requests, failing requests, one restart | `DraftCloses` when the loop meets no error |
| `orders_charge` | 1 order, 3 requests, no faults | **violated**: two overlapping settlements charge an order twice, without any failure. `docs/design.md:138` has the row locked |
| `orders_looploss` | 1 order, 2 requests, failing loop | **violated**: one failed pass and the loop is gone; a draft stays open forever. `docs/design.md:195` has the job run every minute |
| `after_sales_safety` | 3 calls over 5 refunds and exchanges of an order of 2 lines that is settled once, failures and a void; or 3 calls over two reverse settlements and a refund of an order that two settlements may charge, failures and a void | `AnswersAgree`, `BooksBalance`, `RefundsCappedUnlessRaced`, and that `AfterSales` implements `OnceLedger` (about 350 000 states) |
| `after_sales_cap` | 3 refunds, no faults | **violated**: overlapping refunds exceed the order. `docs/design.md:148` has the order and its lines locked |
| `after_sales_reversal` | 2 keys | **violated**: a second key reverses every payment again. `docs/questions.md:49` caps what goes back by what was paid |
| `projects_staff` | 1 project, 2 contents, 3 requests, failures, 2 bindings that may be revoked; 4 logins or password changes on one account; 4 changes of 2 users and 2 roles; 3 updates of one shift | the properties of `Projects`, `Logins`, `Permissions` and `Shifts` below (about 990 000 states) |
| `projects_diffs` | 4 requests, no faults | **violated**: an edit after a rejection overwrites the version that was rejected. `docs/design.md:162-163` has the version incremented and the diff made against the previous one |
| `backoffice_safety` | see the bounds | the properties of the six components of `MCBackOffice` below (about 620 000 states) |
| `pricing_hierarchy` | as above | **violated**: a discount of an order and one of a global tier are added up, which is the price of no hierarchy. `docs/questions.md:3` has one "rather than being fully additive" |
| `inbox_throttle` | as above | **violated**: two notifications a minute apart are both sent when a full ten minutes of the clock lies between them. `docs/design.md:176` skips within ten minutes of the last |

The properties:

- `SettlementAllOrNothing`: a request leaves its whole tender, equal to the
  order's total and with no negative part, and its audit row, or nothing.
- `SettledOnceUnlessRaced`: one settlement or none per order that was not raced, and
  its status says which.
- `OutcomeFlipsOnlyRaced`: a closed order never reopens, and changes sides only
  after an overlap.
- `VoidOnlyAfterLimit`: no draft is voided before its time, whatever overlaps.
- `NoLockCycle`: no set of sessions waits in a circle.
- `ReceiptsAreOfSales`: paper exists only of settled orders; logged receipts
  were printed.
- `DraftCloses`: every draft is settled or voided in the end.
- `AnswersAgree`: answered calls of a scope have one row and one payload.
- `BooksBalance`: no header without its rows. The lines of a refund add up to it. A reverse
  settlement reverses one or more settlements of the order, each of them whole and each adding up
  to the header: for an order charged once that is one reversal per payment, for one that
  overlapping settlements charged twice the reversals may be twice the header. For an exchange
  only the number of rows is claimed: the code does not make their amounts add up.
- `RefundsCappedUnlessRaced`: refunds that never overlapped stay within the order, if no
  line of it has a negative price, and, where no refund names a line twice, within what was
  bought of each line.
- `VersionNumbers`: versions are 1 to the current number, one of each.
- `ReviewedIsSubmitted`: what is under review or approved is what was submitted, unless
  requests overlapped.
- `DiffsChain`: an untouched submitted version has its diff from the version before it.
- `NotesAreOfSubmissions`, `ApproversTold`: nobody is told of what is not
  committed; when a submission is answered, every approver has been told.
- `LifecycleUnlessRaced`: approval only from review, and deactivation for good, unless
  reviews overlapped.
- `SubmissionsAreVersions`: no resubmission without a new version, whatever overlaps.
- `CountsConsecutive`: where calls do not overlap, the counter is the number of failures in
  a row, and the limit-th locks.
- `EntriesAreEarned`: where calls do not overlap, whoever enters typed the password of that
  moment on an account that is not locked, and a lock lasts its time.
- `LogReplays`: for a user whose changes did not overlap, the latest entry of the permission
  log about a role says whether the user has it.
- `RolesAreGranted`: whatever overlaps, every role somebody holds was given by an
  entry or with the user.
- `BootstrapsOnlyWithoutAdmin`: a bootstrap that overlaps with nothing makes no second
  administrator.
- `StartBeforeEnd`, `ShiftLifecycle`: a window of which no two were moved at once starts
  before it ends, whatever happens to the status meanwhile; and the other way round.
- `OneActive`: unless a set overlaps with another write, one version is active, even when
  rollbacks overlap; and none after a rollback to the active one, which the code lets happen.
- `ConfigsNumbered`: unless a set overlaps, versions are numbered without gaps. No
  constraint of the table helps here.
- `HashAgrees`: whatever overlaps, a hot row's hash is that of its value.
- `LatestKept`: the last value of an entity whose upserts did not overlap is hot or cold.
- `ArchivedOnce`: unless two compactions overlap, a row is archived once.
- `RateBounded`: of three notifications of one event to one user two are ten minutes apart,
  whoever sends them at once. This is what the buckets give in place of the documented rule.
- `OpenSocketsServed`: a send that is over reached every socket that was served from the
  commit on, unless the hub held a dead socket of that user meanwhile.
- `FilesMatchRows`: a row has its whole file unless the answer of its COMMIT was lost; a file has
  its row unless the upload runs, was killed, or failed where the handler has no path to unlink.
- `MetricsAgree`: a day's row is what its last aggregation counted, as far as orders and
  disputes did not change and no other aggregation of the day overlapped (see the module).
- `PricesOnlyFall`: a new promotion makes no cart dearer unless it is a surcharge, the cart
  has a negative price or a promotion of a later level is active, and accepts none that was refused.

Properties that say "unless raced" (or "did not overlap") are claims about requests that run one at
a time, among others that overlap elsewhere. They do not catch the overlap that they except. Of
settlements and refunds a document says what should hold in spite of it, and a violated
run states that: `ChargedExactly`, `RefundsCapped`. The other overlaps (failed logins, moves of a
shift, configuration versions, reviews, edits, bootstraps, shift statuses, compactions, dead sockets) are
in the models, and under `hazards` in `PROJECT.json` with a note that no property forbids them. Two of
those notes name a text of the repository that does: `repo/README.md:95` has an account locked after 5
failed attempts, and the migration `0002_operational_domains.sql:32` has a CHECK on the window of a
shift, which the tables that the service creates from its entities do not have.

**Bounds.** `MaxTime` bounds the clock and `MaxRestarts` the restarts. With
`AutoVoidMinutes = 1` an order is created at 0 or 1 and expires at 2 or 3, which is
`MaxTime`; `Checkout` is not offered so late that an order would outlive the
clock. Races here are between two sessions; four requests leave room for a checkout, two
settlements that race and a print or a void beside the loop. A second order is
needed for lock cycles, and a total of zero for the settlement by an empty list. In
`AfterSales`, three calls let two race while a third has already booked or
repeats one of them; the caps (two units of a line, three cents) are within reach of
two refunds. One order with two settlements is enough for a reverse settlement to find
one, both, or the second while it works; in this part of `MCAfterSales` the clock stands still, as a
reverse settlement has no window. Refunds and exchanges meet in the other part, where the order is
settled once. In `Projects`, three requests let two race after a submission, or
submit, reject and edit or submit again.

For the staff the limit is 2 failures, the lock 2 minutes and `MaxMinute` 4, so that an
account is locked, the lock ends, and it fills up or is entered again; four
calls let two race after two others, and let a password change lie between a read and an
entry. Four changes give a bootstrap, a user, and two changes that race; three updates of a
shift give a pair that races and one before or after it; a shift begins with the longest window,
from which the updates reach the others.

In `backoffice_safety`: four writers (two sets, then two rollbacks that overlap, or a set
across a rollback); four feature calls with `Ttl = 0` and a clock to 2, so that a row
expires, is archived or is refreshed under the compaction; a window of 3 minutes and a
clock to 6, which has two edges; two bindings of one user and two sockets of it, of which
one may die; three uploads with an application limit of 3 above the table's limit of 2,
and sizes on both sides of each; eight promotions, one of each scope and type that the code
tells apart and a surcharge, over 12 carts of one or two lines (a tier, a threshold and the
purchase limit each lie between two of them); two sales on one day or on two, with two
aggregations, and one dispute a day (`MaxDisputes`).

**Symmetry** is used in safety runs only, for calls that the properties treat alike: requests
of the same caller, calls of after-sales; in
`MCBackOffice` the permutations of the first three calls together with those of two more
(sockets, threads, aggregations). Every set they act on is closed under them. `MCProjects` uses
that calls are interchangeable without TLC's symmetry, which would be slow on so many variables: calls
that are alike begin in the order of their numbers (`BeginInTurn`), and the first content and the first
password are fixed.

**Deadlock checking is off** (`CHECK_DEADLOCK FALSE`): each request is made once and the
clock stops at its bound, so every instance comes to an end. A real standstill
of sessions is what `NoLockCycle` speaks of.

**Fairness** (`FairSpec` of `Orders`): the clock advances; a handler that has begun runs on
(threads are scheduled, and a row lock is released because its holder runs on); the loop is
woken by its timer. No request has to be sent, nothing has to fail, and nothing is
assumed strongly fair. The loop needs only weak fairness because each pass, once enabled, stays
enabled until a row lock is released, and nobody can take a row from it for
ever when each request is made once. The other components promise nothing in time: a call
ends, or ends with an error.

## 5. Proofs

Checked by TLAPS for every value of the constants that satisfies the named assumptions
(TLC evaluates them in the runs). In `Orders`: order ids are numbers from a finite range, the loop
is not a request, totals are natural numbers of cents, tenders are sequences of parts. In
`AfterSales`: baskets are sequences of lines with integers, quantities sold and totals are
natural numbers, and each settlement's payments are finitely many, its own, and add up to the total. In
`Pricing`: carts and tiers are finite, and every number is an integer. The others are
named below or only say that marks are no values and bounds are natural numbers.

`OrdersProofs` (all about `Spec`):

- `TypeCorrect`: `TypeOK`.
- The inductive invariant `Inv` is `TypeOK` with: a settling session has
  exactly one target, which is a draft it may settle by its own copy, and locks lie within targets, in id order
  (`Sessions`); times are not in the future (`InTime`); a request has the rows of
  its settlement if and only if its audit row is there, and nothing before
  its commit (`Booked`); two sessions that mean to change one order have marked it as raced
  (`OneAtATime`); and `SettledOnceUnlessRaced` itself. `OneAtATime` is
  the key: without it nothing ties what a session has read to what
  is committed when it writes.
- From it: `AllOrNothing`, `SettledOnce`, `FlipsOnlyRaced`, `NeverVoidEarly`,
  `NoDeadlock`, `Receipts` (the last with the small extension `Printing` about
  what a printing session has seen).
- `NoDeadlock` takes the session of a circle whose greatest held row is
  greatest and shows it waits for none of the others; this is where finiteness of
  the id range is used.

`Sums` has no state. `SumFunction` is a fold that takes the elements of a set in an
order that `CHOOSE` fixes and nobody knows, and no theorem with an operator parameter (the
library's induction rules) can be cited here. What can be cited is that
strict inclusion is well-founded on the finite subsets of a set: a least subset on which two
functions of the fold's recursion differ cannot exist (`FoldsOnce`), so the fold is whatever
satisfies its recursion, and that is the number of units of the positive terms less
that of the negative ones (`SumCounts`), a cardinality. From there: a sum of integers is an
integer, one more element adds its value (`SumAdd`), leaving out natural terms makes no
sum greater (`SumPart`), and renaming the elements changes nothing (`SumRenamed`).

`AfterSalesProofs`:

- `Idempotent`: `AnswersAgree`. The invariant says that rows are of calls that
  booked them (`RowsAreOfCalls`), that two sessions never hold one scope and no
  holder's scope is already in the table (`ScopesHeldOnce`), and that every
  answer is a row with the caller's question (`AnswersAreRows`).
- `ImplementsLedger`: `Spec => LedgerSpec`. `Load` maps to `Ask`, `Commit` to
  `Book`, `Replay` to `Replay`, everything else to a stutter.
- `TypeCorrect` and `BooksAlwaysBalance`: `TypeOK` and `BooksBalance`. Both need to know what
  a session has passed when it writes: a body beyond the checks has lines of
  its own order in the quantities sold (`Vetted`), and a reverse settlement has
  found the payments of one or more whole settlements of the order, because an order it has seen
  settled has one, and settlements are never taken back (`SettlementsGrow`). `Books` then says that
  the rows of a call are those its payload asks for. That the lines of a refund add up to its header
  is `SumRenamed`, from positions of the basket to rows; that the reversals of each settlement do is
  the same from payments to reversals (`ReversedWhole`), where the payments of different
  settlements are kept apart by their ids (`PaymentsApart`). Nothing is assumed about how many settlements an order has.
- `RefundCaps`: `RefundsCappedUnlessRaced`. The invariant adds that two refunds of an order that
  was not raced are one (`Alone`), and that one between its checks and its commit still has
  the room it found (`Rooms`). The two checks are two statements that may see different
  states, and each sums over the rows of all operations: what makes them sufficient is that
  nobody else refunds the order in between, while exchanges only take room away, unless a price
  is negative. Without `Priced` the proof stops there, and TLC finds the counterexample: an
  exchange of a line of negative price between two refunds.

`ProjectsProofs` proves all eight properties of `Projects`, for any requests,
contents and bindings. The invariant adds to them: one submission at a time
(`OneSubmission`), so that the number it read is still the current one at its commit
(`Serial`); two that are about to write one project have marked it as raced
(`OneWriter`), so that what a session alone with a project has read still holds
(`Fresh`); every version as it was submitted chains to the one before
(`SubmittedChain`, stronger than `DiffsChain` because an edit may bring an edited
version back to what was submitted); and the loop over the bindings leaves out only the
actor (`Told`). The only assumption says that applicants, callers and bindings are users.

The other proof modules have one plan. The invariant has the types, what a call in flight
asks and has read, that two calls in flight on one object have marked it as raced, and
that what a call alone with its object has read still holds; the properties follow
from these. There is one lemma per action (or per group of actions that write alike).

- `StaffProofs`, on `Logins`: the two facts are `OneChecker` and `LoginCurrent`;
  `ReadUnlocked` says that a login in flight has read no lock that lasts, which the clock keeps.
  Proved: `CountsConsecutive` for any limit, and `EntriesAreEarned`.
  On `Permissions`: a binding's id tells its user, ids are unique, and so are user and role
  (`BindingsOK`); the log is finite and numbered (`LogOK`); the binding that a lone call has found
  is still there (`ChangeCurrent`); a bootstrap that has not overlapped is the only call in
  flight (`BootAlone`), because every other call needs an administrator. Proved: all three
  properties. Assumed: `op_admin` is a role, and the mark for "no role" is not.
  On `Shifts`: races are counted per kind of update (`OneShiftCallOfAKind`, `ShiftReadsFresh`),
  which is what makes a move and a status change harmless to each other. Both properties.
  Last, `StaffTypes` about the composition `MCStaff`: the conjunction of the
  three invariants, kept because a step of one component leaves the others' variables.
- `StoresProofs`, on `Configs`: a set that has not overlapped is alone and has read the greatest
  version, which is the number of rows (`SetsHold`); a rollback has cleared every row
  (`RollbacksHold`), so that overlapping rollbacks need not be kept apart. Both properties, for
  any number of writers. On `Features`: a row's id is the call that inserted it and so
  tells its entity (`RowsOwned`); what a lone upsert or compaction has found is still so
  (`UpsertCurrent`); a lone compaction has found no row that is cold (`OneScan`). All three
  properties. `HashAgrees` needs no condition: two overlapping upserts each write both columns or
  neither, as the hash is injective. Assumed: the mark of an absent row is no call.
- `InboxProofs`: `RateBounded` for any window, any calls and any users. The invariant says that the
  bucket of a row is the last multiple of the window before its time, also while the row is only
  prepared (`Prepared`), and that the key is unique (`OnePerBucket`); three rows are then in three
  buckets, of which the first and the last are a window apart (`BucketsApart`, the
  arithmetic of the division). `OpenSocketsServed`, for any sockets: a served socket is in the hub
  and the hub holds no new one (`HubHoldsServed`); and a task that is not spoilt has all
  sockets it still owes and that are served in what is left to send (`OnItsWay`). A socket that
  dies, or whose handler fails, while in the hub spoils the tasks of its user that are not over.
- `BackOfficeProofs`, on `Attachments`: where the file and the row of an upload are is a function of
  how far the upload has come (`Place`), also after a crash. Proved: `FilesMatchRows`.
  On `Pricing`: `PricesOnlyFall` for any promotions, prices and carts that are finite; the
  proof does not need that no later level is active, as the code tests nothing against a
  price that was lowered. A
  discount of one promotion is not negative (`ItemDiscountType`, `OrderDiscountType`; a tier's
  needs that a finite set of integers has a greatest element, `MaxExists`), a sum over lines is
  then not negative (`SumPart`), a new promotion adds its own to both sums and changes no other's
  (`OneMoreRule`), and the clamping by `min` and `max` is monotone.
  On `Metrics`: orders that have been settled only get more (`SalesKept`), so what was counted, is
  being written or is in a row never exceeds them (`CountsBounded`); without an overlap one
  aggregation of a day is under way (`NoneOverlaps`) and what it has found is the stored
  row (`FoundIsStored`), so that volume and conversion are written together or both left
  as they agree. Proved: `MetricsAgree`. Assumed: the days include the first.
  Last, `BackOfficeTypes` about the composition `MCBackOffice`, as for `MCStaff`.

Every invariant and action property that a passing run checks is a theorem for every value of the
constants. TLC has also checked the inductive invariants of `AfterSalesProofs` and
`StaffProofs` over all states of the runs.

Only model-checked: `DraftCloses`, as liveness under fairness is out of reach here
(`ENABLED`); and of course what the violated runs refute.

## 6. What is not modelled

- The product catalogue and the definitions of features, promotions apart, are single inserts
  under a unique constraint; what reads them takes them as given (`UnitPrice`, `Ttl`).
- The connection pool. When it is empty the call that waits fails after a timeout; such a failure
  is in the models (`PushEnds`, `Fail`, the failing loop), what leads to it is not.
- The composition of the order desk and after-sales over common tables: `AfterSales` takes the
  order desk as `Settle` and `Void`, with the overlaps that `Orders` shows, and `Metrics` takes both
  as its three actions.
- `read_at` is overwritten by a second read; only whether it is set is modelled.
- That an order may settle after its limit as long as the loop has not come by is a state of
  `Orders`; that `docs/design.md:139` forbids it is listed among the hazards.
- HTTP parsing, the response envelope and its exception handlers, hashing, tokens and encryption
  (library calls), socket bytes, the CSV export, the floating-point statistics of the feature
  store, migrations and scripts. Which role an endpoint asks for is left out
  everywhere except where it guards the state (`Permissions`).
- The SQLite override for development; the code refuses to run on it otherwise
  (`main.py` 23-25).
