# A TLA+ model of the OMS / WMS / TMS back end

The repository is an order-management (OMS), warehouse-management (WMS) and
transport-management (TMS) back end: a FastAPI application over PostgreSQL,
Celery workers with a beat schedule, Redis for caching, locks and tokens, and
web, PDA and mobile front ends. This directory models the parts whose
correctness depends on the *order* in which requests, tasks and workers act.

Paths below are relative to `src/src/`, the Python package.

## 1. Inventory of the system

| Component | State it keeps | Operations that change it | Talks to |
|---|---|---|---|
| OMS orders (`oms/service.py`) | `orders`, `order_items`, `order_status_logs` | `create_order`, `update_order_status`, `delete_order` | webhooks, outbox, notifications |
| Split and merge (`oms/merge.py`) | the same tables | `split_order`, `merge_orders` | OMS orders |
| Periodic order tasks (`tasks/orders.py`, `tasks/inventory.py`) | the same tables, in their own sessions | `process_stale_orders`, `auto_complete_picked_orders`, `cancel_abandoned_drafts`, `cancel_expired_orders`, `process_pending_orders` | meant to be started by beat (`celeryconf.py`), which as deployed starts none (section 3) |
| Transactional outbox (`core/outbox.py`, `tasks/outbox.py`) | `outbox_events` (status, retry_count, scheduled_at) | `append_event`, `dispatch_pending_events`, `mark_dispatched`, `mark_failed` | every service that appends; an HTTP endpoint |
| WMS inventory (`wms/service.py`) | `inventory` (quantity, version, batch), `stock_movements`, logs | `adjust_inventory`, `adjust_stock_count`, imports | picking, stock documents |
| Picking (`wms/services/picking_service.py`) | `inventory`, pick tasks, waves | `pick_from_stock`, `assign_pick_task`, `complete_pick` | inventory |
| Stock documents, purchasing, shipping (`wms/service.py`) | documents with a status column | create, confirm, receive, ship, approve ... | inventory (loosely) |
| TMS transport orders, segments, returns (`tms/service.py`) | documents with a status column, tracking rows | `change_transport_status`, segment and return updates | result cache, notifications |
| Route planning (`tms/service.py`) | none (reads nodes and edges) | `_dijkstra`, `generate_route_plan` | lock and rate-limit decorators |
| Cache, lock, rate limit (`cache/`, `core/rate_limiter.py`) | Redis keys or per-process memory | `cached`, `distributed_lock`, `rate_limit`, sliding window | decorated services |
| Tokens (`auth/token_store.py`, `auth/service.py`) | refresh tokens and revoked ids in Redis or memory | store, pop, revoke, rotate | auth endpoints |
| PDA synchronisation (`core/offline.py`, `tasks/sync.py`, `api/v1/mobile.py`, `pda/`) | the queue of a device, `pda_pending_mutations` | `process_pda_sync_queue`, `sync_push`, `enqueue_mutation` | outbox |
| Webhooks (`webhooks/service.py`) | targets, delivery logs | `dispatch_event`, `_deliver` | outbox, external endpoints |
| Notifications (`notification/`) | notifications, open web sockets | send, connect, disconnect | web sockets |
| ABC-XYZ analysis (`wms/analysis.py`) | none (reads the inventory log) | ranking, classification | the log |
| Barcodes, waybills, master data, admin | single rows with unique keys and references | insert, change, delete | the database's constraints |
| Schema and revisions (`models.py` files, `alembic/versions/`) | tables, keys, references, enum types | `upgrade`, `downgrade` | every deployment |
| Connectors, carriers' interfaces, import/export, dashboards | files and external calls | mapping and formatting | external services |

How the parts interact. Every HTTP request has one database session (`get_db`,
committed when the handler returns; many services also commit in the middle).
Celery tasks open sessions of their own. PostgreSQL runs at READ COMMITTED, and
apart from the outbox poll no SELECT takes a row lock, so *between a read and the
commit that depends on it anything may happen*. That is the hard part of this
code and the common shape of the modules: a writer is a read step that validates
and a later commit step.

What is hard here, with the line it bites at, is the list `hazards` of
`PROJECT.json`: stale reads that are written back, two transactions where one was
meant, overlapping executions of a periodic task, crashes between a POST and the
row that remembers it, retry loops at their limit, cutoffs at a day's boundary,
and faults of the wiring that every caller swallows.

What makes each component correct:

- orders: terminal statuses stay, no stage is skipped, the history and the
  announcements agree with what was committed, a draft is left once;
- outbox: at-least-once - a row leaves the queue only after the endpoint accepted
  the event;
- inventory: the quantity is what the recorded movements add up to, negative only
  where a stock count made it so, taken in order of expiry; the version only grows;
- documents: no stage is skipped, dated stages have their times, a finished document
  is not reopened (but by a stale read);
- result cache: an answer is out of date by one time to live at most;
- route planning: the lock excludes while nothing fails and never stays for ever;
  the cost that is returned is the least;
- tokens: a refresh token is used once, and where it is known without a fault: at every
  process, or - as the code stands - at one;
- rate limiter: not more than the limit gets in, and a client that waits gets in;
- web sockets: the limit of connections, no notification twice;
- PDA queue: what the device calls synced is on the server;
- master data: the tables keep the keys and references the classes declare;
- revisions: the last one that PostgreSQL accepts has what the classes declare, but for
  three objects, and it can be reached again after every way back;
- ABC-XYZ: the classes are those of Pareto.

## 2. The modules

### OrderLifecycle

`status`, `deleted`, `parent` are columns of `orders`; `log` the
`order_status_logs` of an order; `emitted` the statuses that committed webhook or
outbox rows announce; `age` and `idle` are the time since `created_at` and
`updated_at`, kept only as far as the tasks' cutoffs tell it apart; `txn[p]` is the
open session of a request or task: what it read (`seen`) and what it will write.

| Action | Code |
|---|---|
| `CreateOrder` | `create_order`: order, items, history entry and event in one commit |
| `SplitOrder` | `split_order`: children `<order_no>-SPn`; a second split violates the unique order number |
| `BeginUpdate`, `CommitUpdate`, `PostCommit` | `update_order_status`: SELECT and `validate_transition`; UPDATE, history row, commit; then `dispatch_event` twice, whose rows are committed by `get_db` - or not at all |
| `BeginDelete`, `CommitDelete` | `delete_order` |
| `BeginTask`, `CommitTask` | the five tasks: one SELECT, one commit for all rows |
| `Rollback` | an error or a killed worker before the commit |
| `Grow`, `Rest` | time |

Rejected requests change nothing and are not steps. `cancel_expired_orders` and
`process_pending_orders` are registered tasks that the beat schedule does not
start; they are modelled because they can be sent by hand. As deployed no task
changes an order (section 3, fairness): the model has what the five functions do to
the table once they are started and awaited, and claims nothing about when.

### Outbox and OutboxContract

`row` is the table, `accepted` the events the endpoint has answered with 2xx,
`worker[w]` what an execution of `dispatch_outbox_events` holds in memory. Each
database session is one step: `Poll`, then `PostAccepted` or `PostRaised` (refused,
or accepted with the answer lost) per event, `MarkFailed`, and `MarkDispatched` at
the end; `Crash` loses the memory. SKIP LOCKED could only make a batch smaller
while another poll runs, and polls are single steps. `SessionOpens` says whether
`async with _get_session()` works: TRUE is the wiring the module intends, FALSE
the code as it stands (`_get_session`, `core/outbox.py:41-44`, returns the factory,
not a session). All runs set it to TRUE, so what they show is latent: today every poll
fails, and nothing starts one.

`OutboxContract` is the promise: an event is recorded, may be accepted any number
of times, and is retired only after it was accepted. `Outbox` implements it under
`recorded <- Recorded`, `retired <- Retired` (rows that are dispatched or failed:
no poll selects them again).

### Inventory and StockLedger

One SKU at one location. `batch`, `qty`, `version` are columns of `inventory`;
`moved` is the sum of the movements and log entries committed for a row;
`session[p]` the request. `Begin` reads and computes absolute quantities (`Load`),
`Commit` writes them, for `adjust_inventory` only when the version is the one that
was read (`Current`), `Retry` rolls back and starts the next of three attempts,
`Insert` adds a row for a new batch, `Fail` is an exception that leaves the
service. `in` and `out` are `adjust_inventory` with a positive or negative
quantity, `count` is `adjust_stock_count`, `pick` is `pick_from_stock`. A counted
quantity may be negative: the router hands over a raw dict (`wms/router.py:103-132`),
and only a count that is below the quantity of an existing row is checked
(`wms/service.py:619-622`); without a row it is inserted as it is (598-613).

`StockLedger` is the promise of `adjust_inventory`: the stock of each batch is adjusted
by what a request asks for, one request at a time, and none takes out more than there
is. `Inventory`, with `adjust_inventory` as the only writer, implements it under
`stock <- StockOf`, the sum of the rows of a batch (racing inserts can make several).

Facts of the code that shape the model: no statement makes `locked_qty` positive;
`adjust_inventory` updates and commits under a row lock, hence one step; `pick_from_stock` has no caller
but the tests, and its lazy load of `inv.sku` may raise (`Fail`); the REST schema of
an adjustment has no `batch_no`, other callers may pass one.

### Documents

One row of one of eight kinds (transport order, segment, return order, picking
wave, purchase order, shipment, stock-in, stock-out), the kind chosen in `Init`:
the documents share no state, only the way they are changed. `status` is the
column, `visited` every status the row has had, `marks` the times and attached
rows that exist, `txn[p]` what a request read and will write. An action named after
a function of `tms/service.py`, `wms/service.py`, `wms/services/picking_service.py`
or `routes/stock.py` is that function up to its commit: its guard is the check on
the status as read, its arguments to `Load` the assignments. `Commit` writes the
row; `Rollback` is an error.

Facts of the code that shape the model. The ORM writes a column only when its value
changed, so completing a completed wave or shipping a shipped shipment leaves the
status alone; the stock documents use an UPDATE statement that writes the status
even when it is the one that was read. `update_return_status` admits "cancelled",
which the PostgreSQL enum of the column refuses: such a session can only roll back.
`mark_shipment_received` refuses every call, because nothing writes the shipment
status IN_TRANSIT_RETURN it wants, and "partial" is a purchase order status nothing
writes. `assign_pick_task`, `complete_pick`, `mark_return_inspected` and
`cancel_return_order` have no caller but the tests. A transport order can be delivered without a pickup time
(pickup_completed, exception, delivered), so no property claims that.

### Schema, Migrations and Catalog

`Schema` holds the database schema twice: as the ORM classes declare it, one
definition per group of classes (`auth_models` ... `device_models`), and as the
revisions under `alembic/versions/` build it, one definition per revision or part of
one, each a sequence of operations (`CREATE TABLE`, add, drop, deduplicate). `Ok`
and `Effect` are what PostgreSQL does with an operation: it refuses to create what
exists, to drop what does not, to create a unique index over duplicate rows, and to
change a column's type without USING when no assignment cast leads there
(`AssignmentCasts`; varchar to date has none, whatever the rows are).
`RunStep` knows the revision's `_best_effort` savepoint. A schema is a set of
tables, unique keys, references and enum types; columns and plain indexes appear
only where several revisions touch them, column types only in `alter_type`.

The newest revision, e1a2b3c4d5e6, starts with such a change: `estimated_delivery_date`
from String(30) to Date, with `postgres_using=` where Alembic knows `postgresql_using=`.
PostgreSQL refuses it in every database, so no database comes to this revision
(`MigTypeOK`, `LastRevision`), and the unique index on pairs of hubs that follows
(`HubKey`) does not exist. A command is one transaction
(`transaction_per_migration=False`), so `upgrade head` on an empty database applies
nothing at all; the databases of the catalog are those that a release up to 26f0642a5601
has built (`FreshSchema`).

`Migrations` moves a database along the revisions: `upgrade(to)`, for the newest revision
`to` of any release, `downgrade` (one
revision, the documented way back) and `InsertRows`, the rows the revisions depend
on, written in between. A command is one transaction.

`Catalog` has the handlers that insert, change or delete single rows, in twelve
areas (warehouses, access, rights, network, purchase, billing, devices, deliveries,
merge groups, webhooks, messages, labels and waybills). A handler reads, decides and
queues its writes (`req[p]`); `CatCommit` applies them when the constraints that
the *revisions* create (`FreshSchema`) admit the result, `CatRefused` otherwise. So a
missing constraint shows as a row the *classes* do not allow. `careful` marks the
handlers that look for everything the constraints forbid, `raced` the requests under
which another one has committed since they read. A row (`Row`) is its table, its
unique columns with their values, its references and a status; `Usual` is the status
of a row that is given none.

### TokenStore, PlanLock, ResultCache, RateLimiter

What the server processes share through Redis. A Redis call succeeds, fails without
effect, or has its effect and loses the answer.

As the code stands, no call through `get_redis` gets that far: `initialize` passes
`retry_attempts` and `retry_interval` (`cache/redis_client.py:37-43`), which redis-py's
connections do not accept, and lines 53, 61 and 79 call `is_closed()`, which its client
does not have. `get_redis` raises in every process while Redis is healthy, and every
caller swallows the exception. `TokenStore` has both programs: `wired`, chosen in the
initial state, says whether `get_redis` yields a client. `PlanLock` and `ResultCache`
have the failing call as one of the outcomes of every call (`AcquireRaises`; a read that
fills nothing); what they show about locks that are taken and entries that are filled is
about the decorators with a client that works, and dead code today. `RateLimiter` has a
client of its own, which connects.

- `TokenStore`: `login`, `refresh_tokens` (the pop) and `store_rotated` (the store
  after it), `logout`, `CrashProc`. Each process has `_redis_ok`, cleared for good by
  the first exception, and `_memory`. A token is the second it was issued in and the
  number of times its user name has been through `str(bytes)`: that is all of its
  text that differs.
- `PlanLock`: `distributed_lock` around `generate_route_plan`, with the `finally`
  clause, the `except Exception` that runs the function a second time, and the expiry
  of a key without an owner.
- `ResultCache`: `cached` around a read of a row that changes; `MaxFill` bounds the
  time between a call's read and its SET.
- `RateLimiter`: `check_rate_limit`; `Begin` reads the clock of the process,
  `Execute` is the MULTI/EXEC in Redis, at most `MaxDelay` later.

### WsConnections, PdaSync

`WsConnections` is `ConnectionManager` for one user. Every `await` is a step
boundary: `connect` waits for the close of a socket it evicts, `send_to_user` for
each send, and both keep the list they looked up. `epoch` tells that list from one
made after it was dropped.

`PdaSync` is the queue of a device: `process_pda_sync_queue` takes a batch, pushes
records one by one (`PushAccepted`, `PushMasked`, `PushRaises`) and marks them at the
end; executions overlap and crash.

### RoutePlan, AbcAnalysis

Two algorithms, one action per turn of a loop. `RoutePlan` runs `_dijkstra` for every
pair of hubs on every graph over three hubs with the given distances. `NoCost` is
`Decimal("Infinity")`: a constant above every sum of costs (`RouteAssumption`).
`Cheapest`, the reference, is the least cost of the ways (`Ways`) of at most as many
connections as there are hubs. `AbcAnalysis` ranks the SKUs and fills
the matrix for every table of monthly quantities; `ParetoClasses` is the reference:
A is the largest leading group with no more than 80 % of the total, and column X is
decided by the differences of the months from one another (`Differences`), not by the
deviations from their mean as in the code (`Spread`).

### MCDatabase, MCServices

`MCDatabase` checks `Documents`, `Catalog` and `Migrations`, `MCServices` the modules
of the two sections above. The parts of one MC module have no state in common, so a
behaviour follows one of them, chosen by `focus` in the initial state, while the
others stay in their own; the reachable states are those of the parts, side by side.

## 3. The runs

| Run | Bounds | Shows |
|---|---|---|
| `order_requests` | 1 order, 2 requests, no tasks | types; announcements and history; decisions on open orders only |
| `order_tasks` | 2 orders, 1 request, 5 tasks; histories re-flagged up to 3 entries, two orders while they have two entries together | no stage skipped, decisions on open orders and drafts left once, for tasks on stale reads |
| `outbox_delivery` | 3 events, 1 rejected for ever, 2 executions, batch of 2 | types, at-least-once, unused backoff |
| `inventory_adjust` | 3 requests, 2 rows, quantities to 2, versions to 2 | types, three attempts; no lost update; the stock ledger is implemented |
| `inventory_mixed` | 2 requests, all four services, 3 rows | negative only where counted so; expiry order; no more rows of a batch than requests that can race |
| `document_races` | one document of each kind, 2 requests; 2 requests, 2 keys and 3 rows in each area; all revisions | no stage skipped, dated stages, no decision to leave a final status; keys and references as declared but the pair of hubs, careful handlers refused only after a race; the last applicable revision complete but for three objects, and reachable again |
| `shared_services` | tokens: 2 clients, 2 processes, 2 seconds, 3 stores, 1 fault; lock: 3 calls; cache: 2 calls, life 2, delay 1; limiter: 2 requests under way, 2 per 3 units, delay 1; 5 sockets, 2 connections; PDA: 3 records, 2 executions, batch 2; 3 hubs; 3 SKUs, 2 months | single use; tokens known to all processes or, as the code stands, to one; exclusion and release; bounded staleness; the limit from both sides; connections and sends; synced records; least cost; Pareto classes |
| `order_terminal_race` | 1 order, 2 requests | **violated**: a terminal status is overwritten |
| `outbox_double_dispatch` | 1 event, 2 executions | **violated**: both send it |
| `outbox_poison` | batch of 1, one rejected event before another | **violated**: the other is never sent |
| `inventory_count_race` | an adjustment and a count | **violated**: an update is lost |
| `hub_pairs` | 2 requests, 2 keys and 3 rows in each area | **violated**: two rows for one pair of hubs |

Why the bounds are enough. A stale write needs a reader and one other writer, so
two processes per order show every race of two; three requests in
`inventory_adjust` let a request be refused twice by different writers. Two orders
are needed only where one transaction writes several rows (the tasks) or creates
them (a split). The outbox needs one event more than the batch holds, and a
rejected one among them. `MaxHistory`, `MaxAge`, `MaxIdle`, `MaxStock`,
`MaxVersion`, `MaxDrift`, `MaxRows`, `MaxSecond`, `MaxQuotes`, `MaxIssued`,
`MaxFaults`, `MaxClock`, `MaxTime`, `MaxTries`, `MaxSockets` and `MaxRecords` stop counters that grow without bound; each is a
conjunct of the guard it names. `Small` is a state constraint of `order_tasks`: with
both orders in the table, it follows them until their histories have more than two
entries together, which is enough for one task's transaction over two rows, a split
child among them, racing a request; one order alone is followed to the end. The proofs
have no such bound. Deadlock checking is off where the system may
rest: with no request, no due row and no event there is nothing to do.

In `shared_services` two seconds and three stores give two logins within a second
and a rotation after them; one fault is enough for the fallback, a lost answer or a
crash, and the proof covers any number. Three calls let an owner whose key expired
delete the key of a second while a third acquires it. The window of 3 with a delay of
1 lets a check trim by a clock that is ahead of another's. The code keeps three
connections per user; the model keeps 2 and opens 5 sockets, so that two connects
wait for their evictions at once. Distances 1 and 3 make a detour over a third hub
cheaper, equal or dearer than the direct way. The quantities 0, 1, 4 and 15 make
shares of exactly 80 % (4 of 5) and exactly 95 % (19 of 20), equal rows, and
months without movement. In `document_races` three rows hold a parent, a child and a
rival; the requests, sessions and keys are interchangeable (symmetry).

Fairness. `LockFairness`: Redis removes a key whose time is over (weak); nothing is
assumed of the calls, so `LockIsFreed` holds although holders crash.
No fairness of the periodic tasks is assumed, because the program gives none. Every
deployment starts beat and the workers with `-A src.celery_app`
(`deploy/docker-compose.prod.yml:106,144`, the Helm chart, `docker/scripts/`); that module
sets `beat_schedule = None` (`celery_app.py:22`), and the schedule is in `celeryconf.py`,
which nothing imports. Its entries name the queue `default`, which a worker without `-Q`
does not consume (Celery's default queue is `celery`). The tasks are `async def`, and
neither Celery nor `BaseTask` awaits what they return. So a draft may stay and an event
may wait for ever, and no property says otherwise. `Outbox!Fairness` - executions go on
and are started again, the endpoint does not refuse a deliverable event every time, the
backoff runs out, workers are not killed for ever - serves `outbox_poison` alone, as a
premise in the code's favour: even a dispatcher scheduled like that starves.

## 4. The proofs

All theorems hold for any sets of orders, requests, tasks, events, executions, rows,
keys, clients, hubs and SKUs; they use only the named assumptions of the modules. Some
have a hypothesis that says which services run or that requests come one at a time; it
is then in the statement.

**OrderLifecycleProofs.**
`OrderTypes` proves `TypeOK` together with `TxnShape`, without which it is not
inductive: an open update holds a target that was legal for the status it *read*,
and a task's session holds the task's own target.
`HistoryCorrect` (no skipped stage) and `AnnouncementsCorrect` (no announcement
before the commit) need `SeenTrail`: whatever a session read has its trail in the
history *now* - histories only grow (`Grown`, `TrailKept`), and appending the entry of
a legal transition completes the trail of its target (`TrailExtended`).
`DraftOnce` follows from the types: no legal target is PENDING.
`DecidedOpen` rests on `OpenInv`: what an open session read was not terminal.
`SerialTerminal` assumes a single process and proves that terminal statuses are
final, with `FreshInv`: what an open session read is still there. Together with
`order_terminal_race` it locates the defect in the missing lock, not in the guards.

**OutboxProofs.** `OutboxTypes`; `OutboxAtLeastOnce`, the refinement
`Spec => Contract!Spec`, from `DeliveryInv` (what an execution is going to mark was
accepted; retired rows were accepted; only recorded events are held);
`OutboxBackoffUnused` (`PendingIsUntouched`).

**SumTheorems.** The lemma library under the others. Induction over the naturals and
over finite sets is stated there for *sets* (`LeastNat`, `NatSetInduction`,
`SmallestSet`: the statement is the set of the numbers that satisfy it), which needs no
operator as a parameter and so can be cited. From it: the fold under
`SumFunctionOnSet` is a function (`SumExists`, `SumUnique`), and the sum does not depend
on the order in which it takes the elements (`SumRemove`, `SumAdd`, `SumUnion`), grows
with its set and its terms (`SumSubset`, `SumMonotone`) and is linear (`SumPlus`,
`SumTimes`, `SumConstant`).

**InventoryProofs.** `StockTypes` and `NegativeStockWasCounted` for all four services,
from `StockInv` (`Sound`: what a session will write to a row that was received is not
negative); for a pick this needs that what it takes from a row is no more than the row
has (`PickedIs`). `StockNeverNegative` is the case without `adjust_stock_count`.
`AdjustLosesNothing` for `adjust_inventory` alone, from `AdjustInv` (`UpToDate`: a
version that still matches means the quantity that was read is still the row's); its
second conjunct is `VersionOnlyGrows`. `AdjustImplementsLedger`, the refinement
`Spec => Ledger!Spec`, adds that what a session plans for one row leaves the sums of the
other batches alone (`StockWrite`) and that a commit or an insert is one adjustment of
one batch or none (`CommitLedger`, `InsertLedger`). `SerialLosesNothing` assumes a single
session and proves `NoLostUpdate` for all four services: with `inventory_count_race` it
locates the defect in the concurrency. `DuplicatesOnlyFromRaces`, from `RaceInv`: a
request that found a row of a batch inserts none, so the rows of a batch and the inserts
still to come are never more than the requests.
`StockGoesOutFefo` (`FefoOrder`) is about what the services plan in *any* state the races
can leave: `Before` is a total order of the rows (`BeforeIsAnOrder`); by induction over
the leading groups of rows a pick takes all it was asked for or all there is
(`PickTakesAll`), and it opens a batch only when the earlier ones are used up
(`PickInOrder`).

**DatabaseProofs.** The three parts of `MCDatabase`.
`DocumentTypes`, `DocumentStages`, `DocumentDates` and `DocumentsStayFinal` come from one
invariant: every open session's decision is `Justified` by the row's past - the stages before
its target have been visited, the time it does not write exists, and it does not
leave a final status it read. A past only grows (`JustifiedGrows`), so a decision
taken on a stale read is still justified at its commit; the table lemmas
(`TransportTable`, `SegmentTable`, `ReturnTable`, `StockInTable`, `StockOutTable`)
show that each table leads from an allowed past to an allowed status. Corollary of
`DocumentsStayFinal`: with one request at a time finished documents stay finished.

`RowsStayDeclared`, `CarefulNeedsRace` and `RowTypes` come from one invariant `CatInv`,
which TLC found to hold on the instance of `document_races` as well.
`RowsInv`: the rows fit the schema that the revisions build, and no return has a number
above the count of returns. `QueueInv`: what a session has queued goes to primary keys
nobody else uses, and changes rows that exist or have been deleted since. `CarefulInv`:
the writes of a careful session that nobody has raced would be accepted *now*; this rests
on `ClearIsAccepted` (writes that take no key, refer to what exists and delete nothing
that others refer to pass every constraint) and on `AfterIs` (what becomes of a row). The
handlers are reduced to a few shapes (`LookedKeeps`, `BlindKeeps`, `UpdateKeeps`,
`DeleteKeeps`, `PutAllKeeps`), one lemma per group of handlers. `CatCommit` only applies
the constraints that the revisions create; that these are the declared ones, but for the
pair of hubs, which `RowsAreAsDeclared` therefore excepts and `hub_pairs` shows violated,
and two that no area depends on (`CarriersDrift`), is what `MigrationsProofs` knows of the
first upgrade.
`DatabaseIsItsParts`: a behaviour of `DatabaseSpec`, which the run explores, is one of
each part's specification. `DatabaseTypes` (`RowsTypeOK`) is put together in this way.

**MigrationsProofs.** `MigrationTypes` (no command ever comes to the newest revision),
`LastSchema` (`LastHasDeclared`) and `UpgradesStuckOnTypes` (`UpgradeStuckOnlyOnTypes`),
for every sequence of commands and writes; the last two are about databases up to
26f0642a5601, the last revision that can be applied. A command is followed by induction
over its operations, steps and revisions (`Run`); what a set of operations can do to a
schema is a relation of sets: `Between` (what nothing takes away stays, what is new was
added) and `Done` (what was added and is not taken away is there). The invariant is
`SchemaInv(s, n)`, about a database at any revision `n`: the tables of the revisions up to
`n` and no others, their keys and references but for those that revision 8 reconciles, and
nothing outside a table. `LastHasDeclared` is not inductive by itself, as it says nothing
of a database at an earlier revision, to which a downgrade leads. The revisions 1 to 8 keep
the invariant upwards (`UpKeeps`) and downwards (`DownKeeps`); the downgrade of revision 8,
whose savepoints let it go on after an operation that fails, is a case of its own
(`DownEightKeeps`). Revision 9 is `HeadRefused`: its first statement has no cast in
`AssignmentCasts`.
Whether an upgrade *can* run is a question of order: every operation comes after those
that it needs (`Sorted`, one lemma per part of a revision), so that each finds its tables
(`Ready`). What the invariant leaves open is the enum types, and there the upgrade does get
stuck. `FreshDatabase` is the case of the empty database, which the catalog uses.

**PlanningProofs.** `RouteIsCheapest`: `_dijkstra` on the queue as the code keeps it,
with outdated nodes and with paths instead of predecessors. `SearchInv`: no label
`best[k]` is below the cost of the cheapest way, and a hub that was reached is queued at
its label or settled, that is, its connections have been followed from that label.
`NothingCheaper`: labels that no connection undercuts bound every way from below, by
induction over the number of connections (`WaysAre` and `WaysFall` are about the
reference, `NextNode` about the node a step adds); `DoneInv` carries the best of
the finished pairs.
`ClassesArePareto`: `LargestFirst` (whoever is ranked moved at least as much as whoever
is not) makes the SKUs up to a limit the largest leading group (`LargestGrows`); for the
column, `SpreadByDifferences` is the identity between squared deviations and pairwise
differences, a statement about sums over any set of months.

**ServicesProofs.** The theorems about the parts of `MCServices`:

- `LockExcludes`, from `HoldsOwnLock`: without an excuse a call that is inside is there
  under a key that it has set itself. `GoesKeeps` reduces an action to two obligations,
  about the caller's own stage and about the others' key.
- `CacheCatchesUp`. Staleness is not inductive by itself: the invariant also says that a
  call in flight read its value at most `MaxFill` ago (`FillingIsRecent`), that an entry
  is no older than its time to live when it was read (`EntryIsRecent`) and that the row's
  own value has not been replaced (`RowIsCurrent`).
- `TokensAreSingleUse`, from `Balance`: exchanges plus the copies of a token, in Redis
  and in the memories, are never more than what was stored (the set of processes is
  finite, `TokenAssumption`). `TokensKnownToAllOrOne`, from `TokReachInv`: a token
  that two clients were given was issued twice; with a client that works every process
  still believes in Redis before the first fault, and without one what a process keeps
  was stored by it (`KeptIsIssued`), so a token that was stored once is in one memory.
- `RateNeverOverfull` and `RateRejectsBusy`. `KeptInv` says that checks which can still be
  in somebody's window are in the sorted set, under scores at most a delay older;
  `RanInv` that what is in the set ran at its score or later. Both compare sums over
  times, for every bound of the times.
- `WsBounded` and `WsSendsOnce`. `Without` keeps the order of what it leaves
  (`WithoutKeeps`, by induction over the prefixes); `SentIsBehind` says that a socket
  that was sent to, if it is still in the list `send_to_user` iterates over, stands
  before the position, and removals only bring it nearer to the front.
- `SyncedArrived`, from `PushedWasAnswered`: what an execution remembers as pushed has
  been answered by the server, however many executions hold the same record.
- `PartsAreKept`: a behaviour of `ServicesSpec`, which the run explores, is one of each
  part's specification; so the theorems above, and the two of PlanningProofs, are about
  what the run checks. `ServicesTypes` (`ServicesTypeOK`) is put together in this way.

Only model-checked, and why:

- the liveness property `LockIsFreed` (and `EventuallyAccepted`, which is stated to be
  refuted): fairness and ENABLED are out of the prover's reach.

## 5. Where code and text disagree

The five violated runs are listed as findings. Further disagreements, plain from
the source, have no run:

- No periodic task does anything in a deployment: schedule, queue and `await` are missing
  (section 3, fairness). `celery_app.py:22` says "Will be configured in celeryconf.py".
  Drafts are never cancelled and outbox events never sent.
- `get_redis` raises in every call (section 2, TokenStore), so the image's four uvicorn
  processes (`docker/Dockerfile:51`) each keep their own refresh tokens: a token that one
  has issued is refused by the others, and the refusal logs the client out. No fault is
  needed. `auth/token_store.py:6-7` says the store "silently degrades to an in-memory dict
  so that auth never breaks". `KnownToAllOrOne` states what is true of both programs.
  For the same reason `distributed_lock` never locks and `cached` never caches.
- e1a2b3c4d5e6 is refused by every PostgreSQL database (section 2, Schema), so
  `alembic upgrade head` fails in every deployment, on an empty database without having
  applied anything; `hub_pairs` shows what the missing index costs.
- `adjust_stock_count` inserts a negative quantity when a SKU without a row is counted so
  (`wms/service.py:598-613`), although it raises for an existing row (619-622).
- `process_pending_orders` and `cancel_expired_orders` change the status without
  an `OrderStatusLog`, which "Tracks the history of status transitions"
  (`oms/models.py:105`).
- `update_order_status` commits before it records its events, while
  `webhooks/service.py:87` and `core/outbox.py:3-5` speak of one transaction.
- `process_stale_orders` compares with the last midnight; its docstring says "over
  24 hours" (`tasks/orders.py:24`).
- `mark_failed` only touches DISPATCHED rows, so a failed POST leaves no trace, and
  a FAILED row is never polled again, although `core/outbox.py:58` says "may retry".
- `pick_from_stock` writes `version + 1` of an old read and can take a version back.
- Two first receipts of a batch both insert a row; later receipts then raise in
  `scalar_one_or_none`. `DuplicatesNeedRace` bounds the damage: one row per request that
  runs at the same time.
- `update_return_status` offers a cancellation that always fails at the commit; the
  docstring of `cancel_return_order` says "only if still in PENDING or SHIPPED"
  (`tms/service.py:1412`), statuses a return order has not, and it writes CLOSED.
- `mark_return_inspected` writes CLOSED for a rejected return; its docstring says
  RETURNED_TO_SUPPLIER (`tms/service.py:1381`).
- `OrderSyncService.handle_ack` (`models/erp_connector.py:284`) confirms an order
  whatever its status; nothing calls it.
- After three refused attempts `adjust_inventory` returns normally with nothing
  written; the docstring says it raises ConflictException (`wms/service.py:393`).
- `_get_session` of `core/outbox.py` returns the session factory instead of a session,
  so `async with _get_session()` fails and nothing is dispatched until that is
  repaired. `SessionOpens` of `Outbox` stands for this; the runs set it to TRUE, the
  wiring the module intends, to check what lies behind it. `outbox_double_dispatch` and
  `outbox_poison` are latent in this sense.
- `alembic downgrade -1`, twice past revision 26f0, leaves the enum types
  `transferitemtype` and `transferstatus` behind, and the next `upgrade head` fails on
  them; `OPERATIONS.md:112-115` offers exactly this rollback. `UpgradeStuckOnlyOnTypes`
  shows that nothing else can stop an upgrade up to 26f0642a5601; the one after it always
  fails.
- No revision creates the unique carrier code of `carrier_configs`, and the reference
  of transport orders to it is dropped for good (`Drift`).
- `delete_warehouse` announces a soft delete and deletes the row.
- `merge_orders` retries after an IntegrityError in a session that must be rolled
  back first, so the retry never works, and a client that chose `MG-000n` blocks the
  generated code.
- Two numbers of return orders computed at once collide; the second request fails.
- Concurrent `update_preferences` leave two rows, and `_check_enabled` asks either.
- An order whose waybill was voided gets no other on that day: the tracking number is
  a function of carrier, day and order, and unique.
- "Email notification failed (DB saved)" is logged although the row is not saved.
- `ConnectionManager`: a connect whose list was dropped while it waited registers past
  the limit (`late`), and a removal during `send_to_user` makes it skip a connection.
- `_dijkstra` returns the right cost, but its path and distance are those of another
  queued node or of the direct connection, whether there is one or not; the segments
  of the plan are then made by indexing the characters of a hub code.
- The cache is said to be invalidated when an order changes; nothing does it.
- The `rate_limit` decorator calls `zremrange`, which the client has not, and admits
  every call.
- `distributed_lock` reports an error after a failed DEL although the plan has been
  committed, because the second execution violates the uniqueness of the plan.
- `TokenStore.pop` turns the bytes of Redis into text with `str()`, so the user name
  of the next token is quoted, `b'...'`, once more in each rotation.
- Refresh tokens issued to one user within one second are the same text: the first
  use logs the other device out.
- `cleanup_expired_tokens` empties the memory of the Celery worker's own process, in
  which no token is ever stored.
- The rate limiter can let in more than the limit in a whole window when checks
  overtake one another; `NotOverfull` states what remains true.
- `sync_push` answers 200 for items it could not append (`masked`); the constructor of
  `SyncQueueService` inserts a sample record each time; failed records are not tried
  again; `process_pending_mutations` hands an integer to a UUID column and always
  fails at its flush; `cleanup_old_sync_logs` does not commit.
- "top 20 % of SKUs" of `wms/analysis.py`: a SKU with more than 80 % of the quantity
  is never in class A, and a single SKU is in class C; SKUs that moved in one month
  only are steady (X).

## 6. What is left

Every safety property and every action property of a passing run has a theorem. Worth
adding later: the item quantities of `split_order` and `merge_orders`; the segments of a
route plan.

## 7. Not modelled

Left out of what is modelled: the column types but for the one that stops the newest
revision; the `is_system` check of `delete_role` (the model deletes those roles too); the
`top_n` of the analyses.

Front ends and deployment; templates, e-mail, push and images (I/O); carrier, ERP and
sales-channel interfaces (external services); the file parsing of imports and exports
(`import_inventory` writes quantities past the version, as `adjust_stock_count`
does); dashboards, forecasts and the daily aggregation (read-only sums); the check
digit of a GTIN; hashing and JWT (libraries); `MemoryCache`, `handle_ack` and
`auto_replenish`, which no code calls; request plumbing.
`PROJECT.json` lists every component with its status and reason.
