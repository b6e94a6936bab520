# TUX Operations: a TLA+ verification project

TUX Operations is a local-first point of sale for restaurants. Each device
(browser or Electron) keeps its own database, accepts every command while
offline, and sends what happened to a server (Supabase: edge functions over
PostgreSQL), where an administrator works on the same orders and the same stock.
What can go wrong is therefore between the two: a device and a server that
disagree about an order, an event applied twice or never, stock promised twice,
a refusal nobody hears about.

The project models that core, checks it with TLC and proves the central
theorems with TLAPS.

## 1. Inventory

| Part | State it keeps | Operations | Interacts with | What makes it correct |
|---|---|---|---|---|
| `packages/domain/src/orderLifecycle.ts` | none (snapshots in, snapshots out) | `markOrderDone`, `undoOrderDone`, `cancelActiveOrder`, `returnFailedDelivery` | called by the board | revision + 1 per transition, no transition out of a terminal status |
| `packages/application/src/orders.ts`, `ordersBoard.ts` | local orders, movements | place, done, undo, cancel, return | outbox, in one local transaction | an order and its event are stored together |
| `packages/persistence` (SQLite, IndexedDB) | `outbox_events` and the rest of the local database | `append`, `listPending`, `markDelivered`, `recordFailure`, `quarantine`, `quarantineDependents`, recovery | commands, sync | no event overtakes a refused predecessor, and a row that went too early is not sent for ever |
| `packages/sync/src/outboxSync.ts`, `httpTransport.ts` | a batch in memory | `syncOnce`, `deliver`, `reconcileRejectedOrderPlacement` | outbox, server | every event is settled once; refusals are surfaced |
| `packages/sync/src/scheduler.ts` | timer, running flag | `start`, `stop`, `trigger` | outbox delivery | ticks until stopped |
| `packages/sync/src/orderLifecycleConvergence.ts` | cursor (stored locally) | `syncShop` | feed, local orders | the device learns what the server decided and never goes back |
| `supabase/functions/operations-sync`, SQL `ingest_tux_operations_materialization_v1` | orders, movements, reservations, receipts | ingest | device, stock | at most once, in order, all or nothing |
| SQL `cancel_admin_order_v1`, `order_lifecycle_feed`, `read_order_lifecycle_feed_v1` | orders, feed | cancel, read feed | convergence | one winner, and the device hears of it |
| `packages/sync/src/inventoryConvergence.ts`, `supabase/functions/operations-inventory`, SQL `inventory_movement_feed` | movements, weighted costs and cursor of the device; the feed | `syncShop`, read feed, bind a cost | local movements, stock | no movement is passed over, and the device ends with the server's costs |
| `packages/application/src/session.ts`, `coordinatedSession.ts`, `commandCoordinator.ts`, `businessDay*.ts` | open day, open worker session | sign in, hand over, sign out, start a day | outbox | one open session per day, closed before the next |
| `packages/application/src/endDay.ts` | reconciliation | close the day | orders, expenses, outbox | nothing open behind a closed day |
| `packages/application/src/onlineOrderAcceptance.ts`, `onlineOrderInbox.ts`, `supabase/functions/order-intake`, `online-order-operations` | inbox, claims | intake, claim, accept, reject | orders, server | an online order is accepted once |
| `expenses.ts`, `bulkStock.ts` | ledgers | record, undo, finish a unit | outbox | compensation matches the original |
| `pricing.ts`, `payment.ts`, `tender.ts`, `draftOperations.ts` | none | pure functions | placement | minor units are neither lost nor created |
| configuration, worker preferences, menu layout | versioned documents | replace, publish | server | newest version wins |
| authentication (`supabaseDeviceSession.ts`, `worker-auth`, `device-*`) | tokens | refresh, enroll | every request | one refresh at a time |
| WhatsApp, printing, contracts packages | caches or none | I/O, parsing | external services | (not modelled) |
| `apps/operations`, `apps/operations-desktop`, `apps/menu`, `apps/admin`, `server`, `api`, `scripts`, `e2e` | screens, wiring, routes, tests | | | (not modelled, except how they wire the services) |

How the core interacts: a command changes the local order and appends an event
to the outbox in one local transaction. `OutboxSyncService.syncOnce` lists the
pending events and sends them one by one, *outside* any transaction. The server
applies an event and all it implies in one database transaction. The answer is
written back to the outbox in a further local transaction. Independently,
`OrderLifecycleConvergenceService.syncShop` pulls the server's feed and applies
each page with its cursor in one local transaction.

What is hard: everything between those transactions. Commands run while a
request is in flight, a request outlives the deadline of its sender, the process
dies with an answer in its memory, the administrator cancels while the device
marks done, and two sync services of the same device work on the same rows,
because the scheduler owns one (`automaticSync.ts`) and each login, sign-out and
heartbeat makes another (`flushShopOutbox` in `sessionClient.ts`); the mutex in
`#exclusive` belongs to one instance.

The other parts modelled meet the same gap from other sides. *Worker
sessions and the business day*: several browsers share one day; each signs in,
switches and ends the day on its own tables, and the server learns it row by
row, refuses some of it, and ends sessions of its own accord. *Online orders*: a
device claims a request for twelve hours, accepts it with a local order that may
reach the server days later, and another device, an administrator, a lapse or a
clean-up may get there first. *The books of a day*: several tabs of one device
write one database, each with a coordinator of its own, and closing the day
computes its reconciliation from reads made before the commit. *The inventory
ledger*: numbers drawn inside open transactions, costs the server binds after
the device has recorded them, and tabs that overwrite each other's cursor.
`PROJECT.json`
lists every such hazard at its line, with the properties that cover it.

## 2. The modules

| Module | Models | State and actions |
|---|---|---|
| `OrderLifecycle` | `orderLifecycle.ts`, the statuses and event types | `FromStatus`, `ToStatus`: the guard and the effect of each transition. CANCELLED with prepared food is the status `WASTED`, because stock tells them apart. |
| `OutboxStore` | the `outbox` object of `SqliteOperationsDatabase` | one variable per column (`born`, `kind`, `delivered`, `quarantined`, `waiting`), one operator per method. |
| `CanonicalLedger` | the server's SQL: ingest, admin cancellation, balance, feed | `canon`, `held` (open reservations), `onHand`, `receipts`, `feed`; `Answer` makes the checks in the function's order, `Ingest` applies the event or changes nothing. |
| `OrderSync` | one device with one or more sync services, and the server | composes the two above (they share no variables) and adds the local orders, each service's `batch`, `current`, `verdict`, the requests given up on (`late`), the feed cursor and the page being applied. |
| `OrderedLog` | what outbox and server promise together | `Issue`, `Apply`, `Acknowledge`, `Close`: the abstract specification `OrderSync` implements. |
| `OrderSyncInvariant` | | its inductive invariants in named parts; `Inductive` is all of them. |
| `OrderSyncProofs` | | theorems and proofs. |
| `LifecycleFeed` | `order_lifecycle_feed` inside the database: the identity column, open transactions, the reader, `syncShop` | `open` (a transaction per connection with the number it has drawn), `sequence`, `feed` (committed rows), and the device's `local`, `cursor`, `page`. `Begin`, `Capture`, `Commit`, `Rollback`; `Pull`, `Apply`, `LosePage`. |
| `LifecycleFeedProofs` | | theorems about it. |
| `InductionLemmas` | | two facts about numbers that several proof modules use: a bounded set has a largest element, and induction stated for a set. |
| `DaySessions` | `session.ts`, `endDay.ts`, `sessionClient.ts`, `businessDayPreflight.ts`; the server's guards, touch and exit functions | each browser's `localDay`, `localSession`, `box`, `refused`; what a login has read (`view`); the server's `canonDay`, `lease`, `receipts`. Sign-in, login in its steps, switch, sign-out, End Day, heartbeat, fence, exit, delivery. |
| `DayRegister` | what the canonical days promise | `StartDay`, `CloseDay`: the abstract specification `DaySessions` implements. |
| `DaySessionsProofs` | | its theorems and proofs. |
| `OnlineOrders` | `onlineOrderInbox.ts`, `onlineOrderAcceptance.ts`, the desktop's and the browser's use of them; the SQL functions on requests and reservations | the requests and reservations of the server; each device's `cache`, `marked`, `placed`, `box`; `job` (the mutation holding a request's lock), `pull` (an inbox pull between its awaits), `late` (calls nobody waits for). |
| `RequestDecision` | what a customer is promised | `Accept`, `Reject`: the abstract specification `OnlineOrders` implements. |
| `OnlineOrdersInvariant`, `OnlineOrdersProofs` | | the inductive invariant in named parts; theorems and proofs. |
| `Checkout` | `checkoutPolicy.ts`, `payment.ts`, `orderValidation.ts`, `order.ts` | pure operators: `Pricing`, `Parts`, `Valid`, `Balanced`. |
| `DayBooks` | placement, board, expenses, bulk stock and End Day of one device with several tabs | `orders` with prices and payments, `moves` (local stock movements), `expenses` and their outbox `rows`, `bulk`, `recorded`; `job` (a command between its reads and its commit). |
| `DayBooksProofs` | | its theorems and proofs. |
| `DayStartRecovery` | the outbox again, under a wall clock that may be set back; `recoverMissingBusinessDayStart`, the 425 that calls it, and the receipts' digest of `created_at` | the five `rows` of a day with `at` (`created_at`) and `lastError`; the services' `batch`, `current`, `verdict`; `late`, `receipts`. |
| `DayStartRecoveryProofs` | | its theorems and proofs. |
| `InventoryFeed` | `inventoryConvergence.ts`, `operations-inventory`, the SQL of the movement feed and of unit costs; the movements of Done and Undo | `open` (the row each connection's transaction has inserted), `sequence`, `feed`, `price`; the device's `held` (cost of its row of each movement), `localPrice`, `cursor`, `refused`; `page` (each tab's pull). `Record`, `Refuse`; `Insert`, `Commit`, `Abort`; `Start`, `ReadFeed`, `ReadPrices`, `Apply`, `Lose`. |
| `InventoryFeedProofs` | | its theorems and proofs. |
| `MCOrderSync`, `MCLifecycleFeed`, `MCDaySessions`, `MCOnlineOrders`, `MCDayBooks`, `MCDayStartRecovery`, `MCInventoryFeed` | | the sets of the TLC runs. |

How actions correspond to code:

* `PlaceOrder`, `MarkDone`, `UndoDone`, `CancelOrder`, `ReturnDelivery` are the
  methods of `OrdersService` and `OrdersBoardService`. All of them end in
  `Commit`: new status, revision + 1, row in the outbox, one transaction. Draft,
  price, payment, reason, worker and day checks do not decide any property here
  and are left out: the command may always be given in the right status.
* `StartSync`, `Deliver`, `Accept`, `Refuse`, `Retry` are the parts of
  `#syncUnlocked` between its awaits. `Refuse` is one action because
  reconciliation, quarantine and the quarantine of dependents are one local
  transaction. `Retry` drops the batch because the code returns.
* `Receive` is a request that is answered in time; `Unavailable` a failure
  before the server did anything; `Timeout` a request whose answer is lost or
  which is still on its way, and `ReceiveLate` its arrival. `Ingest` in them is
  atomic because it is one SQL function under an advisory lock.
* `PullPage` and `ApplyPage` are the two halves of an iteration of `syncShop`;
  a command may run between them. Feed rows carry the order's status *of now*
  and their own revision, as `read_order_lifecycle_feed_v1` joins them.
* `Crash` loses what is in memory (`batch`, `current`, `verdict`, `page`), keeps
  both databases and lets what is on the wire arrive.
* `AdminCancel`, `ReceiveStock`, `DrawStock` are the server without the device.
  `DrawStock` stands for the movements the capacity trigger does not check.

* `AdminCancel` leaves `held` alone, because the code releases stock by the rows
  of `inventory_reservations`, which ingest never writes. It refuses the orders
  of the constant `PaidOrder`: a trigger of a later migration
  (`reject_paid_active_admin_cancellation_v1`) rejects the cancellation of an
  order with an allocated payment. What the device may cancel does not depend on
  it.
* `LifecycleFeed` opens up what `Ingest` and `AdminCancel` treat as one step: a
  transaction locks the order's row (`Begin` is its checks under that lock),
  draws its feed number when it inserts the `order_status_events` row
  (`Capture`), and is visible only at `Commit`. Ingest also locks the stock it
  moves; that lock is left out, for it only rules interleavings out and a
  cancellation, which finds no reservation row, does not take it. The orders
  are this device's (`OwnOrder`), which only the administrator changes here, and
  those of other devices, whose rows fill the feed and are skipped by `syncShop`.
  `OrderSync` keeps the feed in commit order; the two modules overlap only in
  the convergence service. `overtaken` is history: the rows that were published
  behind a larger number of another order, which is what the row lock does not
  prevent.

* In `DaySessions` the outbox is reduced to what `OrderSync` shows of it: rows
  leave in order, and a refused row takes its dependents with it (`Precedes`).
  A login is `LoginRead` (the canonical state is read), `LoginAdopt` or
  `LoginRefused`, and `LoginSignsIn`: other commands may run between them.
  `Deliver` is a delivery that is answered, `DeliverUnanswered` one whose answer
  is lost; they stand for the scheduler's, which run only while a worker is
  signed in (`Scheduled`), and for the one flush that follows a sign-out or an
  End Day and the drain of the next login. Both may have been applied, and a replay finds its receipt by `Key`,
  which for day rows is per *day* and not per browser. `PrepareExit` is the
  server's function of the exit; its answer may be lost as well.
* In `OnlineOrders` a granted claim is named by its number, which stands for its
  start and expiry and for the order id it drew. `LeaseEnds` is the passing of
  twelve hours, `Retire` an administrator's deactivation of a device, and
  `IntakeExpires` the clean-up inside another customer's insert. `StartClaim`
  and `StartReview` send a call, `Answered` is its answer, `GiveUp` its loss,
  `ArrivesLate` its arrival after that, `Finish` what the device stores. `LoadLists`,
  `LoadFetches`, `LoadCompares`, `LoadWrites` are `load` between its awaits.
* In `DayBooks` one action is one transaction of the local database. Order
  commands are whole transactions; `StartEdit`/`FinishEdit`,
  `StartUndo`/`FinishUndo` and `StartClose`/`CloseReads`/`FinishClose` are the
  commands that read in one transaction and commit in another, and the commit's
  own checks (`Current`, `MayUndo`, `MayClose`) are all that protects them. The
  delivery service appears as `Sent` and `Refused`, convergence as `Converge`.
  `clean` and `till` are history: whether another tab wrote during the close,
  and what each method took in as it happened.

* In `DayStartRecovery` a request carries the `created_at` it was listed with,
  so that the same event can be on its way under two of them. `Recover` is
  `#onDependencyMissing`, which runs before the failure is recorded (`Retry`);
  `RecoverStart` is the store's method, which asks neither whether the start was
  delivered nor what was quarantined behind it. `Restart` is a reload of the
  page, which starts the sync runtime if a worker is `SignedIn`, and with it the
  recovery that the last error of the outbox leads to (`RecoverPrevious`);
  `SignIn` is a login after the End Day, which starts it again.

* In `InventoryFeed` a transaction is reduced to one movement: `Insert` takes the
  item's advisory lock (`ItemFree`), binds the cost and draws the number, `Commit`
  publishes row and weighted cost. `Own` are the movements Done and Undo record
  on the device (`Record`), each delivered by the outbox in its order (`Insert`
  needs what it compensates to be committed) or refused for good (`Refuse`).
  `ReadFeed` and `ReadPrices` are two actions because the function sends two
  queries; they may see different moments. `Apply` is the local transaction.
  Quantities do not decide any property and are left out, as are pages of items.
  `overtaken` is history here, too: the rows published behind a larger number of
  another item, which is what the items' locks do not prevent.

One order needs one unit of one item in `OrderSync`. That is enough to make orders compete;
recipes with several items multiply the sums and not the interleavings.

## 3. What is checked

All runs say `CHECK_DEADLOCK FALSE`, since the system really stops when every
command was given within the bounds and everything has been sent.

| Run | Instance | Shows |
|---|---|---|
| `sync_orders` | 2 orders, 1 service, revisions 0..1, 1 unit in stock, 1 delivered, 1 drawn, 1 fault, one order paid and one not (555,875 states) | `NothingPendingBehindQuarantine` (causal blocking), `StockIsConserved`, `ReservationsAreBacked`, `OnlyConflictsQuarantine`, `NoSilentDivergence`, `CanonicalOnlyAdvances`, `LocalOnlyAdvances` |
| `sync_services` | 1 order, 2 services, revisions 0..2, no stock at first, 1 delivered, 1 fault, fair (126,653) | `CanonicalHistoryHasNoGaps`, `DivergenceIsQuarantined` (with nothing pending or in flight, a device that differs from the server has a quarantined row, delivered or not), `ImplementsOrderedLog`, `EveryEventSettles`, `CancellationArrives` |
| `day_start_recovery` | 2 services, one day with one order, a clock of 2 instants, batches of 2 rows, 1 fault, at most 1 login after the End Day, fair (1,646,290) | `InOrderUnlessTheClockSteps`, `RefusedStartIsKnown`, `EveryRowSettles` (where somebody is signed in) |
| `feed_overlap` | 3 orders, 1 of this device, 1 paid; 2 connections, revisions 0..2, pages of 2 rows, 1 rollback, fair (837,241) | `NoCanonicalChangeIsSkipped` (but what another order has overtaken), `CaughtUpDeviceAgrees` (with the whole feed pulled, device and server agree, but for an order whose last change was), `DeviceConvergesUnlessOvertaken` |
| `days_shared` | 2 browsers, 2 days, 1 session of each, either may stall, fair (541,471) | `ClosedDayIsReconciled` (exactly one reconciliation), `EndedSessionIsFenced`, `EndedDayStaysEnded`, `DaysFollowOneAnother` (the refinement), `EndedLeaseStaysEnded`, `ExitLeavesSomebody` |
| `days_liveness` | 2 browsers, 1 day, 2 sessions of one and 1 of the other, nobody stalls, fair (647,475) | `LocalSessionHasDay`, `NoGhostSession`, `SessionEndArrives` (of a browser that workers go on using) |
| `inventory_feed` | 2 items; a consumption and a receipt of one, a movement of the other; 2 connections, 2 tabs, pages of 1 row, 2 costs, 1 failed transaction, fair (1,212,083) | `CursorCovers` and `DeviceConverges`, both but for what another item has overtaken |
| `online_orders` | 2 devices, 1 request, 2 claims, 1 lost call, 1 job and 1 pull at a time, nobody retirable, devices symmetric (2,655,452) | `AcceptanceIsProtected`, `DecidedOnce` (the refinement) |
| `online_handover` | the same, no call lost, one device may be deactivated, fair (1,086,339) | `ProcessingIsReserved`, `HiddenRequestIsAccounted` (a request hidden on a device has its order placed, on the way, or quarantined), `AcceptanceArrives` |
| `day_books` | 2 tabs, 2 workers, 2 orders, 1 expense, 2 drafts, 1 unit in stock, 4 order changes, 1 edit, 1 shift of the operator, at most 5 commands of all kinds, symmetric (840,950) | `OrdersBalance`, `StockFollowsOrders`, `LedgerIsLastRow`, `BulkUndoneOnce`, `ReconciliationIsTheTill`, `ClosedBooksAreFinal` |
| `feed_gap` | 2 orders, 1 of this device; 2 connections, revisions 0..1, pages of 1 row | `ConnectedDeviceConverges` is **violated** |
| `sync_two_flushers` | 1 order, 2 services, no stock at first, 1 delivered | `NoSilentDivergence` is **violated** |

The bounds. Two orders are the least that compete for stock and for places in
the outbox; one order needs two services for every race on a row; revision 2
takes an order through Done and back, with each event behind the other; one
fault is enough for a retry racing its late first request. A page and a batch of
fewer rows than there are make the second page and batch happen. Two connections
are two transactions of different orders, published in either order, or of one
order, of which the second waits. Two browsers race for a day, a second session
of a browser is a hand-over, and a second day is what a start replayed from the
first could spoil. Two claims of one request are a claim that lapses and the one
that takes over. Two tabs, each with one command between its reads and its
commit, are every race on the books; the drafts are the ones arithmetic could
get wrong (a delivery split over two methods with charges of 7.5 % and 14 % that
are rounded, and an order discounted to nothing that is given change). Two
instants are a clock set back once and forward again; TLC also passes with one
service, three instants and two faults (310,802 states). In `inventory_feed` two
transactions of different items overlap and may be published in either order,
the consumption is recorded before or after the price it is bound at is known, a
receipt changes the cost under it, and a device's own row may be what is
overtaken; two tabs with pages of one row overwrite each other's cursor forwards
and back. The tabs are the browser's and the foreign key is the desktop's; the
run has both. All counters stop commands and faults at their bound and do
nothing else. `day_books` also has a CONSTRAINT, `FewCommands`: no behaviour is
followed beyond five commands (`MaxCommands`), which leaves room for an order
placed, paid, made and undone with one command of another kind, or two of each,
and a close at any point. TLC also passes the run's properties and `TypeOK`
without it (3,011,186 states). Symmetry is declared only where no liveness is
checked.

Fairness, run by run, is what the code's scheduling gives. On the desktop the
scheduler and the timers run while the application does
(`startDesktopAutomaticSync`). On a browser `startRemoteRuntime` starts them when
a worker is signed in, and a sign-out, an End Day, a fenced session and any other
`getState` that is not `ACTIVE` stop them (`stopRemoteRuntime`, which
`sessionClientSyncScope.source.test.ts` asserts); a sign-out and an End Day are
followed by one flush, which may fail, and what is left waits for the next login.

* `OrderSync`: each service takes a step when it can (the scheduler ticks every
  15 s and at every trigger; a request ends with an answer or at its deadline), a
  back-off runs out, and the convergence timer pulls and applies. Nothing is
  assumed of workers, the administrator, stock, faults, restarts or late
  requests; the bound on faults is the assumption that the server is reachable in
  the end. The module has no sign-out, so `EveryEventSettles` and
  `CancellationArrives` are about the desktop, and about a browser that stays
  signed in.
* `DayStartRecovery` is the browser (the recovery of a day's start exists only
  there) and has the End Day: a service's steps are fair only while a worker is
  `SignedIn`, that is until the End Day and after a later login. `EveryRowSettles`
  says `<>[]SignedIn => ...`; where nobody signs in again, the rows of the End Day
  may stay in the outbox.
* `LifecycleFeed`: a transaction that is open draws its number and commits unless
  it fails (weak fairness), the device pulls at its timer (weak), and does not
  lose every page it pulls (strong fairness of `Apply`): that is what being
  connected means.
* `DaySessions`: a browser delivers while a worker is signed in (weak fairness of
  `Scheduled`), the heartbeat of an open session is sent (weak), and a browser is
  not for ever reloaded exactly between the 409 of a heartbeat and its handling
  (strong fairness of `Fence`). `SessionEndArrives` is about a browser that from
  some point on always has a worker signed in: then a session it ended ends at the
  server or is surfaced. Without that hypothesis TLC refutes it: the
  browser ends its session, nobody signs in there again, and the end stays in the
  outbox and the session open at the server.
* `OnlineOrders`: the scheduler delivers the head of the outbox, and its answer is
  taken in (weak); nothing is assumed of the devices' calls. There is no sign-out
  here either: `AcceptanceArrives` is about the desktop, and about a browser that
  stays signed in.
* `InventoryFeed`: a transaction that is open commits unless it fails, a tab pulls
  at its timer and both queries are answered (weak), and it does not lose every
  page it pulls (strong fairness of `Apply`), which is a tab with a worker signed
  in and connected; nothing is assumed of what is recorded or refused.

The runs with fairness list safety properties as well, which hold without it too.

`DaySessions` and `DayBooks` list no type invariant in their runs: it holds in
TLC on the instances named and is proved (`TypeCorrect`). Of the invariants the
proofs use, `Inductive` and `DeliveredIsCanonical` of `OrderSync`
(`sync_services`), `SnapshotInv` and `GapFree` (`feed_overlap`, with revisions
0..1 and pages of one row), `IInv` of `OnlineOrders` (`online_orders`),
`HiddenInv` and `NoAcceptanceIsStuck` (`online_handover`), `CoverInv` and
`PagesAreStorable` (`inventory_feed`) hold in TLC on the instances named and are
proved below for every instance; the runs list what follows from them. The last
two also hold with the movement of the other item reversed (`{eaten, wasted,
restored}`, 267,354 states), with and without the foreign key, and with an Undo
(`{eaten, undone, receipt, wasted}`, one tab, 252,839).

### What the two violations show

* `sync_two_flushers`: the scheduler's service and the one of `flushShopOutbox`
  deliver the same `ORDER_PLACED`. One is refused for lack of stock, cancels the
  order locally and quarantines the row. Stock arrives, the other's request is
  applied and marks the same row delivered. The row is now delivered *and*
  quarantined, `quarantinedCount` counts only undelivered rows, and the order is
  CANCELLED on the device and ACTIVE on the server with its stock held. ADR 0009
  promises "explicit operator/admin observability work rather than ... silent
  stream corruption". With one service (`sync_orders`) the property holds; with
  several, `DivergenceIsQuarantined` does (`sync_services`, and proved): the
  quarantined row is always there, so that counting quarantined rows whether
  delivered or not would report every such order.
* `feed_gap`: an administrator cancels this device's order. The cancellation
  draws number 1 and stays open; another device's order is marked done, draws 2
  and commits; the device pulls row 2, skips it as another's, and saves 2 as its
  cursor; then row 1 is committed, below the cursor. The device stays connected
  and keeps the order ACTIVE, until a worker's own command on it is refused,
  although the plan of the feed asks for an order that is "gap-detectable" and
  truth that "cannot remain split indefinitely while connected". `feed_overlap`
  checks, on the same two connections, that nothing else is lost.

### Statements the code does not keep

The modules also state what one might expect of the code and what TLC refutes.
They are kept as definitions beside the properties that do hold; to see a
trace, name one in place of the properties of the run given.

| Statement | Run | What happens |
|---|---|---|
| `StaleEventsSurfaceTheWinner` | `sync_services` | ingest calls `assert_order_transition_precondition_v1` before the compare-and-swap, so an event that an administrator's cancellation overtook gets 400; the answer with the winner is never reached. The device still converges, through the feed. |
| `ReservationsEndWithTheOrder` | `sync_orders` | an administrator's cancellation settles the rows of `inventory_reservations`, which ingest never writes: the movements of the placement hold the unit for ever. `StockIsConserved` states what the code does do. |
| `CloseEvictsNobody` | `days_shared` | the close guard counts open sessions and does not ask whose they are. If the closing browser's own session was ended by an exit whose answer it never saw, the one left is another's, and the close passes under it. |
| `OnlyNonFinalWorkersSignOut` | `days_shared` | an exit ends a session, its answer is lost, the others go stale; the retried exit reaps them and answers SIGNED_OUT, and nobody is left on an open day. `ExitLeavesSomebody` is what holds of each exit that ends a session. |
| `ReconciliationIsTheClosers` | `days_shared` | one browser's reconciliation is accepted and its close refused, because another is signed in; later that one's close is accepted and its reconciliation refused, because the day has one. `ClosedDayIsReconciled` is what holds: one reconciliation, though perhaps not the closer's. |
| `DayCanBeEnded` | `days_shared` | each browser's close is refused because of the other's session, and both have ended the day locally; when both sign-outs arrive, no browser can close the day any more. |
| `AcceptanceSettles` | `online_handover` | a device asks to release a request, does not learn that it was, and accepts it from its cache: the placement gets 500 for ever and blocks the outbox. `AcceptanceArrives` exempts such an order; that the server would take every other one at the head of an outbox is `NoAcceptanceIsStuck`, proved. |
| `ReservedRequestIsShown` | `online_orders` | an accepted request is hidden on the device for good; if its placement is refused for lack of stock, the reservation stays and no screen shows what to release. `HiddenRequestIsAccounted` is what holds: its order is at the server, on its way or quarantined. |
| `ReconciliationIsAlwaysTheTill` | `day_books` | another tab records an expense between the two reads of the close and its commit: the reconciliation does not have it. In the same gap a hand-over leaves the new operator's session open on a closed day. |
| `DayEndIsNotRefused` | `day_start_recovery` | a day's start is on its way when the clock is set back; an order placed then goes first and gets 425; the start is moved in front of it, while the old request is applied. The recovered start is another request for the same key: 409, and the day's close is quarantined behind it. The server's day stays open. |
| `LedgerArrives` | `inventory_feed` | one item's movement draws 1 and stays open; the other item's draws 2 and commits; the device pulls row 2 and saves its cursor; then row 1 is committed and never pulled. The device's stock lacks it for good. `CursorCovers` and `DeviceConverges` are what holds of every other row. |
| `PagesAreStorable` without its exception | `inventory_feed` with `{eaten, wasted, restored}` | and when the movement passed over is reversed, the desktop's foreign key refuses the page with the reversal, at every pull: the feed stops there, costs included (`Stuck`). |
| `ReversalsKeepTheBoundCost` | `inventory_feed` with `{eaten, undone, receipt}`, `undone` among `Own` | Done is recorded at the device's cost, the server binds another; an Undo before the next pull copies the device's, and is stored with it. Stock value and the reports' cost of goods keep the difference. |
| `TransitionWaitsForItsOrder` | `day_start_recovery` | an order is placed, the clock is set back, and it is marked done: the transition goes first and is refused for good. `recoverMissingOrderPlacement` is there for this case and is not reached, since the precondition raises its 400 before the missing order would give a 425. |

## 4. What is proved

`OrderSyncProofs` holds, for every set of orders and services and every value of
the bounds, from the named assumptions `RevisionAssumption`, `StockAssumption`
and `OrderSyncAssumption` (bounds are naturals, `NoEvent` is no event):

| Theorem | States |
|---|---|
| `Invariance` | `Spec => []IInv` |
| `TypeCorrect` | `Spec => []TypeOK` |
| `CausalBlocking` | `Spec => []NothingPendingBehindQuarantine` |
| `DeliveredSound` | `Spec => []DeliveredIsCanonical` |
| `HistorySound` | `Spec => []CanonicalHistoryHasNoGaps` |
| `CanonicalAdvances` | `Spec => CanonicalOnlyAdvances` |
| `Refinement` | `Spec => ImplementsOrderedLog` |
| `StockConserved` | `Spec => []StockIsConserved` |
| `ReservationsBacked` | `Spec => []ReservationsAreBacked` |
| `LocalAdvances` | `Spec => LocalOnlyAdvances` |
| `ConflictsOnly` | `Spec => []OnlyConflictsQuarantine` |
| `DivergencesAreQuarantined` | `Spec => []DivergenceIsQuarantined`, for any number of services |
| `OneServiceAgrees` | `Spec => [](SingleService => NoSilentDivergence)` |
| `InductiveInvariance` | `Spec => []Inductive`: all the invariants the others rest on |

The argument. None of the properties is inductive by itself. `CausalBlocking`
needs to know that a device's rows of an order are a prefix without gaps and
that the row of its newest revision entered the local status (`LocalInv`), so
that an append is always the *next* row. `DeliveredSound` needs to know what an
answer on its way means: `APPLIED` or `REPLAY` in `verdict` implies a receipt
(`InFlightInv`). `HistorySound` needs that the order's canonical status is the
one its last receipt entered, or CANCELLED one revision later (`CanonInv`); the
compare-and-swap then admits exactly the next revision. `FeedInv` bounds the
revisions that the feed and a page carry, so that applying a page keeps the
types. `IInv` is their conjunction. `OrderSyncProofs` has one lemma per action
that touches it, then `NextIInv`, then the temporal steps. The refinement maps
the outbox's rows to `issued`, the receipts to `applied` and the delivered rows
to `acknowledged`; every action is one of the four abstract steps or a stutter. The stock results
are a second induction on top of `IInv`: an applied event finds the order in the
status its transition leaves (`AppliedFrom`), which says whether the order's unit
is held or used up, and moves that one unit (`AppliedStock`); an administrator's
cancellation moves none.

Three more inductions follow. `HistoryInv` links an order's rows into a chain in
which each leaves the status the one before entered, and says that nothing in
the feed or in a page is ahead of the server. A page can then bring the device
only one thing it does not have, the administrator's cancellation, which is
above the device's revision (`LocalAdvances`). `DeliveryInv` says that a service
sends the rows of an order in turn, since they are listed by `born`, and that
what it sends has only settled rows before it. A permanent refusal therefore
means a missing predecessor that was itself refused, or a cancellation
(`RefusalIsConflict`); by induction along the order only a placement without
stock or a cancellation is at the bottom of a quarantine (`ConflictsOnly`).
`AgreementInv` says where a device's revision comes from, that what the cursor
has passed the device has, and that one service's rows stay pending while it
holds them. So when nothing is pending or in flight a device that differs from
the server has a quarantined row, with any number of services
(`DivergencesAreQuarantined`). One service is needed only for the rest of
`NoSilentDivergence`, that no quarantined row is delivered as well
(`ExclusiveInv`), and is not what `flushShopOutbox` does: `sync_two_flushers`
refutes the property for two, so the second service is the whole of that defect.

`LifecycleFeedProofs`, from `FeedAssumption` and `RevisionAssumption`, for every
set of orders and connections and every page size:

| Theorem | States |
|---|---|
| `FeedInvariance` | `Spec => []RowInv`: types and the row lock's invariant |
| `FeedIsMonotonic` | `Spec => []RevisionsFollowSequence` |
| `SnapshotsAreCanonical` | `Spec => []SnapshotInv`: what has left the server is never ahead of it, and at its revision has its status |
| `GapFreeInvariance` | `Spec => []GapFree` |
| `OnlyOvertakenIsSkipped` | `Spec => []NoCanonicalChangeIsSkipped` |
| `CaughtUpAgrees` | `Spec => []CaughtUpDeviceAgrees` |

None of them has a hypothesis on the behaviour or the number of connections. The
argument. `RowLockInv` says that an order has one open transaction and that
the number it has drawn is above those of the order's rows; the first holds by
the row lock, the second because a number is drawn under it. Cursor and page end
at published numbers (`PagingInv`). A commit that would publish at or below one
of them is therefore behind the row of that number, which is another's
(`NumbersInv`) and, by the row lock, another order's: the new row is `overtaken`.
So a row that is not is above the cursor and above the page being applied when it
is published, whatever transactions are open at once, whatever pages are lost and
transactions fail, and the pages bring it. `feed_gap` shows that the exception
cannot be dropped; the theorem, that it is the whole of the defect.
`SnapshotInv` is independent of that: every change of an order leaves a feed row
with its revision, and the status that goes with a row, although it is the one
of the read and not of the row, is never ahead of the server. `CaughtUpAgrees`
combines the two: unless the order's last change was overtaken, its row was not
passed over and brought at least that revision, so the device is not behind; it is
never ahead either, and at equal revisions the status is equal.

`DaySessionsProofs`, from `BoundsAssumption`, for any browsers and any number of
days and sessions:

| Theorem | States |
|---|---|
| `DaysRefinement` | `Spec => DaysFollowOneAnother`: the canonical days implement `DayRegister` |
| `LeaseIsFinal` | `Spec => EndedLeaseStaysEnded` |
| `ExitsLeaveSomebody` | `Spec => ExitLeavesSomebody` |
| `SessionsHaveTheirDay` | `Spec => []LocalSessionHasDay` |
| `ClosedDayIsFinal` | `Spec => EndedDayStaysEnded` |
| `TypeCorrect` | `Spec => []TypeOK` |
| `NoGhosts` | `Spec => []NoGhostSession` |
| `ClosedDaysAreReconciled` | `Spec => []ClosedDayIsReconciled` |

The argument. That no replayed start opens a closed day again does not follow
from the days: it needs `StartedHasReceipt`, a day that was ever started has the
receipt of its start, so that a second delivery is a replay (`RegisterInv`).
`LocalInv` adds what a login has read: the server has at most one open day, so
the snapshot has (`ReadsOneDay`), so adopting it leaves one open day on the
browser, although the server may have moved on between the two steps. The proof
goes browser by browser (`HasDay`), since a session is one browser's.

`GhostInv` is behind `NoGhosts`. Whatever ended a session on its browser either
put the row of its end into the outbox or was a login that archived the day
(`EndsAreTold`), no later step loses that row, which goes to quarantine or to
the receipts, and a receipt of an end is the end of the lease (`ReceiptsEnd`): a
lease still open has its row on the way. That an archived day is told from one
the browser ended itself needs `CloseIsLocal` and `OwnRows`, the outbox being
its browser's. `EveryStepMoves` says for all steps at once what may become of a
row and of a session, so that each invariant is proved from that and not action
by action. The rows that leave with a refusal are filtered by `Without`, a
recursive function on positions; `WithoutKeepsTheRest` is proved by
`InductionOnNat` over the set of positions for which it holds.

`EndDayInv` is behind `ClosedDaysAreReconciled`. End Day stores the
reconciliation in front of the close, and the outbox is first in, first out, so
a close is received only after its reconciliation was answered. That answer was
a refusal only if the day has a reconciliation already, and otherwise left one;
a login that quarantines a day's rows takes both. So wherever a close is still
to be delivered, its reconciliation is in front of it or the server has one. No
second one can follow, since the refusal is by the day and not by the browser.

`OnlineOrdersProofs`, from `OnlineAssumption`, for any devices, requests and
bounds:

| Theorem | States |
|---|---|
| `Invariance` | `Spec => []IInv` |
| `ProcessingStaysReserved` | `Spec => []TypeOK /\ []ProcessingIsReserved` |
| `AcceptancesAreProtected` | `Spec => []AcceptanceIsProtected` |
| `AcceptancesAreNotStuck` | `Spec => []NoAcceptanceIsStuck` |
| `HiddenRequestsAreAccounted` | `Spec => []HiddenRequestIsAccounted` |
| `DecisionRefinement` | `Spec => DecidedOnce`: the requests implement `RequestDecision` |

The argument. An order id is `Safe` for a device if the request is still
reserved under it for that device, or the device asked to withdraw it, or was
retired. Everything a device holds is safe: the rows it stores, those a pull has
fetched and not yet written, those of a mutation under way, and the orders it
made (`CacheIsSafe`, `PullIsSafe`, `JobIsSafe`, `PlacedIsSafe`). A claim does not
break that, because a reservation outlives its lease and passes to another
device only if its origin was retired (`MayReserve`), and neither does the
intake's clean-up, which spares a request with a reservation (`Untouched`). `ReservationsAreDistinct` and `AcceptedIsReserved` then let an
accepted order be made for one request only.

Two more results follow. An order at the head of an outbox was placed, so it is
safe: if its device was not retired and did not ask to withdraw it, its request
is still reserved under it and the server would take it, or has it already,
since an accepted order is in the server's tables for the device that sent it
(`AcceptedIsReserved`). That is `AcceptancesAreNotStuck`, the safety half of
`AcceptanceArrives`. `HiddenInv` is a second induction: a device marks a request
only after it has placed an order for it, also when the two are steps of one
acceptance with anything in between (`MarkedIsPlaced`), and a placed order leaves
the outbox only to the server's orders or to quarantine (`PlacedIsOnItsWay`).

`DayBooksProofs`, from `BooksAssumption`, for any tabs, orders, expenses, drafts
and policy:

| Theorem | States |
|---|---|
| `CheckoutBalances` | a valid draft's price adds up, and its payment parts settle exactly the total |
| `EveryOrderBalances` | `Spec => []OrdersBalance` |
| `LedgerKeepsEveryEdit` | `Spec => []LedgerIsLastRow` |
| `ClosedIsFinal` | `Spec => ClosedBooksAreFinal` |
| `StockIsWhatHappened` | `Spec => []StockFollowsOrders` |
| `BulkIsUndoneOnce` | `Spec => []BulkUndoneOnce` |
| `ReconciliationIsRight` | `Spec => []ReconciliationIsTheTill` |
| `TypeCorrect` | `Spec => []TypeOK` |

The argument. `CheckoutBalances` is arithmetic over all naturals, with the
rounding of basis points; `OrdersInv` carries it to every order, since no
transition touches the snapshot that placement made. `LedgerInv` says that an
expense's rows are its history up to the ledger's record, and that an edit in
the middle holds the next revision of what it read, or an outdated one that the
commit's check refuses. `ClosedInv` (a closed day has no active order) is what
makes the board's commands impossible after the close; the other commands are
stopped by the checks of their commits.

The other results are about sums: of the movements of an order, of the takings
of the orders that are done, of the cash expenses. A sum is the community
modules' fold over a set. `SumsExist` shows by `InductionOnNat`, on the size of
the set, that it is a number and does not depend on the order of choice; from
that come the laws the model needs (`TotalOneMore`, `TotalOfOneWrite`,
`TotalSplit`), and from these what each kind of movement or write does to each
sum (`SumsOfMoves`, `SalesWrite`, `CashExpensesWrite`). `BooksAssumption` says
for it that orders and expenses are finitely many. `StockInv`: an order that was
made has exactly one consumption that is not reversed, the one its next Undo
finds, and that has its unit, however often Done and Undo alternate. `MoneyInv`:
the till, which counts payments as they happen, is the sales of the orders as
they are now less the cash expenses (`TillInv`); what a close has read still is
what the tables hold, unless another tab wrote since (`CloseInv`), although the
two halves are read in two transactions and in either order; and what is
recorded is the balance of a day that no command can change any more
(`RecordInv`). `BulkInv`: a bulk movement has no history but none, finished,
undone, and a command under way that would undo it a second time fails the
check of its commit.

`DayStartRecoveryProofs`, from `RecoveryAssumption`, for any number of services,
any batch size and any setting of the clock:

| Theorem | States |
|---|---|
| `RefusalsAreKnown` | `Spec => []RefusedStartIsKnown` |
| `InOrder` | `Spec => []InOrderUnlessTheClockSteps` |

The argument. `RecoveryInv` adds what is on its way: of all requests only one
for the day's start may differ from its row as it is now, because only a start is
ever moved (`RequestsInv`), and an answer still in a service's memory is a refusal
only of a start the server has or of a transition (`VerdictInv`). For `InOrder`,
`CalmInv` says what a clock that never stepped back keeps: `created_at` does not
decrease along the rows (`ClockInv`), so that a batch is a prefix of what is due
and a row that backs off holds back all behind it; every row before one that is
listed is applied, or in the same batch, or under way in the same service
(`Queued`); and a request is sent, given up on or received only when every row
before its own is applied (`Ready`). A ready request is never refused and never
finds its day missing (`ReadyIsTaken`), so no start is moved and the calm lasts.
Neither a second service, nor a lost answer, nor a late request breaks it,
because `Ready` speaks of receipts, which are never taken back.

`InventoryFeedProofs`, from `InventoryAssumption` and `NoneAssumption`, for any
connections, tabs, movements, costs and page size:

| Theorem | States |
|---|---|
| `TypeCorrect` | `Spec => []TypeOK` |
| `LedgerIsOrderedByItem` | `Spec => []LedgerInv`: numbers item by item, movements once and after what they compensate, pages of committed rows |
| `CoverInvariance` | `Spec => []CoverInv` |
| `NothingIsPassedOver` | `Spec => []CursorCovers` |
| `EveryPageIsStorable` | `Spec => []PagesAreStorable` |

The argument. An item's lock publishes the numbers of its movements in the order
they are drawn (`NumbersInv`), whatever the other items' transactions do. That is
not the order of the feed, since a shop has many items. A number is `Reached` if
a committed row has it. A row committed below a reached number is behind that
row, so, by the item's lock, behind one of another item: it is `overtaken`. Every
other row is committed above all that were reached (`NothingBelow`), and what the
device has up to a reached number stays complete (`KeepsCover`). That is said of
the cursor and of both ends of every tab's page (`PageInv`), and not only of the
newest, because any of them may be stored next, an older one over a newer one.
`Covered` speaks of the server's cost, so the proof has to know that a page
overwrites a row the device recorded itself (`ApplyTakes`) and that a movement in
the feed is never recorded again (`MovementsInv`). A page is storable since a
reversal's number is above that of what it reverses, which, unless it was
overtaken, is then in the page or below the page's start.

Every invariant and every action property a run checks is a theorem. Only
model-checked are the liveness properties, which are out of the prover's reach:
`EveryEventSettles`, `CancellationArrives`, `DeviceConvergesUnlessOvertaken`,
`EndedSessionIsFenced`, `SessionEndArrives`, `AcceptanceArrives`,
`EveryRowSettles`, `DeviceConverges`. `NoSilentDivergence` alone is proved under a
hypothesis, on the instance (`SingleService`), and `sync_two_flushers` shows that
it is needed.

Some definitions have the form they have for the prover's sake. `Answer` of
`CanonicalLedger` is a chain of conditions, in the order of the SQL function's
checks, rather than a CASE; `Without` is a recursive function, `Held` and `Used`
are sums over positions.

## 5. Not modelled, and the plan

Not modelled inside the parts that are:

* Outbox and ingest: `recoverMissingOrderPlacement`, which no answer of the
  server leads to (see `TransitionWaitsForItsOrder`); refusals of a placement
  for reasons other than stock (rewards, configuration); the reconstruction of a
  day start whose row is missing altogether.
* `DaySessions`: the fence by the shop cookie, several tabs of one browser, the
  desktop's exits, the gate on drafts and active orders (`DayBooks` has the
  latter), the merge of order numbers, a conflict of `device_id`.
* `OnlineOrders`: two tabs of one device, whose locks are per tab; a device
  clock that differs from the server's; reward reservations; the validation of
  the draft; the conflict of rejection reasons; and the await between the two
  reads inside one reconciliation.
* `InventoryFeed`: quantities and balances (`CanonicalLedger` has them), names
  and tracking modes of items, transactions with several movements (their items'
  locks are taken in order, so that they add no deadlock).
* `DayBooks`: parked drafts, the allocation of order numbers, reasons, overflow
  of safe integers, legacy movements, reward reservations, customer contacts,
  the same worker signing in again, payment references and zones.
  The undo window is left open for ever, which allows more than the code does.

Not modelled at all, with the reasons in `PROJECT.json`: configuration bundles
and preferences, authentication, WhatsApp, printing, the contracts packages, the
operations, menu and admin apps, the gateways and the remaining migrations. They
are most of the repository's lines: screens, queries, validation and migration
tests, with little state of their own that outlives a request.

The plan, most important first:

1. `SyncScheduler`: timer, running flag, trigger and stop; no trigger is lost.
   Today the scheduler is the weak fairness of a service.
2. `DayStartRecovery` over several days and with worker sessions in between,
   composed with `DaySessions`; sign-out and login in `OrderSync` and
   `OnlineOrders`, so that their liveness covers a browser between two workers.
3. `InventoryFeed` with several items a transaction, composed with `OrderSync`'s
   stock, so that quantities and costs are summed.
4. Proofs: the safety part of what the other liveness properties rest on (that a
   row that is due can be sent, that a pull makes progress), as
   `NoAcceptanceIsStuck` is for `AcceptanceArrives`; and the invariants behind
   what the other refuted statements leave standing, as `ClosedDayIsReconciled`,
   `DivergenceIsQuarantined` and `HiddenRequestIsAccounted` are for theirs.

## 6. Running it

Every run of the table in section 3 is `tlc -workers 2 -config <cfg> <module>`:

```
tlc -workers 2 -config sync_orders.cfg MCOrderSync
tlc -workers 2 -config feed_overlap.cfg MCLifecycleFeed
tlc -workers 2 -config days_shared.cfg MCDaySessions
tlc -workers 2 -config online_orders.cfg MCOnlineOrders
tlc -workers 2 -config day_books.cfg MCDayBooks
tlc -workers 2 -config day_start_recovery.cfg MCDayStartRecovery
tlc -workers 2 -config inventory_feed.cfg MCInventoryFeed
```

and every proof module is checked by itself:

```
tlapm OrderSyncProofs.tla
tlapm LifecycleFeedProofs.tla
tlapm DaySessionsProofs.tla
tlapm OnlineOrdersProofs.tla
tlapm DayBooksProofs.tla
tlapm DayStartRecoveryProofs.tla
tlapm InventoryFeedProofs.tla
```
