# Opticutter API: a specification

Opticutter sells and cuts board: a salesperson quotes a cutting plan, the client
confirms it from a link, the order goes through the shop floor (the saw, the edge
banding, the additional work), labels are printed at the shop, and payments come
in afterwards. The program is a FastAPI service over PostgreSQL. This directory
holds TLA+ specifications of the parts of it that keep state and whose steps can
meet in more orders than its tests write down, of the cutting engine's algorithms,
and proofs about both. Paths are relative to `src/src/`.

Every request runs in a database session of its own, at READ COMMITTED. There is
no version column and almost no row lock (only `print_jobs/service.py:301` and
`consumables/service.py:264` take one): a request loads rows, decides on what it
loaded, and at the flush updates by primary key the columns it changed. That one
fact shapes the whole model. A component is modelled with its requests taken apart
into a load and a commit (or more, where it commits more than once); the order,
whose rules are the richest, is modelled one request at a time first.

## Inventory

| Component | State | Operations | Meets | Hard part |
|---|---|---|---|---|
| Orders: shop floor (`modules/orders/service.py`, `model.py`, `pauses.py`) | status, history, activities, pauses, cut marks, instants | transition, transition_activity, pause, resume, mark_piece_cut | the quote that mints it, the board, notifications | derived moves (the last closing finishes the order, the first start takes it), rollback with work half done, waits that must end when their cause does |
| Orders: money (`payments.py`) | credit, payments, voids, invoice id | add_payment, void_payment, payment on delivery, set_external_invoice_id | order status | check, then append |
| Orders: desk | many orders; branch, priority, arrival | create with dedupe, change_branch, set_priority, list_workshop_queue | pre-orders, the shop floor | uniqueness without an index, fairness of the board |
| Pre-orders and review links (`modules/preorders`) | quote status, validity, links, order id | update, delete, generate link, confirm, reject, request_changes, lazy expiry | `OrderService.create` commits first, the quote second | a crash between the two commits, crossing decisions |
| Print queue (`modules/print_jobs`) | job rows, spool files, agents | enqueue, long poll (sweep, claim), payload, ack, retry, rotate token | orders, the agent program at the shop | a requeued job two PCs hold, rows against files, expiry that needs a poll |
| Accounts and sessions (`modules/users`) | users, families of refresh tokens | login, rotate, logout, update_user, change_password, deactivate | cookies, every authenticated request | a token issued across the request that closes the sessions; two administrators at once |
| Consumables (`modules/consumables`) | changes of a tool per branch | register, enter a past one, void; usage of each life | branches, the production reports | two tablets, corrections of the past |
| Attachments (`modules/orders/attachment_service.py`) | row and file | upload, delete | order status | two stores, no common commit |
| Catalog and client synchronization (`modules/products/catalog_sync.py`, `modules/clients/client_sync.py`) | products, families, clients | read the vendor's table, compare, write | staff's edits, orders and quotes in the making | what was loaded is stale when written |
| Production timelines and reports (`modules/orders/production*.py`, `work_schedule.py`, `modules/analytics/performance.py`) | none: read from the rows | timeline, boards, live state, bandings, sales, debts | every shop floor and desk request | marks and closings later undone, several reports of one figure |
| Optimization requests (`modules/optimizations/service.py`, cache, settings) | plans in Redis | resolve, hash, search or answer from the cache, bill | settings, catalog, orders that freeze the bill | what the hash covers; the order of the layers |
| Layout adjustments (`layout_adjustments.py`, editor endpoints) | sheets arranged by hand | candidates, evaluate, save, read back | the quote's inputs, which change | an arrangement that outlives its inputs |
| Cutting engine (`src/cutting`, `modules/optimizations/parallel.py`, `pool.py`) | process executor, breaker; solutions | pack a sheet, search, repair, pools with offcuts | request threads | a shutdown under other threads' futures; arithmetic of the blade |
| Inventory and stock alerts, notifications, documents and labels, exports, visualization, CRUD of branches, projects and services, roles and permissions | single rows, or none | | | none of their own |

What makes each correct, in short. Shop floor: finished means every activity
closed and every piece cut; a wait never outlives its cause; what is sealed stays
sealed; no order in process is stuck. Money: never more collected than was sold
on credit. Desk: one active identical order per branch; first come, first served.
Review: a decided quote stays decided and its order is what the client saw. Print
queue: one agent per delivery, a deliverable job has its payload, nothing stays
out or stale for ever. Sessions: what was closed stays closed, somebody always
manages the users. Consumables: changes stay apart, a short life says why.
Attachments: a row has its file. Syncs: the catalog follows the vendor where
nobody meant otherwise. Reports: the same fact reads the same everywhere and sums
add up. Quotes: the answer is of what was read, and the bill is the sum of its
sheets. Engine: no pool of workers is leaked, every batch ends, every sheet can be
sawn, no piece is lost, the bill only falls. `PROJECT.json` lists the hazards one
by one, each at its line.

## Modules

| Module | Models | State and actions |
|---|---|---|
| `Order` | one order, one request per step | a variable per column that matters; instants are the length the history had (so equal instants mean "no real move between"); an action per endpoint and edge, role included |
| `OrderLifecycle`, `CreditAccount` | what an order promises from outside: its status and the pieces left uncut; its money | abstract specifications `Order` implements |
| `OrderRequests` | the shop floor's requests on one order, each in three steps: load, count, commit | what was loaded is kept in the request; `crew` says which tablets work on the order |
| `OrderDesk` | many orders: creation, branch, priority, graph, payments, each load and commit | `clock` gives each creation and arrival its instant |
| `PreOrderReview` | a quote, its links and the orders it mints, each request load and commit | the confirmation in four: load, price and dedupe, mint, close |
| `PrintQueue` | the spooled jobs of a queue and the PCs that poll it | `pc[a]` is what agent a, or the server for it, is doing |
| `Sessions` | accounts and refresh tokens | a request per browser in flight, from its read through each of its commits; an account's `epoch` counts the times its sessions were to end |
| `Consumables` | the changes of one tool of one branch | lock, read, insert; void without the lock; usage per life |
| `Attachments` | one order's files | the file and the row as two stores, the two halves of each request, a server that dies between them |
| `CatalogSync` | products and families against `marticulo` | a sync reads (`Load`) and writes (`Commit`) in two steps; the vendor, the staff and sales move in between |
| `ClientSync` | clients against `mcliente` | the same, with cedulas, RUCs, names, phones and mails parsed the way the code does |
| `WorkClock` | working hours and the cut's time (`work_schedule.py`, `production.py`) | operators: an interval is the set of its ticks |
| `ShopReports` | what the floor registers, and what `production_service.py` and `performance.py` read in it | marks, closings, pauses of a branch; the reports are operators |
| `SalesReports` | the money half of `performance.py` | sell, collect, void, cancel, move; the reports are operators |
| `Quote` | a quote from the catalog to the order | resolve, look up, search, store, bill, mint; staff edit, Redis fails or forgets; the search is external |
| `PoolExecutor` | request threads on one process pool | submit, get, time out, break, kill, breaker, in-process run |
| `Sheet`, `Packer` | rectangles and the blade; one sheet filled greedily or in strips | a placement per step, then the leftovers |
| `SheetCheck` | is a sheet cuttable, its cut tree, its free rectangles | operators |
| `LayoutEditor` | sheets arranged by hand, saved and read back | open, move, convert, save, requote; EXTENDS `Packer` and `SheetCheck` |
| `PlanSearch` | the search for the cheapest sheets: baseline, beam, ruin and recreate, repairs, half boards | a sheet is a lane and a piece a length of it |
| `OffcutPool` | boards and the client's offcuts, in the three fill orders; offcuts only | each plan tried, and the choice |
| `MCOrder`, `MCOrderRequests`, `MCOrderDesk`, `MCPreOrderReview`, `MCPrintQueue` | instances | |
| `FrontDesk`, `MCFrontDesk` | `OrderDesk`, `Quote` and `SalesReports` side by side; its instance | `focus` says which one the behaviour is about |
| `BackOffice`, `MCBackOffice` | `Sessions`, `Consumables`, `Attachments`, `CatalogSync`, `ShopReports`, `ClientSync` side by side; its instance | `focus` |
| `MCWorkshop` | `PoolExecutor`, `Packer`, `LayoutEditor`, `PlanSearch`, `OffcutPool` side by side, and a bench where any few boxes are laid on a sheet | `focus`, `bench` |
| `Sums` | adding up: `SUM` in the queries, `sum()` in the services | one operator, `Total` |
| `SumTheorems` | what a total over a finite set is | lemmas, cited by the proofs below |
| `OrderProofs`, `FloorProofs`, `DeskProofs`, `ReviewProofs`, `OfficeProofs`, `ReportProofs`, `WorkshopProofs` | theorems about `Order`; `OrderRequests`; `FrontDesk` and each of its components; `PreOrderReview`; `PrintQueue`, `BackOffice` and each of its components but `ShopReports`; `ShopReports`; `PoolExecutor`, `Packer`, `PlanSearch` and `OffcutPool` | |

`Order` is the reference for `OrderRequests` (the same requests, whole) and for
`OrderDesk` (the same graph, with many orders and without the activities).
Components side by side share no state: a behaviour is about one of them, and a
property about one says nothing of the others, so the run checks each as it would
alone. Operators preceded by "Mistake:" are plausible wrong versions of the
definition next to them; nothing of the model uses them. They show which property
notices which error.

Abstractions: amounts are whole currency units (the code has two decimals and a
tolerance of one cent); in the order modules a cutting plan is a set of pieces, of
which some are banded and some worked on; a dedupe key is a model value
(`OrderDesk`) or the pair of input and price versions (`PreOrderReview`); a payload
is a file that is there or not, and past the retention or not; lengths are whole
millimetres. `Order` leaves out the edge by hand from `in_process` to `finished`:
its gate wants every activity closed, and `LastClosingFinishes` (part of `ShopInv`,
proved) says no order in process is there. `OrderRequests` has that edge, since
racing closings do get there.

## Runs

| Run | Bounds | Shows |
|---|---|---|
| `OrderShop` | three pieces: only banded, banded then worked, only worked; two invoices; rollbacks while the history is short of 7 | the shop floor's rules after every order of requests, `ShopInv` (the inductive invariant), what is sealed once, the history, progress from every state in process, and that an order implements `OrderLifecycle` |
| `OrderMoney` | one piece, credit up to 3, 4 payment rows, two invoices | no order of payments, voids and payments on delivery collects more than the credit; an order implements `CreditAccount` |
| `OrderQueuedUntouched` (violated) | as `OrderShop` | the comment that nobody has touched a queued order is false after a rollback |
| `RequestsFloor` | one saw, two benches, one office, at most three of them at work; two pieces, one pause | what survives with no lock, and with how many tablets: types, completeness, marks, waits (`FloorAgrees`), activities that only advance |
| `RequestsLastClosing` (violated) | one saw, one bench, no office and no pauses | two last closings at once leave the order in process with all work done |
| `DeskBoard` | orders: two clients, two branches, two quotes, two orders, credit 2, one request per quote at a time; sales: two orders, two sellers, two shops, 2 receipts, two days; quotes: four carts, 2 revisions, 1 cached plan, 1 order | uniqueness, the order of the board, and `MoneyAddsUp`: sales reports that agree with one another, quotes answered for what was read and billed sheet by sheet |
| `DeskTwoPayments` (violated) | one order, credit 1, two requests at once | two payments pass the same check |
| `ReviewLinks` | two requests in flight, 2 links, 1 edit, 1 new price, 2 orders, 1 crash (before any two requests cross) | links, decisions and orders agree until two requests cross; a confirmed quote has an order even then |
| `ReviewRetry` (violated) | one request at a time, 1 crash | the retry after a crash between the two commits mints a second order once the inputs or the prices moved |
| `PrintShop` | two PCs of one shop, one job, 3 deliveries | exclusive deliveries, payloads, no way back from closed, and both liveness properties |
| `BackOffice` | sessions: two accounts, two browsers, 2 tokens, 1 closing; consumables: two tablets, 3 changes, 4 instants; attachments: three uploads, two desks; catalog: three articles of which two share a code, one product made by hand, one family, two syncs, 2 edits; floor: two orders, three pieces on two sheets, two operators, six instants over three days; clients: two rows of a list, six texts, one sync, 2 edits | closed sessions stay closed, somebody manages the users, changes of a tool stay apart, rows have files, syncs write what they should and nothing else, reports agree with the rows |
| `Workshop` | pool: two threads, two jobs, 3 executors, 2 faults; sheet: three pieces, every constructor of the portfolio; editor: a whole board, a half and an offcut, 2 sheets, 2 edits, 1 change of the quote; bench: any three boxes on a 5 by 4 sheet; plans: four shops, 4 boards, 3 passes; offcuts: three slats, eight pools | no pool leaked, every batch ends, sheets apart and cuttable, the check exact, no piece lost, a bill that only falls |

Why these bounds. Three pieces are one of each kind the activities tell apart:
every guard on pieces asks whether a set is empty or whole, or where one piece
goes. Three rollbacks are one more than it takes to reopen the cut with marks
left and to do it again. The payments need two rows standing and one voided. Two
orders are what a duplicate and an overtaking take, two clients what a race takes.
The links need one to revoke and one to replace it; a second order takes one
crash. Three deliveries let a job be requeued from under an agent and again from
under the one after it; with one job the oldest-first choice of the claim, and
with one shop its branch filter, are passed through but not put to the test (the
proofs cover them). A second bench is what tells a station's one tablet from two;
two saws are left to `FloorProofs`, whose conditions name them. Two tokens are one
rotation or a login across a closing. Three changes of a tool are what it takes to
void the one in the middle. Two syncs overlap, and two edits put a staff change
between the reading and the writing. Six instants over three days give a stretch
that ends in hours, at lunch, at closing, and overnight. A behaviour about sessions
ends once requests about every account have crossed, and one about quotes once its
order is minted: nothing more is promised after that. Where names are alike (orders
on sale, operators, the vendor's first rows) the start or the first step is pinned
to one of them. `CHECK_DEADLOCK FALSE` stands where the system may stop: a
dispatched order, a closed quote, an empty queue, a search that ended.

Some properties gather several, so that a run asks each question once:
`FloorAgrees` and `ConfirmationsAgree` include the module's `TypeOK`; `MoneyAddsUp`
is `QuotesAgree` and `SalesAgree` with their types; `FloorFiguresAgree` is
`ReportsAgree` and `LivesShareTheWork`; `SheetsAreCuttable` is `PackedCanBeSawn`,
`ChecksAreExact` and `EditsAndReadsHold`; `ConsumablesRecord` is `KeptApart` and
`ShortLivesAreExplained`; `ShopInv` is the module's `TypeOK` and `ShopAgrees`, which
contains `WaitHeldToItsCause` and `PauseMirrorsOneOpenRow`; the `TypesOK` of
`MCWorkshop` contains `PlanInv` and `OffcutInv`, the inductive invariants of the search
and of the pools.

### Conditions, and what happens outside them

Properties of `OrderRequests`, `OrderDesk`, `PreOrderReview` and `Sessions` carry a
condition on concurrency (`OneEach`, `OneTablet`, `OneBench`; `OneAtATime`;
`crossed`; `meddled`). The conditions are not assumptions the code enforces; they say how far it
is right by itself. Outside them, with the configurations widened, TLC finds:

* `create` and `create` of the same quote at once: two active orders (`orders/service.py:396`);
* `change_branch` against the operator taking the order: it moves while it is cut (`1680`);
* the queue transition sent twice at once: the arrival is dated again (`771`);
* two saws: a piece unmarked after the cut was closed (`848`), a rolled back cut started
  by one after the other closed it;
* two benches: one pauses an activity the other is closing, and a done activity stays paused;
* a pause for pieces against the mark of the last one: a wait for nothing (`1247`), or a
  mirror and an open row that disagree (`1346`);
* a rollback against the last closing: a finished order back in the queue (`1577`);
* two links generated at once, both active (`review_service.py:103`); two confirmations,
  two orders (`176`); a rejection over a confirmation (`282`);
* two administrators who demote each other at once: nobody manages the users, against
  `users/service.py:85`, "enough to always keep one active administrator";
* a rotation or a login in flight while an account's sessions are closed, or a crash
  between the two commits: an old session survives, and reactivating the account brings
  it back, against `users/router.py:86`.

### Where the words and the code part

Four disagreements have a violated run, quoted under "findings" in `PROJECT.json`.
Others were met while modelling; the modules follow the code, and no property
states the words.

*Print queue.* A late acknowledgement of a requeued job closes the delivery another
PC holds by then (`ack` does not look at `agent_id`, `print_jobs/service.py:342`); an
acknowledgement read before a sweep or another acknowledgement overwrites it; a job
whose TTL passes after the sweep of a long poll is still claimed (`298`); and with no
PC polling, nothing expires at all (`211`). Hence `ClosedStaysClosed` says that a
closed job stays closed, not which way.

*Process pool.* `parallel.py` says that it never raises for an infrastructure reason. A
submit to a pool another thread shut down raises `RuntimeError`, and a future of it
`CancelledError`: nobody catches them. A failing thread shuts down the executor of the
moment, which need not be the one that failed; `shutdown` also closes the breaker
before the failure trips it.

*Consumables.* A void takes no branch lock, unlike a registration.

*Catalog sync.* It also aborts on names and codes of products an earlier sync created
(`catalog_sync.py:680` speaks of those made by hand); a row whose category is no longer
recognized is not shielded from deactivation (`230`), a type without a valid row is not
reconciled at all, and a deactivation by hand between the reading and the writing
survives the sync.

*Client sync.* A blank surname never overwrites; a client renumbered by hand while a
sync is in flight gets the old number's words; a conflict at the commit is an unhandled
500, rolled back.

*Layouts.* `consolidate_layout` says its cuts come out in tree order, which is not true
of a strip-filled sheet it leaves as it was. The near side of a cut allows no overhang
of the blade, the far side does. What the editor offers ignores stock, which the save
checks. The packer's own tree may rank better than the derived one.

*Search.* When the baseline strands a piece and a repair then finds a cheaper complete
plan, `optimize_bins` reports the piece both cut and unplaced; `OffcutPool` leaves this
overlap out of what it takes from a search. The beam may close at one sheet more than
`max_sheets`; the half board swap does not look at the half's count.

*Pools with offcuts.* `pool.py` returns a piece larger than the board as unplaced though
an offcut took it; such a piece, when it fits no offcut either, makes every number of
boards fail, and the offcuts go unused without a word; so "all the boards always works"
is not guaranteed. `auto` chooses by the waste of the boards and not by what is left out.

*Production reports.* A day may read differently in its own report and in the week's,
when the loading of the range overlooks a pause (`PausesOverlooked`, the condition of
`SameInEveryRange`); a pause of the banding does not open its day, unlike one of the cut; the live state needs
no other cut open to say "paused", and its `since` is the oldest pause in force.

*Quotes.* The names and codes of the board and the tape are in the cached plan but not
in its hash: a quote may show stale names until the TTL, and an order freezes them.
Prices are told apart by value, so a whole board and a half at one price fall together.
Why a piece was not placed is explained by its cut size, and may name the turn wrongly
(`ReasonsHold` says when).

### Fairness

Two modules have liveness. `PrintQueue`'s `FairSpec` assumes that the steps of each
agent, or of the server for it, go on (`WF` on `Server(a) \/ Shop(a)`: a handler runs
to its end, and the agent program is a loop that polls again), and that the minute of
the visibility timeout passes (`WF` on `TimeOut(j)`). Nothing makes anybody switch a
PC on: `LapsedLeaves` and `DeliveryComesBack` have as premise that some agent stays
active for ever. That premise is what the code needs: each poll sweeps the rows of
every branch, so one PC anywhere is enough. `Lapse`, `Age`, failures and the office
are not fair. `EveryBatchEnds` (`Workshop`) assumes `WF` on each thread's
`Serve(t)`: the thread's own steps and its workers' go on; what one batch meets on the
way (a worker's death, the deadline, the breaker's cooling down, another batch) is not
fair. `NobodyWaitsForEver` is a safety property: the gate of some request of the shop
floor that takes an order in process further (`StartAccepted`, `CloseAccepted`,
`ResumeAccepted` or `MarkAccepted`, the guards of those actions) is open; that somebody
makes the request is up to people.

## Proofs

Eight modules prove theorems for every value of the constants, from the assumptions
the modules state about them and nothing else: any sets of pieces, tablets, browsers,
users, articles or threads, and any value of the bounds. `PROJECT.json` lists them
under "theorems". In each module the inductive invariant comes first, then what the
operators return, then one lemma per action or group of actions that keep it, then
the theorems.

**`OrderProofs`** (about `Order`). `FinishedWorkIsComplete` is not inductive: that a
finished order has every piece cut depends on the closed cut having them all, which
depends on marks being taken back only while the cut is in progress, and on the
rollback leaving the cut pending. So `ShopInv` carries `ClosedCutMarksEveryPiece`, and
`LastClosingFinishes`, which ties the status to the activities both ways and says the
cut is unstarted off the shop floor. A wait is held to its cause because each request
that removes the cause (the mark, the banding's closing) also lifts the wait; for that
the paused activity must be one in progress, which `PauseMirrorsOneOpenRow` adds. The
sealing needs `ClocksAgree`: an instant already set must exclude the guard of whatever
would set it again. Each conjunct has a step lemma (`CutStep`, `PauseStep`,
`AssignedStep`, `WaitStep`, `ClocksStep`) with one case per action; `OfficeEffect`
treats the requests that only move money or close the order at once. `HistoryTold`
goes another way: `MovesAreEdges` says of every action, derived moves included, that it
either leaves the status and the history alone or appends along an edge of the graph,
and `BiographyStep` that such a step keeps the history a path that ends at the status.
`RefinesLifecycle` maps every request to a step or a stutter of `OrderLifecycle`.
`NobodyStuck` is an argument by cases on what is open: an activity that waits for pieces
is owed some, so an earlier one is open, and what is pending first may start.
The money: `MoneyInv` adds to `NeverOvercollected` that nothing is owed or registered
before the sale, `StandingRows` moves by the rows a request appends or voids, and
`SumTheorems` says what that does to the balance; `RefinesAccount` follows, and the
account's own promise with it.

**`FloorProofs`** (about `OrderRequests`). `FloorInv` says what a tablet may rely on
between its load and its commit, by how many share the station: `Bench` for one
tablet on the bench (what it closes is not waiting, what it pauses is in progress),
`Tablets` for one at each station (what it starts is still pending), `Floor` when in
addition nobody moves the order by hand (what was done when read is done; the pieces a
closing counted are still cut). The conditions of `FloorAgrees` and
`ActivitiesOnlyAdvance` are those three, and no fewer: the runs outside them above are
counterexamples.

**`DeskProofs`** (about `FrontDesk`: `OrderDesk`, `SalesReports` and `Quote`). `DeskInv`
says that requests in flight are about different quotes and that what each one checked (no
duplicate, the status it moves from) still holds, hence no two active orders alike.
`ArrivalsWait` needs none of that. `DatesInv` adds what bounds the clock: the orders raised
and being raised are no more than there is room for, and an order is dated once on its way
to the queue; so arrivals are told apart (`DeskTypeCorrect`). `OneActive`, `PlacesHold` and
`DeskTypeCorrect` assume `OneAtATime`, one request about a quote at a time, which the code
does not enforce.

About `SalesReports`: `SalesInv` says that an order not sold yet
owes nothing and has no receipt and that no order collects more than it owes, and
`SalesDoAgree` is then about the reports alone: each column's total is taken part by
part (`TotalOfParts`) by shop, by seller and by day, for every row counts under one key
and one only, and what is owed is the credit less the collections because the three
leave out the same rows.

About `Quote`: `QuoteInv` says that a plan in Redis is, but for the names, what a search
would find for anybody whose request has its hash, and that a counter's plan is so for
what it read. `PlansAlike` is why that survives the editing: two requests with one hash
have the same rows but for what the seller called an assembly, the same rules in play and
the same bins, so each step of the plan (`CutsAlike`, `BinsAlike`, `SheetsAlike`,
`PoolsAlike`, `TapeAlike`) comes out the same. `LayersComeOutAlike` needs no more than the
cart: in an assembly that holds together at most one row carries bands, so its layers
share the discount of `GroupDiscount`.

The other parts of `QuotesAgree` follow from what a plan is (`PlanFact`) and what becomes
of each of its sheets through the level and the boards taken whole (`FinishedFact`), for
any cart. `BillsDoAddUp`: sheets of one line share a price (`OnePrice`), before and after
each step, so lines are counts times prices, and moving a total by the differences is
adding it up anew; the discount is what the same sheets cost more at the list price
(`DiscountFact`). `SheetsDoSell`: a half is half the board along one side (`SheetBinFact`),
a turned piece has its bands on sides as long as before (`ContourFact`), and sheets drawn
alike are sold alike (`SoldAlike`). `OrdersCutAll`: the pieces of a row are as many as it
asks for (`PiecesOfRow`), sorting the sheets loses none (`SortedCuts`), and a plan with
nothing left out cuts them all (`PlanCutsAll`); `OrdersAreWhole` is then kept by each order
minted (`MintedStep`). `ReasonsDoHold`: with as many offcuts as pieces a row is left out
exactly when it fits no sheet (`AmpleUncut`), and it fits some exactly when it fits the
whole one (`FitsWhole`). `QuotesDoAgree` joins them. `EachDeskRuns` says that behaviours of
the front desk are behaviours of each component by its own specification, and
`MoneyDoesAddUp` follows from `QuotesDoAgree`, `SalesDoAgree` and the types.

**`SumTheorems`** (about `Sums`). The library's induction takes an operator, which the
provers cannot instantiate, and the definition of a sum is a fold; but a set of subsets
can stand for the operator. `SmallestSet` takes a smallest member of a set of subsets
of a finite set, from the library's well-founded ordering of them; `SetInduction` and
`NumberInduction` follow for sets `Good` of sets or numbers, `TotalUnfolds` from them,
and then what the rest use: a total without one of its elements, of a union, of parts,
renamed, scaled, monotone, over sets that may overlap, or read off a sequence in order
(`InOrderFact`); and that a finite set of numbers has a least and a greatest.

**`ReviewProofs`** (about `PreOrderReview`). `ReviewInv` has a part that holds whatever
interleaves (a confirmed quote has its order; a link a request came from exists) and a
part, `Calm`, until two requests cross: at most one is in flight, and what it read of
the status, the links, the inputs and the key still stands through both commits of a
confirmation, crashes and retries included.

**`OfficeProofs`**. `PrintInv` (`PrintQueue`) ties what each PC has in hand to
the rows (`HandsAgree`: the row being claimed waits, is nobody else's, and is about to
be handed out once more; deliveries in hand are among those counted) and the rows to
the spool (`FilesAgree`). Exclusive deliveries follow from the count, since a requeue
and a second claim move it.

`SessionsInv` (`Sessions`) says that two requests in flight
about one account are noticed (`meddled`), and that what a request read of an account
nobody else has in hand still stands; an update in flight keeps in sight an
administrator who stays one. `StoresInv` (`Attachments`): a key belongs to one upload until its
row is in; the row goes in after its file and out before it. `ConsumablesInv`
(`Consumables`): one tablet at a time between the lock and the commit, and what it
judged under the lock stays true because everybody else can only void; since a void
can also be of the change the judgment was against, the judgment is kept against all
changes in force, which is also why `ShortLivesAreExplained` compares every two of
them and not only neighbours. `CatalogInv` (`CatalogSync`): a sync's `touched` holds
every product written since it read, so outside it the catalog is as it was read; the
action property `CatalogFollowsTheVendor` follows by cases on what the sync decided.
`ClientsInv` (`ClientSync`) is the same of the clients, with the keys given so far. A
commit then compares three tables, the one read, the one that stands and the one it
leaves: one row of the list at most is about a client (`OneRowAClient`), the first usable
one with a cedula is taken (`TheFirstIsValid`), a column is written only with what the row
says and is not blank (`RewrittenFact`), and who is new gets a key nobody had
(`ImportedFact`). `MistakesAreRefused` is about the number alone: the digit that changed
moves the weighted sum by less than its base, and by more than nothing (`WeighedAs`), so
the check digit of the rest is another; the third digit is excepted because it chooses
the algorithm.

**`ReportProofs`** (about `ShopReports`). Of `ReportsAgree` each conjunct has its theorem. `RowsInv` says what the
requests keep of the rows: no instant is still to come, a pause is somebody's and ends
after it began, the pauses of an activity are apart, and a mark has its author, an instant
of its own and no pause round it. The rest compares readings of the same rows. The working minutes of an
interval are a set of ticks, and the reports' sums of stretches are shown to count such
sets: a stretch is split at the edges of the days (`SplitBy`), the branch's day is the
union of what its orders were at work on (`UnionCountsOnce`, `TheSawIsOne`), and the
minutes read lie in no registered pause (`MinutesAreWorked`). `DaysReadAlike` is the
longest: a day in its own report and in a longer one, row by row, under the condition
`PausesOverlooked` names. `WorkStands` carries `WorkInv`: the minutes each day read
before a request are still there after it, unless it took something back. The proofs use
of the constants that the windows of a day's schedule are apart, that overtime is less
than a day and a gap between marks at most one, and that a sheet has pieces.

Back in `OfficeProofs`, `BackOffice` puts the six side by side, and `EachComponentRuns` says that its behaviours
are behaviours of each by its own specification, since a step of one leaves the others
alone. `BackOfficeTyped` and `FiguresDoAgree` then compose what is proved of each: the
types of all six, and that reports and lives add up.

**`WorkshopProofs`**. `PoolInv` (`PoolExecutor`): an executor with workers is the
current one or in the hands of a thread about to kill it. `PackerInv` (`Packer`): pieces
and free rectangles are a blade apart and inside the sheet, whatever the constructor;
a strip is in the room, across the sheet, and everything before it a blade from the
room. The proof is arithmetic on the splits of a rectangle in two, in each
orientation, with and without what is too thin to keep.

`PlanInv` (`PlanSearch`) is what the search has in hand at each stage: the plan, the
baseline, the pass under way and the beam's state are each `Sound` (no piece twice, every
sheet cut with the real blade, no bin beyond its stock), the complete ones hold every
piece that fits, and what a ruin spared is apart from what the beam lays. `BillNeverRises`
and half of `NoPartIsLost` follow by cases on who replaces the plan. The other half is
about the bounds. A search that stops because its plan is `Proven`, and a state the beam
drops as `Pruned`, must have lost nothing, against every complete plan there is: so the
bounds are shown to be under the bill of any sound plan (`BinsBoundHolds`: no fewer
sheets, since each holds no more than the longest bin; `UnitPriceHolds` and `CostBoundHolds`:
no cheaper than its length at the best price per length; `FullAndHalfHolds`: whole boards
and one kind of half, when those are all), and `ProvenIsBest` and `PrunedIsLost` compare.
`PlanAssumption` carries what they need of the callers: a search has bins
(`optimize_bins` returns before it otherwise), and a material has at most one half board,
without end (`_half_spec`).

`OffcutInv` (`OffcutPool`) holds the four plans a pool compares (the one under way, its
rival, the one without offcuts, the one to beat) to two things each: it can be cut, and it
accounts for every piece. A probe is where the two part: it merges the offcuts' leftovers
with those of the boards alone, so a piece too large for a board may be cut from an offcut
and reported, which is the overlap named above and the reason for
`route # "probe"` in `PoolsLoseNothing`. `SearchedFact` says that a search on boards ends
with nothing a board takes, which is only so while `max_sheets` (100 by default) is no
less than the pieces (`ShortList`): the property states it as a condition. That the pool
buys no more boards than without offcuts, wastes no more of them than the plan it had,
and leaves out no more than any plan it tried follows from what the comparisons
(`Precedes`) decide by in the first place (`PrecedesFact`).

Writing the proofs changed two definitions: `Upserted` (`CatalogSync`) and `Conclude`
(`OffcutPool`) were CASEs whose arms overlap, which TLC reads in order and the language
does not; they follow the code's order of tests now. And `ShortLivesAreExplained`
was found too weak to be inductive, and strengthened. `ReasonsHold` tried a cart with 99
offcuts, which is no ample supply for a cart of more pieces; it tries as many as the cart
has pieces for them now. `SalesReports` assumes that `Terms`, its bound on the amounts of a
sale, is finite and not empty.

Only model-checked, and why:

* liveness (`LapsedLeaves`, `DeliveryComesBack`, `EveryBatchEnds`) is out of the provers'
  reach;
* `SheetsAreCuttable` and, in the workshop's `TypesOK`, `LayoutTyped`: the trees of cuts are
  RECURSIVE, which the provers do not take, and so is anything that reaches them. That
  pieces and leftovers lie on the sheet a blade apart is proved (`EverySheetIsPhysical`),
  and so are the other parts of `TypesOK` (`PoolTypeCorrect`, `PackerTypeCorrect`,
  `PlanSafe` and `PoolsSafe`).

## Not modelled

Rendering (documents, labels, exports, visualization), inventory reads and stock alerts,
notifications (after the commit, read by nothing that decides), CRUD of branches,
projects, services, roles. Of the modelled components: the listing filters, the cap of
open quotes per client and branch (`preorders/service.py:660`), duplication of a quote,
the claim of one invoice number by two orders (`orders/service.py:1638`); prices and
attributes of the vendor's catalog, column widths and the trimming of names in both
syncs; the metres of band, the cut length and the area in the reports; the search's
node budget, its UNVERIFIABLE verdicts and `max_full_checks`; the exact solvers and the
Rust copy of the packer. A quote's tax rate is read again at the bill, as in the code.

## Plan

1. done: `Order`, `OrderLifecycle`, `CreditAccount`, `OrderRequests`, `OrderDesk`,
   `PreOrderReview`, `PrintQueue`;
2. done: `Sessions`, `Consumables`, `Attachments`, `CatalogSync`, `ClientSync`,
   `WorkClock`, `ShopReports`, `SalesReports`, `Quote`;
3. done: `PoolExecutor`, `Sheet`, `Packer`, `SheetCheck`, `LayoutEditor`, `PlanSearch`,
   `OffcutPool`;
4. done: the proofs above;
5. next: the layout editor without recursive trees, so that it can be proved about;
6. later: the cap of open quotes with many quotes of a client; the invoice number
   between orders of `OrderDesk`.
