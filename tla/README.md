# Verification of restaurant-api

TLA+ models of the core of the restaurant API (NestJS, Prisma, PostgreSQL): the
sale of a ticket, at the counter or at a table, its effect on stock, the retries
of the calls that move stock, the event streams that tell the floor what
changed, and the requests by which administrators keep users, permissions and the
catalogue, from login to audit row. TLC checks the models on small instances; TLAPS proves the most
important invariants for every value of the constants.

## 1. The system

Every endpoint is a controller that calls a service. The services keep no state of
their own (the event streams excepted): state is PostgreSQL, and what services do to
each other's tables they do inside one transaction.

| Component | State | Operations that change it | Interacts with |
| --- | --- | --- | --- |
| sale tickets (`sales/`) | SaleTicket, SaleTicketItem | create, update, add/update/remove item, confirm, cancel, void | catalogue (reads), inventory (SALE_OUT, VOID_REVERSAL), its table order, events, audit |
| table orders (`table-orders/`) | TableOrder | open, add/update/remove item, close, cancel | creates and drives a ticket through SalesService in the same transaction |
| inventory (`inventory/`) | ProductStock, InventoryMovement | stock in, return, waste, manual adjustment, minimum stock, sale out, void reversal | called by sales |
| products, prices, costs, categories | Product, Category, histories | create, update, (de)activate, new price, new cost | read by sales and inventory; audited |
| sales channels, payment banks, tables | one table each | create, update, (de)activate | read by sales and table orders; audited |
| idempotency (`idempotency/`) | IdempotencyRecord | execute, replay | wraps confirm, void and close |
| operations events (`operations/`) | OperationEvent; one closure per open stream, a count per user | connect, drain, monitor, resync, close | reads what sales and orders write; LISTEN/NOTIFY |
| users (`users/`) | User | create, update, (de)activate | read by every request and by the streams |
| authentication (`auth/`) | AuthSession, lastLoginAt; a signed token in the browser | login, logout, expiry, the guards of each request | in front of every route |
| permissions (`@Roles`) | none: decorators | RolesGuard | the role is that of the user's row, not the token's |
| audit (`audit/`) | AuditLog | log, in the caller's transaction | nobody decides on it |
| seed (`prisma/seed.ts`) | none of its own | one ensure after another, no transaction, no audit rows | writes the same tables before the API serves, and again on a database in use |
| reports, pos, options | none | read-only | each computes totals and stock status on its own |
| health, metrics, configuration | none of the business | start-up, probes | |

What is hard about it, and where, is listed in `PROJECT.json` under `hazards`. In
short: the same sale is reachable through two sets of endpoints; clerks and sales
compete for the same stock row; eligibility is sometimes read before the transaction
that relies on it; quantities are computed exactly and stored rounded; the catalogue
changes under open drafts; answers are lost and calls repeated; events are read by id
while ids are allocated before commit; one session check is shared by two readers; a
request is checked against its user, its row and its duplicates at four different
moments before it writes; two administrators may deactivate each other; the seed may die
between any two rows, and is run again on a database in use.

### What makes each component correct

- sales: a ticket and its order agree; versions detect every concurrent edit; stock
  leaves once and returns once; what was confirmed never changes; totals and payments
  add up.
- table orders: one open order per table, and the table is freed exactly when the
  sale ends.
- inventory: never negative, reconstructible from an append-only ledger.
- idempotency: one execution per key, its own answer for whoever repeats the call.
- event streams: order, no duplicates, nothing skipped, the end of a revoked stream,
  no leaked slot.
- master data: unique emails, names, codes and SKUs, although duplicates are looked for
  outside the transaction; a patch changes what it gives and nothing else (but for the
  commission of a channel, which every patch resets).
- prices and costs: one current row, and histories without gaps.
- users and permissions: an administrator remains; whoever is served was active, with a
  documented role, at some moment of that request.
- audit: the last row of an id tells the row as it is, unless the seed has rewritten it.
- seed: whatever kills it, running it again completes the lists, once each.
- reports and till: every grouping adds up to what was charged; one status per product.

## 2. Modules

| Module | Models | Notes |
| --- | --- | --- |
| `Catalog` | the administrative writes and the master data sales read | one action per write |
| `Inventory` | InventoryService; extends `Catalog` | a manual request is two steps: `FindProductForMovement` outside the transaction, then the transaction |
| `TableService` | abstract: what the floor is promised | sale and seat only |
| `Sales` | SalesService and TableOrdersService; extends `Inventory` | every endpoint; the composition of the three components |
| `Idempotency` | IdempotencyService and runSerializableTransaction | the wrapped operation is left open |
| `OperationsEvents` | OperationsEventsService, the writers of events, EventSource clients | one event loop, one action between two awaits |
| `Permissions` | the `@Roles` of each handler, and the matrix of `docs/05` | constants; compared by a theorem, with one exception that is named |
| `Directory` | the rows administrators keep, their audit rows, the histories, `seed.ts` | committed effects; one action per ensure of the seed |
| `Administration` | login, guards and the services of users, categories, channels, banks, tables, products, costs and prices; extends `Directory` | one action between two awaits |
| `Queries` | reports by channel and product, stock status in three services, the catalogue of the till; extends `Sales` | operators over the states of `Sales` |
| `MCSales`, `MCInventory`, `MCIdempotency`, `MCOperationsEvents`, `MCAdministration` | symmetry sets for TLC; `MCSales` brings in `Queries` | |
| `InventoryProofs`, `SalesProofs`, `QueriesProofs`, `IdempotencyProofs`, `OperationsEventsProofs`, `AdministrationProofs`, `AccessProofs` | theorems | one per module above; `AccessProofs` has those of `Administration` about guards and administrators |
| `SumProofs` | lemmas about sums over finite sets | used by `SalesProofs` and `QueriesProofs` |

`Catalog` and `Administration` model the same writes at two grains. A sale only sees their
committed effect, one write at a time, which is `Catalog`. What happens between the awaits
of an administrator's request is `Administration`, where no sale is running.

An operator introduced by a comment "Faulty:" is not part of a specification. It is
the operator below it with a plausible mistake, kept next to it to show that a
property notices that mistake (`mutants` in `PROJECT.json`).

### How state and actions correspond to the code

*Tickets and orders.* `TableOrder.saleTicketId` is unique and an order is inserted with
its ticket, so `order` is a function of the ticket. `addItem` merges lines of a product,
so `items[t]` is a function of the product; quantity 0 is the absent row. An id that has
not been used is a row in status ABSENT. Names, notes, audit rows and timestamps are
left out there: nothing decides on them.

*Transactions.* Each endpoint of sales, orders and inventory runs in
`runSerializableTransaction`, so one action: PostgreSQL's SERIALIZABLE makes committed
transactions equivalent to a serial order of them, and a refused or failed one
leaves nothing. Writes of the catalogue touch one row, or replace the current row
of a history: in `Catalog` each is an action too. Two things are outside a transaction in the
code and are steps of their own here: the product check of the manual movements, and
the loser's read of an idempotency record. `Administration` takes the writes apart:
see below.

*Versions.* `expectedVersion` only refuses a request. A request whose version is
current is an action; one that is refused is none.
`EveryChangeIsVersioned` and `VersionsAdvanceTogether` state what makes the refusal
sufficient.

*Numbers.* Inputs are thousandths (no DTO limits the decimals), columns are
hundredths, prices and amounts are cents. `Stored` and `StoredCents` are the rounding of
the two kinds of columns, applied after exact arithmetic as in the code: 1.25 times 0.01
is stored as a cent, next to a quantity that was rounded on its own.

*Events.* In `Sales`, `ticketEvent` and `orderEvent` are the versions last announced.
In `OperationsEvents` an event is its id: `InsertEvent` takes it from the sequence,
`CommitEvent` makes it readable. A stream's record is the closure of `connect`: what
`drain` awaits, whether it was woken meanwhile (`queued`), the shared session query
(`check`) and what the monitor waits for. The client is a browser that reconnects with
`Last-Event-ID`, having lost any suffix of the frames of the broken connection.
Stopping the process ends every stream and empties the count: it is
`Disconnect` of each client, in some order.

*Idempotency.* The hash of user, operation, ticket and key is a key; bodies are equal
up to the order of their fields. `Begin` is the lookup in the transaction, `Commit`
the reservation, operation and response together; a unique violation or a
serialization failure may come from the key or from the operation itself.

*Administrative requests.* `request[c]` is the closure of one HTTP request: the stage it
has reached, what the body gives (`Undefined` is a field that is not given, `None` one that is null
and clears its field), the row as it was
read (`before`). Login, `JwtStrategy` and `RolesGuard` come first (`session`: the session
row was read; the next step reads the user row and lets the request through or not), then
the service, one stage per await: the row (`found`), the duplicate (`named`, `checked`), the
write. Anything may commit between two stages, and `Fail` ends a request at any of them:
a refusal, an error and a process that dies all leave what was committed before, nothing
else. `VisitElsewhere` is a route of another component: only its guard is taken here.

*Snapshots.* Deactivating a user and replacing a cost or price are SERIALIZABLE and read
before they write. Their snapshot and their commit are two steps. `Conflicts` says which
commits in between make the two not serializable, and `raced` remembers one: the commit is
then refused and the callback runs again (`Retry...`). For the other requests
`raced` is history: another row of the table was written while they looked for duplicates.

*Fields.* The `detail` of a channel is its commission type: no request gives it, and every
create and update writes NONE. The SKU of a product may be empty: `if (sku)` then skips the
check for duplicates (`IsLookedFor`), and the unique index alone refuses the second one.

*What a property needs to remember.* `held` collects the roles the user of a request had
since the request came, `documented` the roles `docs/05` gives to its route and
`undocumented` the one it is known to be open to besides (finding 5); `synchronised` has the
users the seed has written since their last audit row, and `appointed` tells that, since the
seed last wrote its administrator, nothing has taken the role of an active one. No guard
reads them.

*Sessions.* A client is a browser, and logs in once. With `AUTH_COOKIE` its session is a row,
which logout revokes; `Expire` is the end of token and session alike.

*The clock* moves or not between two readings (`ReadClock`); `from` and `to` of a history
are readings. Ids are drawn in any order by the database: where the seed creates a
row, `IsNextId` takes a free one, since none is better than another.

*The seed* has one action per `ensure`: a row of a list, a price, or a step that finds
nothing to do. It starts, and dies, anywhere (`StartSeed`, `SeedDies`), before the first login
and later on: `test/seed.verify.ts` and `docs/23` run it again on a database in use, where it
rewrites the users it finds by email and leaves no audit row. It runs between requests
(`NobodyAtWork`), also while sessions are open. A demo user may have anybody's email. Lookups by
either of two fields may find a row that the seed did not name (`FoundByEither`). There is one
demo product, in a category of the list. `opening` counts the opening stocks the seed
has booked; once requests have been made, the inventory may have a stock of its own, and
`SeedFindsStock` is the case where the seed finds it.

*Queries* are operators: a report is what the state of `Sales` would answer now.

## 3. Runs

| Run | Bounds | What it shows |
| --- | --- | --- |
| `sales_tables` | 2 tickets, 2 tables, 2 products, prices 1.25 and 3.30 of which the first is the one before the first sale, inputs 1 and 1.5 hundredths, quantities to 2, versions to 3, 1 administrative change | orders, tickets, versions and events agree; `Sales` implements `TableService`; totals, rounding of subtotals, payments, immutability, reports that balance |
| `sales_stock` | 2 tickets, 1 product, 1 clerk, stock to 2, 3 movements | types, single movements of a sale, confirmation takes all or nothing, one stock status everywhere |
| `inventory_ledger` | 2 clerks, 1 product, inputs 1 and 1.5 hundredths, stock to 3, 3 movements, 2 administrative changes | chain, append-only ledger, bounded rounding drift |
| `idempotency` | 2 attempts, 1 key and none, 2 bodies, 2 executions, 1 retry; a record may exist beforehand without response | one execution per key, the right answer, records final |
| `event_stream` | 1 client, 1 writer, 3 events, replay limit 1, reconnection while 2 frames at most were received | order, completeness, bounds on what follows a revocation, liveness |
| `event_slots` | 3 clients, limit 2 | the count of streams |
| `administration` | 2 clients, who log in when a run of the seed has ended; 2 requests or runs of the seed after a login; 2 ids per table, of which the seed takes one; 2 names and the empty one; the clock to 1; a demo CASHIER; users are given ADMIN or AUDITOR, products one category | current permissions, the last administrator, the audit trail, unique keys, the origin of duplicates, histories, patches, the seed |
| `documented_roles` (violation) | 2 clients, 1 request | finding 5 |
| `lost_event` (violation) | 1 client, 2 writers, 2 events | finding 4 |
| `price_at_confirmation` (violation) | 1 ticket, 2 prices | finding 1 |
| `reversal_mirrors_sale` (violation) | 1 ticket, 1 change of type | finding 2 |
| `inactive_product` (violation) | 1 product, 2 clerks | finding 3 |

*Why the bounds are enough.* Two tickets are enough for two openings of a table and for
two sales of the last unit; a third would repeat the second, and the properties relate
at most two. Two products are enough for a total of more than one line; they have one price
each before the first sale (`FirstPrices`), and the one administrative change may be
the other price. 1.25 times 1 or 1.5 hundredths is no whole number of cents and is rounded
both ways. Stock of 2 or 3 hundredths with inputs of 1 and 1.5 reaches refusal, zero
and both directions of rounding. Three movements let a chain have a first, a middle and
a last. `MaxVersion` bounds the edits of a draft only: a draft at the bound is still
confirmed, cancelled and voided. Three events over a replay limit of 1 reach a replay
inside the limit, one above it, and events during a replay; one retry distinguishes
"again" from "given up". Keys do not share state, so one key (and the absence of
one) is all of them.

In `administration` every property is about one request, about two that cross, or about a
request and a run of the seed, so two of them over two clients are enough (`MaxRequests`); they
may be of one user or of two, on one row or on two. A second id per table is needed for two
rows to share a name. The seed, run twice with different emails of the administrator,
leaves two administrators, who may deactivate each other, or an administrator and a cashier,
who may be promoted, refused or deactivated while a request of theirs runs, or rewritten by
a rerun of the seed. Before the first login the seed dies and is rerun without a bound; the
first login waits for the end of a run (`LoginSteps`), since an unfinished
one only offers fewer rows. Users are interchangeable: ids are only compared.

The ledger's invariants, checked in `inventory_ledger`, are proved of `Sales` as well.

*No deadlock check.* The bounds stop every system: all ids used, all versions reached.
The code has no state in which everyone waits: a transaction either commits or fails.

*Fairness* is assumed in `event_stream` only, and not in the safety properties: the
event loop runs, a query answers or its deadline disconnects (`WF` of the session and
drain steps), and `setInterval` keeps firing (`WF` of `Wake` and `Monitor`).
Notifications are `Wake` too, and none is assumed: `EventsAreReached` holds by the poll
alone.

*One writer in `event_stream`.* `NothingSkipped` holds when events commit in the order
of their ids. `lost_event` shows that with two concurrent writers it does not. `NothingLost` proves it of
any number of events and clients under that hypothesis, `OneWriter`.

## 4. Findings

1. **Price at confirmation.** The price of a line is the one current when the product was
   first added; confirmation does not look at prices
   (`sales.service.ts:343`). `docs/02-business-rules.md:61` makes the moment of
   confirmation decide.
2. **What a void returns.** `void` chooses the lines by the product's type now
   (`sales.service.ts:742`), not by the movements of the sale. After a change of type the
   reversal is not the equivalent of the output (`docs/06-acceptance-criteria.md:65`).
3. **Inactive product.** The active flag is read before the transaction of a manual
   movement (`inventory.service.ts:201`), so a movement can commit on a product that was
   deactivated meanwhile (`docs/02-business-rules.md:19`).
4. **Events that commit late.** An id is allocated before its transaction commits and the
   stream advances to the highest id it read, so an event can commit below the cursor
   and is never replayed (`operations-events.service.ts:271`,
   `docs/verification/backend-foundation.md:203`). Clients recover at the next
   change of the same ticket, or on reload.
5. **The price a cashier reads.** `docs/05-roles-and-permissions.md:189` gives CASHIER nothing
   of the prices by channel; `GET :id/prices/current` is open to every role
   (`products.controller.ts:330`). `DocumentedRoles` is the matrix as written, and
   `documented_roles` shows a cashier beyond the guard. `PermissionsAreCurrent` names this one
   exception (`UndocumentedRoles`) to ask the rest of the question. The same words about
   costs and the code of costs agree.

## 5. Proofs

TLAPS proves, without bounds on the sets (the numeric bounds of the models are
constants, any natural numbers):

| Theorem | Says |
| --- | --- |
| `InventoryProofs!StockTypeCorrect`, `LedgerCorrect`, `DriftCorrect` | types, the ledger chain, the bounded drift, for the inventory alone |
| `InventoryProofs!LedgerAppendOnly` | `LedgerOnlyGrows` |
| `SalesProofs!TypeCorrect` | types of the whole system; stock is a natural number |
| `SalesProofs!OrdersCorrect`, `VersionsCorrect`, `TablesCorrect` | `OrderFollowsTicket`, `VersionsAdvanceTogether`, `OneOpenOrderPerTable` |
| `SalesProofs!EventsCorrect`, `PaymentsCorrect` | events announce what was committed; payments are coherent |
| `SalesProofs!SaleMovementsCorrect`, `VoidMovementsCorrect` | `SaleOutOnce`, `VoidReversalOnce` |
| `SalesProofs!TotalsCorrect`, `SubtotalsCorrect` | `TotalIsSumOfLines`, `SubtotalWithinRounding` |
| `SalesProofs!LinesTaken` | `ConfirmationTakesTheLines` |
| `SalesProofs!LedgersCorrect` | the ledger with sales and clerks together |
| `SalesProofs!ChangesVersioned`, `ContentFrozen` | `EveryChangeIsVersioned`, `ConfirmedContentIsFrozen` |
| `SalesProofs!TableServiceImplemented` | `Sales` implements `TableService` |
| `QueriesProofs!ReportsCorrect`, `TillCorrect` | `ReportsBalance`, `TillAgreesWithOffice` |
| `IdempotencyProofs!TypeCorrect`, `OnceCorrect`, `SuccessCorrect` | types, `OncePerKey`, `SuccessIsOfThisCall` |
| `IdempotencyProofs!RecordsFinal` | `RecordsAreFinal` |
| `OperationsEventsProofs!TypeCorrect`, `ConnectionsCorrect` | types of the streams; `ConnectionsAreCounted` |
| `OperationsEventsProofs!FramesCorrect` | `FramesInOrder` |
| `OperationsEventsProofs!NothingLost` | `NothingSkipped`, when one transaction at a time writes events |
| `OperationsEventsProofs!RevocationCorrect`, `MonitorCorrect` | `RevocationBoundsReplays`, `MonitorSeesRevocation` |
| `AdministrationProofs!TypeCorrect` | types of rows, histories, sessions and requests; a user has an email and a role |
| `AdministrationProofs!KeysUnique` | `KeysAreUnique` |
| `AdministrationProofs!AuditCorrect` | `AuditTellsCurrentRow` |
| `AdministrationProofs!HistoryCorrect` | `HistoryIsContiguous` |
| `AdministrationProofs!FieldsCorrect` | `FieldsChangeByTheirRequests` |
| `AdministrationProofs!DuplicatesCorrect` | `DuplicatesNeedARace` |
| `AdministrationProofs!SeedCorrect` | `SeedConverges` |
| `AccessProofs!PermissionsCorrect` | `PermissionsAreCurrent`, with the lemma that every route allows documented roles only, but for the one of finding 5 |
| `AccessProofs!AdministratorCorrect` | `AdministratorRemains` |

So every invariant and every action property of a passing run is also a theorem, and so
is the refinement.

*Assumptions*: the named ASSUMEs of the modules. Browsers, products, channels and tickets are
finitely many (without which sums and counts say nothing), inputs are at least one stored
hundredth (`@Min(0.01)`), `None` is none of the ids, the flags are Booleans, a row belongs
to one table, the demo users of the seed are not administrators, an empty string is a name,
and neither null nor what is not given is one.

*Argument for the inventory.* Every operation is one `LedgerStep`: at most one movement is
appended per product, it starts at the current stock, and it explains the new one.
The invariant `LedgerInv` (types, chain, drift) is inductive over ledger steps; drift
follows from five facts about the rounding of sums and differences.

*Argument for sales.* The endpoints are eighteen but the sales are five shapes: a sale
begins, is edited, cancelled, confirmed or voided. `EndpointIsSaleStep` shows that each
endpoint is one of them and says what happens to ticket, order, lines, events and
stock; everything after it is about shapes. `OrderFollowsTicket` is not inductive
without the versions and types, nor `SaleOutOnce` without knowing that a movement of a
ticket implies its status: `SalesInv` is their conjunction. Two conjuncts are there for
the amounts: every line is one the services computed (`LinesAreStored`, from which the
rounding of a subtotal, half a cent and half a hundredth of a unit at its price, follows by
arithmetic for every price and quantity), and a ticket has no lines before it begins
and some once it is confirmed (`LinesFollowTicket`). The refinement uses the invariant to know that a ticket
that ends has an OPEN order or none.

*Argument for sums.* `SumFunction` of the community modules is a recursion that takes a chosen
element out of a set. The library's induction over finite sets takes a predicate as
parameter, which the provers cannot instantiate; `SumProofs` takes instead a smallest subset
for which a fact fails (`LeastSubset`, from the well-founded order of strict inclusion) and
looks at the element the recursion takes out of it. Thus: the recursion is one
function whatever set it starts from (`AddsUnique`), any element may be taken out first
(`SumRemove`), sums agree where the summands do (`SumSame`), zeros may be left out
(`SumSupport`), a sum may be split into classes (`SumByClass`) and a table added by rows or by
columns (`SumExchange`). A count is a sum of ones (`SumOfOnes`).

*Argument for the reports.* Both reports are groupings of one table of confirmed tickets and
products. By channel, tickets are split into classes; by product, the table is added by
columns instead of by rows, where a ticket without a product contributes a line of zero
(`NoLineNoAmount`). Both are then the sum of the totals, by `TotalIsSumOfLines`. Quantities and
counts go the same way. `TillCorrect` needs no more than the types.

*Argument for idempotency.* `OncePerKey` needs that a completed record and the executions
tell the same story, and the right answer needs it twice: at a replay, where the response
comes from the record, and at a committed attempt, whose own record must still hold its
body. `IInv` adds to the properties exactly these: the response of a record is the execution
of its key and body (`RecordsHaveExecutions`), and an attempt whose answer is under way finds
its record complete (`CommittedIsRecorded`). Only `Commit` disturbs more than one of them.

*Argument for the event streams.* A step is one of five kinds: outside of the streams, quiet,
the end of a stream, its acceptance, or frames. The count is never negative
because only an open stream gives its slot back (`TypeInv`, with the types). Frames are in order because
a cursor is never behind a frame of its client and rows under way are behind the cursor
(`CursorOK`), also over a reconnection, whose cursor is the last frame. After a
revocation the replays written, a round past its check, and a valid answer on its way are
at most two together (`RevocationOK`). The monitor's own query, asked after the
revocation, is never answered valid (`MonitorOK`).
`NothingLost` is of another kind: with one writer, the next event to commit is newer than all
that are committed (`WritersOK`), so no cursor or frame is past it. `SkipInv` then says, of
each client, that a frame is preceded by one for every event before it, or by a resync
(`SentOK`), that what the cursor has passed was sent, and that rows under way leave no gap above
the cursor (`PassedOK`). Losing the frames of a connection keeps both, because what is
lost is a suffix and the cursor goes back with it. The hypothesis is there because
`lost_event` refutes the property without it.
The order of a replay is that of `InOrder`; that a finite set of ids has one is proved by
a least counterexample, with the library's theorem of minimal elements.

*Argument for administration.* `TypeInv` adds to the types what a request may rely on: its
session is of a row that exists, the row it changes exists, a user is created with an
email and a role (`RequestOK`); and what the seed may: nobody is at work while it runs
(`SeedRunsAlone`), and it has a product when it writes one's cost (`SeedHasProduct`). Most
steps leave the tables alone: one lemma per property treats them together, one the seed, and
one the three commits. A step of the seed is one of four shapes (`SeedShapes`): it writes a
user, inserts a missing row, opens a list, or writes nothing.

- *Unique keys* follow from the index at each write and from the seed, which looks before
  it inserts and has nobody beside it.
- *The audit trail.* A row that the seed inserts has no audit row yet, because one that was
  audited exists (`AuditedExist`); a user that it rewrites has kept the email and is
  `synchronised` until a request writes it again, with an audit row.
- *Histories* are closed and opened at one instant, and the seed opens a list only when it
  has no current row; the rest is about sequences.
- *Duplicates.* `CheckInv` carries what the check found to the write: as long as nothing
  was written in the table since, the row is the one read and the index allows the name. The
  services that compare with the row they read (`CheckIfChanged`) need its first half.
- *Permissions.* The role that let a request through is in `held` from `Arrive` on, by
  `PermissionInv`: every commit that changes the user's row adds the new role.
- *The administrator.* A deactivation that has counted, and is not raced, has counted
  someone who is still there (`CountedOK`): whoever could take them away meanwhile is the same
  row, another counted deactivation of an administrator, which races it, or an update of a
  role, which the property excuses. The seed appoints one, and nobody has counted anything
  while it runs.
- *The seed.* What holds however it is used is `SeedAlways`: an opening stock is booked once, and
  from `ensureCurrentCost` on its product has a current cost. What a run leaves when no request
  has been made is `SeedInv`, at every point of any run: rows are active and products have their
  category (`SeedRowsOK`), a list has one row at most (`SeedOnceOK`), and what the steps before
  `seed.step` fill is filled (`SeedStepsOK`). A run that starts again keeps the first two
  and has nothing to show for the third. That a name of the list is there *once* is
  `KeysAreUnique`; that a list of one row needs no other is `HistoryIsContiguous`.

*Only model-checked*: `EventsAreReached` and `RevokedStreamsEnd`. They are liveness under
fairness, which the prover does not handle. The violation runs have no theorem.

## 6. Not modelled

- Reads other than those in `Queries`: lists, pages, filters by date or text, the report of
  sales by user, the options of forms, the audit queries. Nothing is decided on them.
- Audit rows of sales, stock, costs and prices. They are written in the caller's transaction
  like those of `Directory`, about rows whose history is in the models already.
- The value of a channel's commission, its sub-taxes, and its second unique field: no
  sale reads them.
- The seed beside a request that is under way. Its lookups and writes are no transaction; what
  keeps a cost or price from being current twice are the partial unique indexes of migration
  20260713230000. Its other demo products would repeat the one.
- Health, metrics, configuration, start-up, and the limit of login attempts.
- Passwords and hashes: `StartLogin` is a login whose password matches.
- Isolation itself. SERIALIZABLE is taken as PostgreSQL documents it: an equivalent
  serial order in `Sales` and `Inventory`, a refused commit in `Administration`.
- An update that takes the role of the last administrator. `UsersService.update` does not
  count, and no document says it should: `AdministratorRemains` excuses it, and a demo
  user of the seed with the email of an administrator.
- Overlap of price intervals with real time. The instant of a replacement is read before its
  snapshot (`product-prices.service.ts:37`), so a delayed or repeated transaction can close
  a row before that row began. `HistoryIsContiguous` holds all the same and says
  only that rows meet; `Administration` reaches rows that end before they begin.

## 7. Plan

Done, in this order: `Catalog`, `Inventory`, `TableService`, `Sales`, the inventory and
sales proofs, `Idempotency` and its proofs, `OperationsEvents` and its proofs, `Permissions`, `Directory`,
`Administration` and its proofs, `Queries`, `SumProofs`, the proofs of totals and reports, of
completeness for one writer and of the seed.

Next:

1. Theorems about what no run asks yet: that `EveryChangeIsVersioned` makes an accepted
   `expectedVersion` the current one; that the transactions of `Directory` keep what `Catalog`
   assumes of the same writes.
2. Audit rows of sales and stock, composed with their ledgers.
3. `EditConflicts`: clients that read a version and send it back, with
   `OPTIMISTIC_VERSIONING` switched off.
