# Itemba-Z: specifications of the sales system

TLA+ models of the parts of Itemba-Z whose correctness depends on order,
concurrency, failure and the width of an integer: the sales service of the core
API over PostgreSQL and over the in-memory store, its money arithmetic, the
outbox worker, the migration runner, and completion and synchronization of
sales on the attendant's device. TLC checks them on small instances. TLAPS
proves, for every value of the constants, every safety invariant, action property
and refinement that the passing runs check; what progress there is (five liveness
properties) stays with TLC.

Paths below are relative to `services/core-api/` (Go) and `apps/sales-mobile/`
(Dart).

## 1. The system

```
 device (Flutter)                  core API (Go)                     broker
 New Sale page --+                 handler --> sales.Service           ^
                 +--> SyncService ----HTTP---> (one transaction) --+   |
 sync loop ------+    (mock gateway           stock / customers /  |   |
   | SQLite+SQLCipher  in this commit)        journal / outbox ----+-> worker
```

| Component | State | Operations | What is hard | What must hold |
|---|---|---|---|---|
| Sales service `internal/sales/service.go` | none of its own | `Complete`, `Reverse`, `Get` | sequences of sales, reversals and payments; replay of a key | stock and ledgers show the standing sales; a sale is reversed once; a key posts once; each record has its event |
| PostgreSQL store `internal/platform/store/postgres` | tables of `000001_core.up.sql` | the statements of a `sales.Transaction` | READ COMMITTED, row, key-share, unique-index and advisory locks, deadlock, abort, lost answers, an unlocked read of the period | interleaved requests do what serial ones do; credit limits; answers stay true; waits end; no request hangs |
| In-memory store `internal/platform/store/memory` | maps under one mutex | the same interface, seeds | copy of the state, swap on success; contexts looked at before the mutex and before the swap; seeds that write in place | an answer says what happened, a refused request leaves nothing behind, amounts are exact, every request is answered |
| Outbox worker `internal/outbox/worker.go`, `postgres/outbox.go`, `cmd/worker` | leases, attempts and retry times of `outbox_events` | claim, publish, mark published, mark failed | several processes on clocks of their own, leases that run out, late marks, crashes, events the broker refuses | at least once, never called delivered before sent, leases exclusive, what the broker accepts is delivered while the refused events ahead of it leave room |
| Device: `lib/application/sales_controller.dart`, `lib/data/sync_service.dart`, `lib/data/sqlcipher_local_store.dart` | lists in memory; `local_sales`, `sale_drafts`, `sync_queue`, `sync_results` | complete, save draft, synchronize, restart | awaits between memory and disk, pages beside the loop, lost answers, store errors, crashes | synced means posted; no sale or draft is lost; pending sales are synced in the end |
| Local schema and key `lib/data/local_database_schema.dart`, `database_key_provider.dart` | SQLite schema version | migrations v1..v4 | data carried from one layout to the next | no sale, command or result lost by an upgrade |
| Migration runner `internal/platform/migrate`, `cmd/migrate` | `itembaz_schema_migrations` | create the ledger, compare checksums, apply a file | several jobs at once, of different releases; the check outside the transaction; a commit whose answer is lost | the ledger is what took effect; a run that succeeds leaves its directory applied; each file once and in order |
| HTTP API and authentication `internal/httpapi` | none | parse, authorize, map errors | none: a function of the request | |
| Tenancy, row-level security | tenant of the session | scoping of every statement | none beyond the policy | |
| Audit trail `internal/audit` | `audit_events` | append | none: written beside the outbox event | |
| Control center, contracts, infrastructure | none or static | | | |

How they interact. A request runs one transaction (`WithTransaction`): it claims
its idempotency key, locks the customer or the original sale, checks the period,
stock and exposure, writes every row and the outbox event, stores the result
under the key and commits. Other services, which are not in the repository,
receive goods, take payments and maintain accounts in the same tables. Worker
processes poll the outbox by tenant and mark what they published. The device
keeps its own durable copy and retries a command under one client transaction ID
until it holds a result. At this commit the device's gateway is a mock, so its
server is modelled from how `SalesSyncService` uses it and by the promise the
core API makes: the same ID posts once. The API runs on the in-memory store when
no database is configured (`cmd/api`); deployment jobs run the migrations.

`PROJECT.json` lists the components with their status, every definition with the
lines it models, and 39 hazards with the properties that guard them; hazards no
property covers yet carry the reason.

## 2. The modules

| Module | Models | Uses |
|---|---|---|
| `SalesBooks` | the tables; every row `Complete` and `Reverse` write; the properties of the tables | |
| `SalesLedger` | the serial service: one request is one step | `SalesBooks` |
| `PgSales` | the service over PostgreSQL, one action a statement | `SalesBooks`, refines `SalesLedger` |
| `Money` | checked addition and multiplication, tax, the balance test, at a given word size | |
| `MemoryStore` | the service from the handler to the swap of the tables | `Money`, refines `SalesLedger` |
| `Delivery` | what the outbox promises | |
| `Outbox` | worker processes over the outbox table | refines `Delivery` |
| `SchemaHistory` | what the migration runner promises of the database | |
| `MigrationRunner` | migration jobs, one action a statement | refines `SchemaHistory` |
| `MobileSync` | completion and synchronization on the device | |
| `SumProofs` | laws of sums over finite sets, which the other proofs use | |
| `SalesLedgerProofs`, `PgSalesProofs`, `MemoryStoreProofs`, `OutboxProofs`, `MobileSyncProofs`, `MoneyProofs`, `MigrationRunnerProofs` | theorems and proofs | the module of the name |
| `MC*` | constants of the checked instances | |

`SalesLedger` and `PgSales` share `SalesBooks`, so both post with the same
operators and the refinement between them compares what was *read and
checked*, not two copies of what is written. Operators marked "Faulty variant"
are plausible mistakes that the `mutants` of `PROJECT.json` put in place of the
definition that follows them; no specification uses them.

### SalesBooks, SalesLedger

One tenant, company and warehouse. A command carries what the loop over its
lines computes: quantity by product, net, tax, cost. `rows` keeps stock,
customer-ledger, payment and journal rows by source record (what a reversal
reads back); `stock`, `exposure` and `gl` are the sums the code selects.
`Complete` and `Reverse` have the code's checks in their guards; a refused
request changes nothing and is no step. `Receive`, `Settle` and `EditAccount`
stand for the absent services. Money is mathematical integers here; what that
leaves out is the matter of `Money` and `MemoryStore`.

### PgSales

A handler's `pc` names the statement it is about to run:

| pc | Statement | Lock |
|---|---|---|
| `claim` | `ClaimIdempotency`: insert, on conflict do nothing | unique index entry of the key |
| `replay` | `Sale(resultID)` for update | the sale's row |
| `customer` | `Customer` for update | the customer's row |
| `original` | `Sale(original)` for update | the sale's row |
| `period` | `FiscalPeriodOpen` | none |
| `line` | `AvailableStock`, once a line | advisory lock of the product |
| `exposure` | `CustomerExposure` | none |
| `undo` | rows of the original read back and inserted negated | key-share of the customer |
| `post` | the remaining writes and COMMIT | none more |
| `done` | committed; the answer is sent or lost | all released |

Writes are invisible until COMMIT and their own transaction sees them only in
the stock sum, so they are made in the committing action from what earlier
statements read (`taken` is that sum). `Blockers` and `Deadlocked` are the wait
graph; `AbortDeadlock` is PostgreSQL's 40P01. `Abort` is any other failure
before the commit, at every statement. `sent` counts the requests a client has sent, so
that a key may be sent again beside or after the first time.

### Money, MemoryStore

`Money` has `checkedMultiply`, `checkedAdd` and `taxAmount` of `service.go` with
`MaxInt` for 2^63 - 1 and `Scale` for the 10,000 basis points, and what
`Journal.Validate` does to its sums: it adds without a check, so they wrap
(`AsInt64`).

`MemoryStore` follows a request from the handler to its answer: it arrives, is
validated, waits for the mutex, works on a clone and swaps it in. The tables are
those of the store (movements, ledger, payments, journals, sales, outbox,
claims), with rows and not sums. `req[n].at` names the place the handler of
request `n` has reached:

| at | Code |
|---|---|
| `arrived`, `locking` | `CompleteCommand.Validate`, the first look at the context, `s.mu.Lock()` |
| `claim` | `Authorize`, `ClaimIdempotency`, the replay |
| `screen` | `Complete`: customer, fiscal period |
| `line` | `Complete`: one line of the order |
| `charge` | `Complete`: exposure and customer ledger, or payment |
| `post` | `Complete`: journal, sale, events, result of the key |
| `original`, `undo`, `unpost` | `Reverse`: the same three parts |
| `read` | `Get` |
| `end` | the second look at the context, the swap |

One request at a time holds the mutex, so statements between two places that
nothing outside can tell apart are one action. `Cloned` says which tables
`cloneState` copies: a write to one it left out would be a write to the store, and
`Write` does what the code would then do. A client cancels, and the identifier
generator fails, at any place (`Cancel`, `NoIdentifier`). Requests are numbered in
order of arrival and number their records, as the generator gives no identifier
twice. `shown` is a history variable, always `Books(state)`: the tables in the
terms of `SalesLedger`, summed once a step. What an order costs there
(`Exact`) is computed without a word size, so the refinement also says that no
amount wrapped. Products, rates, permissions and posting accounts, which are
seeded before the server starts, are constants.

### Outbox, Delivery

Times are kept relative to true time: `wait` is `available_at` and `lease` is
`locked_until` less the time it is. Processes run on hosts whose clocks differ
and take `now` before the statement that uses it; `Reading[p]` is by how much the
`now` of process `p` may be off, never more than `Margin`. A claim is one
transaction (`FOR UPDATE SKIP LOCKED` with limit and order), so is a mark; between
them a process publishes. `Tick` is the tick that comes when every process is
through with its round; `SlowRound` is a tick in the middle of one. Faults (slow
rounds, lost claims and marks, broker errors, crashes) are counted by `faults`;
events in `Poison` are refused always and are not counted. `Delivery` is the
abstract promise with three sets; the mapping takes `sent` to the events published
at least once and `done` to the rows with `processed_at`.

### MigrationRunner, SchemaHistory

A release is a function from file numbers (lexical order) to contents, which stand
for their SHA-256 too. A job's `pc` names the statement it is about to send:

| pc | Statement |
|---|---|
| `initialize`, `create` | `CREATE TABLE IF NOT EXISTS`: looks, then creates; the loser of the race gets an error |
| `select` | the checksum of the next file, outside any transaction |
| `exec` | `BEGIN` and the statements of the file |
| `insert` | the version's row: waits for another transaction that inserted it (`KeyTaken`) |
| `commit` | `COMMIT` |
| `applied`, `failed` | what `cmd/migrate` logs |

What a file's SQL does is one opaque effect, visible at the commit, which appends
the file to `schema`. Its statements may fail on what another job has committed
since. Two jobs whose files wait for each other's tables are among the failures
(`Fail`), as are the two minutes' timeout and a killed job. `Abandon` is a job that
goes away while its COMMIT is under way: the transaction is one of `orphans` until
`Settle` commits it or rolls it back.

### MobileSync

Dart runs one event at a time: an action is what runs between two awaits.
Handlers are the New Sale pages (`completeSale`) and `Loop`, the one run of
`synchronizePending` that `isSyncing` admits; both run `_syncOne`. `job` holds the
await a handler is at and its local copy of the sale's status; `listed`, `drafts`
and `online` are the controller's memory; `stored`, `saved`, `queue` and `results`
the four tables. `StoreFails` throws at any store await, `SubmitFails` is an error
of the gateway before or after the server posted, `Crash` is the death of the
process at any await, `Restarted` what `main` and `initializeLocalData` read back.
The content of a sale is left out.

## 3. What is checked

| Run | Question | Result |
|---|---|---|
| `serial_sales` | Do the tables stay consistent over any sequence of up to four records under two keys? | holds |
| `memory_sales` | Over the in-memory store, with amounts that end at 15, cancelled contexts and generator failures: are answers true, amounts exact, the tables those of `SalesLedger`, and every request answered? | holds |
| `pg_race` | Do three requests to two handlers, on one shelf and one credit limit and under one key or two, implement `SalesLedger`, exceed no limit, reverse no sale twice, keep every answer true and stay clear of deadlock, with the period turning? | holds |
| `pg_live` | When commands lock two products in opposite orders, is a deadlock among sales at their lines only, does every wait end in a handler at work, and does every request end? | holds |
| `pg_period` | Is nothing posted once the period is closed? | violated |
| `pg_credit` | Is credit refused only over the limit? | violated |
| `outbox` | On clocks that differ, with slow rounds, lost marks, crashes and an event the broker refuses: are leases exclusive, is delivery at least once and final, and is an event delivered as long as the refused ones ahead of it leave room? | holds |
| `outbox_host` | Are leases exclusive for workers under the default ID of one host? | violated |
| `mobile_sync` | Is synced posted, is evidence kept, is nothing lost, are pending sales synced in the end? | holds |
| `migrate` | With two jobs of different releases, failures anywhere and commits nobody learns of: is the ledger what took effect, is a run that succeeds current, is the whole one history, and does each run end? | holds |
| `mobile_lost` | Is every stored sale synced in the end? | violated |
| `mobile_credit` | Does a credit sale never wait for a connection? | violated |

The properties, by module:

- `SalesBooks`: `StockNeverNegative`; `OneReversalPerSale`;
  `LedgersShowStandingSales` (movements and journal sums equal those of the
  sales not reversed); `DebitsEqualCredits` and `SubledgerEqualsControl` (over
  the whole ledger, which no journal check sees); `OneClaimPerRecord` and
  `OneEventPerRecord` (a bijection of claims, records and events);
  `PostedIsPermanent` (the one change of a posted row is the mark a linked
  reversal leaves).
- `PgSales`: `LedgerSpec` (refinement: each commit is a `Complete` or `Reverse`
  whose checks hold *at that moment*); `CreditWithinLimit`; `AnswersStand`
  (what a client was told stays true, and the key answers nothing else);
  `NeverDeadlocked` (where products are named in one order) and
  `DeadlockAtLinesOnly` (where they are not); `WaitsForWork` (nobody waits for a
  transaction that is over); `EveryRequestEnds`.
- `MemoryStore`: `AnswersTellTruth` (201 names a posted record under the client's
  key and for its request; after any other answer nothing of the request is in any
  table; behind a 500 there is a cancelled context, a generator failure or an amount
  too large, never one of the store's own guards); `MoneyIsExact`; `LedgerSpec`
  (refinement); `EveryRequestAnswered`.
- `Outbox`: `LeaseExclusive` (while both leases run on every clock),
  `OneSendPerClaim`, `DoneIsFinal`, `DeliverySpec` (refinement),
  `EventuallyDelivered` (an event the broker accepts is delivered if the poison ahead
  of it in its tenant is less than `Reach`).
- `MigrationRunner`: `LedgerIsTruth`; `AppliedIsCurrent`; `HistorySpec`
  (refinement: each file once, whole, after the files its release sorts before it);
  `EveryRunEnds`.
- `MobileSync`: `SyncedIsPosted`, `EvidenceKept`, `NothingLost`,
  `PendingIsSynced`.

### Findings

1. `pg_period`: the period is read with no lock (`transaction.go:163-176`) and
   trusted after later waits, so a sale commits after finance closed the period.
   `docs/product/screen-catalog.md:32` says "closed-period policy enforced".
2. `pg_credit`: a customer whose paid credit sale is reversed has a negative
   exposure, which `customers/model.go:18-19` provides for; `checkedAdd`
   (`service.go:221`, `515-520`) reports it as an overflow, and the next credit
   sale fails although it fits the limit.
3. `outbox_host`: `workerID` defaults to the host's name and a mark is fenced by
   it alone. Two processes of one host, and a third, hold one event at once. With
   IDs of their own the property holds (`outbox`, theorem `SafeLeases`).
4. `mobile_lost`: a sale stored as `syncing` when the process dies is never looked
   at again; the durable queue that holds its command is never read.
   `PendingIsSynced`, which leaves that status out, holds.
5. `mobile_credit`: `isOnline` is read before and after the first await of
   `completeSale`; when the connection is lost between, a credit sale takes the
   offline path.

An observation with no run: `README.md:16-18` says the migration command "refuses
to run if an already-applied migration was changed". `Apply` compares file by file,
so new files that sort before the changed one are applied before it refuses
(`Select` and `Commit` of `MigrationRunner`).

### Bounds, and why they are enough

- `serial_sales`: four identifiers fit two sales and a reversal of each, or three
  sales and a reversal; two keys in each operation give repeats and reuse. Two
  customers with different terms, one product (products are independent here).
  `MaxStock` and `MinExposure` only stop the environment. The run ends when keys
  and identifiers are used up and the environment can still edit accounts, so
  deadlock is checked.
- `memory_sales`: two requests are what can meet at a mutex, and enough for a sale
  and its reversal, its repeat, a conflict or a read. `MaxInt` 15 and `Scale` 4 keep
  the shape of the code's constants: there are an order that overflows, and one
  whose journal sides add up to 22 and wrap, which is the case the balance test has
  to get right. Limits leave room for exposure and total together; near `MaxInt`
  that sum, too, is answered 500, which `TooLarge` names and the proof covers. One fault falls at every place. `MaxStock`
  only stops the seeds.
- `pg_race`: every lock has two parties only, so two handlers show each pair of
  statements in each order; the shelf and the limit admit one of two commands. One
  command has two lines of one product, so the second line must see the first.
  Three requests give a first try, a repeat beside it and one after either, or a
  sale, its reversal and a rival. The period turns at any moment. With one product,
  the lines of all commands are in one order, so `NeverDeadlocked` is what the other
  locks (keys, originals, customers) have to answer for.
- `pg_live`: the shortest cycle of waits: two handlers, two products. Longer cycles
  and chains are covered by the proofs.
- `outbox`: two processes, two events of one tenant, a lease of two ticks and a retry
  delay of three, readings up to one tick off either way, two faults: enough for a
  lease to run out in the middle of a publication, a second claim and a late mark, or
  a crash and a lost answer. The poison event is the first of its tenant, and the
  bounds are the tightest that delivery allows (next section). For the safety
  properties larger batches and more tenants, events and faults are covered by the
  proofs; for `EventuallyDelivered` by the argument of the next section only.
  `MaxCount` caps how far claims and publications are counted; it does not restrict
  behaviour.
- `migrate`: two jobs show every pair of statements in every order; four runs let
  each be repeated; three files and four releases (a first, one that adds a file, one
  that edits a file, one that slips a file in between) give every outcome of the
  comparison. Two faults combine an abandoned commit with a failure.
- `mobile_sync`: two sales are the least that can disturb each other through the
  list; `MaxListed` 2 lets a completion insert a row while the loop holds an
  index. Two faults combine, for example, a lost answer with a crash.

### How much poison the workers get past

An event the broker never accepts is claimed, fails and is put off by `RetryDelay`,
again and again, and events are claimed in the order they occurred in. So delivery
behind poison has a limit. A failed event is claimed again no sooner than
`Recurrence == RetryDelay - 2 * Margin` ticks later, whichever clocks put it off and
look at it (and it is not claimed by two at once, if `Lease >= 2 * Margin`). In so many
ticks the processes claim `Reach == Cardinality(Process) * BatchSize * Recurrence`
events of a tenant, no poison twice. With less poison than `Reach` ahead of an event,
some claim has room for it, or for another good event before it; of those there are
finitely many, and each one delivered is out of the way. A tenant's batches are its
own, so the poison of other tenants does not count. With a batch of 50, a retry delay
of 30 s and a period of 1 s, `Reach` is about 1500 for each worker, less what clocks
are apart and what rounds take longer than the period.

With `Reach` or more, every claim can be full of poison for ever, and the events behind
it wait as long. Nothing in the code prevents this: `attempts` is counted and never
read, and the retry budgets and dead letters that `docs/security/threat-model.md:16`
and `docs/implementation/integration-register.md:12` ask of connectors are not in the
worker. The run has one poison event at a `Reach` of two. The limit is sharp: delivery of every event
fails in the run's bounds with a retry delay of two ticks (`Reach` 0), or with two
poison events ahead of a third event; on equal clocks (`Margin` 0) with a retry delay
of two ticks, three poison events are passed and four are not.

`CHECK_DEADLOCK FALSE` stands in `pg_live`, `pg_period` and `pg_credit`, where
clients run out of requests, and in `migrate`, where jobs run out of runs: there the
system rests.

Symmetry is used only in runs without liveness, over identifiers, keys, handlers
and processes that no definition tells apart. `NewId` is a CHOOSE, so identifiers
of `PgSales` are not among the symmetric sets; identifiers are interchangeable
there because which one the generator gives does not matter.

### Fairness

- `PgSales`: weak fairness of each handler's own steps: goroutines run,
  statements return, PostgreSQL grants free locks and breaks deadlocks. Nothing is
  assumed of clients, other services or failures.
- `MemoryStore`: weak fairness of each handler's own steps, strong fairness of its
  taking the mutex: a `sync.Mutex` in its starvation mode hands itself to the first
  that waits. Nothing is assumed of clients, seeds or failures.
- `Outbox`: weak fairness of each process' steps and of the tick that comes when all
  rest: the ticker fires, calls return. Slow rounds are faults, of which there are
  finitely many: a worker always slower than its leases republishes its batch for as
  long as it is slow.
- `MigrationRunner`: weak fairness of each job's statements (PostgreSQL answers, and
  ends the transaction whose key another waits for) and of the end of a transaction
  whose client is gone. Nobody has to start a job.
- `MobileSync`: awaits return (steps of pages and loop). Three assumptions are
  about people and the environment: the attendant presses Sync now when it is
  offered, the connection comes back, and the app is closed and opened from time
  to time. The last is needed: a store error leaves `isSyncing` set, and a row the
  loop overwrote comes back only at a restart. So `PendingIsSynced` says nothing of
  what those two faults do until then: Sync now disabled, a sale missing from the list.

## 4. What is proved

Each invariant below was checked by TLC before it was proved. The assumptions are
the named ASSUMEs of the modules, which TLC evaluates in the runs:

- `CommandAssumption`, `TermsAssumption` (commands have naturals for amounts, a
  positive net and some positive demand: what `Validate` and the CHECKs of the
  schema let through), `CustomerAssumption` (finitely many customers, so that what
  they owe can be summed), `BoundsAssumption`, `NoSaleAssumption` (null is no row);
- `EnvironmentAssumption` of `SalesLedger` and `PgSales` (goods received and payments are natural
  numbers) and `LinesAssumption` of `PgSales` (the lines of a command add up to its
  demand);
- `CatalogAssumption` of `MemoryStore` (prices above zero, costs and rates not below,
  a rate of at most the scale: the CHECKs of `000001_core.up.sql`),
  `RequestAssumption` (an order is any sequence of lines whose quantities are int64,
  so empty, negative and overflowing orders are included), `SeedAssumption`,
  `NoSaleAssumption`;
- `MoneyAssumption` (a largest amount and a scale above zero), and those of the
  outbox, the device and the runner, which only type their constants.

### Sums (`SumProofs`)

Stock, exposure and ledgers are sums over sets, folded in no particular order, and
the library's induction takes an operator as a parameter, which the provers cannot
instantiate. The proofs go by smallest counterexample instead: `SmallestSubset`
(a non-empty set of subsets of a finite set has a member with no smaller one in it)
comes from the well-foundedness of the natural numbers, and each law takes the
smallest set it fails for, removes one element and finds a smaller. So
`SumWith` (one element more), `SumSame`, `SumChange` (one value changes),
`SumUnion`, `SumNegated`, `SumReindexed` (along a bijection), `SumGrows`.

### The serial service (`SalesLedgerProofs`)

None of the properties is inductive alone: that a reversal
keeps the ledger balanced needs that the rows it negates are balanced; that it
keeps stock non-negative needs that those rows took goods and gave none; that it
is the only one needs the status of its original; that claims, records and events
correspond needs that an unclaimed key has no record. `IInv` joins types,
`RowsOfCommand` (the rows of a record are those its command calls for, negated for
a reversal), stock, reversals, balance and claims. One lemma for each action shows
it preserved, one lemma for each says what the action writes. `LedgersShowSales`
and `SubledgerReconciles` add the laws of sums: a sale changes one summand, a
reversal two, and the two that a reversal changes cancel.

| Theorem | Says |
|---|---|
| `TypeCorrect`, `Inductive` | `Spec => []TypeOK`, `Spec => []IInv` |
| `NeverOversold` | `Spec => []StockNeverNegative` |
| `ReversedOnce` | `Spec => []OneReversalPerSale` |
| `LedgerBalances` | `Spec => []DebitsEqualCredits` |
| `PostedOnce` | `Spec => []OneClaimPerRecord` |
| `AnnouncedOnce` | `Spec => []OneEventPerRecord` |
| `LedgersShowSales` | `Spec => []LedgersShowStandingSales` |
| `SubledgerReconciles` | `Spec => []SubledgerEqualsControl` |
| `CorrectedByReversal` | `Spec => PostedIsPermanent` |
| `CreditInLimit` | a step that raises exposure leaves it within the limit |

### PostgreSQL (`PgSalesProofs`)

The invariant, `PgInv`, says which locks a handler holds at each place and, for each
lock, what the handler has read under it and may still rely on: the customer's row
its terms and exposure, the sale's row its status, the advisory locks of products
their stock, the entry in the unique index its key. It is preserved because any
other handler is a bystander: a handler that writes one of those things holds the
same lock, and two cannot. The period is not in it, and cannot be (finding 1). From
the invariant, a commit is a `Complete` or `Reverse` of `SalesLedger` whose checks
hold at that moment, every other step stutters, and the theorems of
`SalesLedgerProofs` carry over.

Waits have an invariant of their own, `WaitInv`: a handler takes its key, then its
original, its customer and the products of its lines, and while it waits it holds
nothing of a later kind; once its transaction is over it holds nothing. So whoever
blocks a waiter is past the waiter's phase, or both are at their lines
(`BlockedBy`), and a cycle can only be one of sales at their lines. That two sales
do not wait for one another at the customer rests on `FOR UPDATE` being the first
lock taken on it: taken `FOR SHARE` and raised later, they would
(`WantedUpgraded`). Where the lines of every command follow one order of the
products, a sale that blocks another either waits for a product later in that order
or waits for nothing, so the set of those who can run or wait for something later
is closed and does not hold the waiter: were the lines sorted before they are taken
(the code takes them as the client sends them), the locks modelled here would never
end in 40P01. `WaitsForWork` takes the smallest closed set of busy
handlers among those waited for; one that cannot run reaches all of it, itself
included, so it is deadlocked. There is one in it for any finite number of
handlers, and only there: an infinite chain of waits has no end.

| Theorem | Says |
|---|---|
| `PgInductive` | `Spec => []PgInv` |
| `ImplementsLedger` | `Spec => LedgerSpec` |
| `PgTypeCorrect` | `Spec => []PgTypeOK` |
| `AnswersForGood` | `Spec => []AnswersStand` |
| `AnswersAgree` | `Spec => []RepeatsAgree`: any two answers to a key are the same |
| `PgNeverOversold`, `PgReversedOnce` | `StockNeverNegative`, `OneReversalPerSale` |
| `PgCreditInLimit` | `Spec => CreditWithinLimit` |
| `PgTablesAgree` | balance, subledger, standing sales, claims and events |
| `PgCorrectedByReversal` | `PostedIsPermanent` |
| `WaitInductive` | `Spec => [](TypeOK /\ PgInv /\ WaitInv)` |
| `DeadlocksAtLines` | `Spec => []DeadlockAtLinesOnly` |
| `SortedNeverDeadlocked` | `Spec => []NeverDeadlocked`, if all commands name products in one order |
| `WaitsEndInWork` | `Spec => []WaitsForWork`, for finitely many handlers |

### The in-memory store (`MemoryStoreProofs`)

`MemInv` has four parts: `ControlInv` (where requests stand; the one between lock and
answer is `mu`), `StoreInv` (the tables between transactions), `AnswerInv` (what each
answer says of the tables), and `Tx`, what the open transaction has done so far, told
as a difference between its clone and the tables. The tables stand still while the
mutex is held, so `Tx` needs to be kept by the holder's own steps only. Its
heart is `Sums`: after i lines the int64 variables of the callback are the exact sums
of the first i lines, the clone has their i movements, and what they draw is in
stock; the next line keeps that unless a checked operation overflows, and then the
order is `TooLarge`. `Charged` adds that the entries balance and post to each account
what `SalesLedger` does, which is what lets `Journal.Validate` through: its guards,
and the ones against duplicate journals and records, never fire (`NoPostError`).

At the swap, rows are sets that are summed: `BooksGain` says that rows appended under
a new source add their own sum to every total and leave the others. So the swap is one
step of `SalesLedger`, and `StoreInv` takes what it knows of the books from the
theorems of `SalesLedgerProofs`, instantiated over them (`Serial`). It adds `Tidy` (a
request without a record has no row anywhere, a stored key has its result, each
journal is sound and the only one of its source) and `ExposureInv`: what a customer
owes is the sum of the credit sales that stand, hence not negative and at most some
limit the customer once had. The last is why `checkedAdd` cannot refuse a balance
here as it does over PostgreSQL (finding 2): the in-memory store takes no payments.

| Theorem | Says |
|---|---|
| `MemoryInductive` | `Spec => []MemInv`, and every step is a serial step or none |
| `MemoryTypeCorrect` | `Spec => []MemoryTypeOK` |
| `AnswersAreTrue` | `Spec => []AnswersTellTruth` |
| `MoneyStaysExact` | `Spec => []MoneyIsExact` |
| `StoreImplementsLedger` | `Spec => LedgerSpec` |
| `MemoryTablesAgree` | stock, reversals, balance and claims |

Two things the proof showed about the model. `TooLarge` once left out the sum of
what a customer owes and the total: with limits near the largest amount an order that
fits is answered 500, so the property was false for constants the run did not have;
it names that case now. And the type of an order's quantities had to be stated: they
are int64 before `Validate` and above zero after it.

### Money (`MoneyProofs`)

No induction: each operation is decided by cases and linear facts
about `*`, `\div` and `%`, which are lemmas of their own because the prover does not
find them alone. `BalanceExact` has the interesting hypothesis: two sums that wrap
are equal exactly when the sums are, as long as each side is at most
`2 * MaxInt + 1`; a journal of `Complete` has on each side a total and a cost of
goods, both within `MaxInt` (and `MoneyStaysExact` shows that no journal is longer).

| Theorem | Says |
|---|---|
| `MultiplyExact`, `AddExact` | the checked operations refuse exactly what does not fit, and are exact otherwise |
| `OverflowStays` | what has overflowed once is refused by every later operation |
| `TaxExact` | the tax is the exact one rounded half up, at most the amount, or refused exactly when the weighted amount does not fit |
| `WrapAddTracks` | adding entry by entry in int64 is the wrap of the exact sum |
| `BalanceExact` | the unchecked sums tell balance from imbalance, within that bound |

### The outbox (`OutboxProofs`)

The refinement needs `Handled` (what a process works on was
recorded, and what it is about to acknowledge was sent). Lease exclusion needs
`HoldsBatch`: while the lease a process was granted still runs, the rows left in
its batch are leased to it for just as long; a late mark of another process
cannot touch them when IDs differ (`UniqueIDs`, a hypothesis of the theorem
because the code does not guarantee it). The lease argument holds for clocks that
differ: what a lease is worth is its length less the margin, in the property and in
the proof. `OneSendPerClaim` becomes inductive when the processes that still owe a
publication of an event they claimed are counted with the publications made.

| Theorem | Says |
|---|---|
| `OutboxTypeCorrect`, `DeliveryInvariant` | `Spec => []OutboxTypeOK`, `Spec => []DeliveryInv` |
| `AtLeastOnce` | `Spec => DeliverySpec` |
| `SafeLeases` | `UniqueIDs /\ Spec => []LeaseExclusive` |
| `DeliveredForGood` | `Spec => DoneIsFinal` |
| `PaidPublications` | `Spec => []OneSendPerClaim` |

### The device (`MobileSyncProofs`)

The invariant says, for each await a handler may be at, what it relies on when it goes
on: that the command of the sale in its hands is queued until a result is stored, that
a sale it is about to store as synced is posted. Pages and the loop share the lists and
the tables, so the argument is that no step of another handler, and no crash, takes
that away; what a crash takes is only memory, and every fact about memory is about a
handler that dies with it.

| Theorem | Says |
|---|---|
| `MobileTypeCorrect` | `Spec => []MobileTypeOK` |
| `SyncedHonestly` | `Spec => []SyncedIsPosted` |
| `EvidenceIsKept` | `Spec => []EvidenceKept` |
| `NothingIsLost` | `Spec => NothingLost` |

### The migration runner (`MigrationRunnerProofs`)

That the ledger is the truth is not inductive: a commit adds
a row and an effect, and nothing in the property says that the version was free.
`IInv` adds `Commits` (an abandoned commit is of a version with no row, one for each
file, and its earlier files took effect), `Jobs` (the files a job has passed took
effect with its contents; a job about to commit holds its version alone) and
`Counters`. Because rows are never changed, what a job has passed stays so, which is
what carries the order of files and `AppliedIsCurrent`.

| Theorem | Says |
|---|---|
| `MigrationTypes` | `Spec => []MigrationTypeOK`, the exclusive hold on a version in it |
| `LedgerTrue` | `Spec => []LedgerIsTruth` |
| `AppliedCurrent` | `Spec => []AppliedIsCurrent` |
| `RunnerRefinesHistory` | `Spec => HistorySpec` |

### Only model-checked

Liveness under fairness, which the prover cannot do: `EveryRequestEnds`,
`EveryRequestAnswered`, `EventuallyDelivered`, `PendingIsSynced`, `EveryRunEnds`. Of
the first, what is not about fairness is proved: at every moment somebody a waiter
depends on can move or is in a cycle PostgreSQL breaks (`WaitsEndInWork`). The
five findings are counterexamples, which only a run can give.

## 5. Not modelled

- Tenants, permissions beyond granted or not, authentication, formats of requests
  and answers. Currency is compared, never converted, in the code.
- Order of delivery, which nothing promises: a `sale.posted` that failed is put off
  while `sale.reversed` of the same sale is delivered.
- Catalogue changes during a sale: each line reads price and rate for itself, so two
  lines of one order may be priced on both sides of a change; nothing in the code or
  its documents says which is meant. `Catalog` is constant.
- The content of a sale on the device (an open page shares its lines with the sale
  being completed) and the offline limits, which nothing counts down.
- The local schema's migrations, which one transaction of the library makes atomic;
  what the SQL of a server migration does.
- The control center (static data), contracts and infrastructure.

## 6. Plan

Done, in order of what a mistake costs: postings (`SalesBooks`, `SalesLedger`), their
concurrency (`PgSales`), delivery (`Outbox`, on clocks that differ), the device
(`MobileSync`), arithmetic (`Money`), the store
the tests and a server without a database run on
(`MemoryStore`), deployment (`MigrationRunner`). Left, in this order:

1. Proofs: every safety property of a passing run is proved, and of liveness in
   `PgSales` the part that is safety (waits). What would say more is the same for
   the other components: that a request over the in-memory store, a run or a worker
   is never left at a place with no step.
2. `SalesToOutbox`: the producer and the workers in one state, so that what is
   delivered is shown to be what was committed. Today `SalesBooks` shows that each
   record has one event, and `Outbox` that each recorded event is delivered.
3. The content of a sale on the device: an open page beside its completion.
4. `LocalSchema` (v3 to v4): data carried across an upgrade.
