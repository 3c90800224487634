# market-core in TLA+

This directory holds a formal model of market-core, the product-catalogue service in `src/`:
TLA+ modules for its tables, its use cases, its paginated lists, its search log, its start and stop, its
outbound HTTP client and the two programs that set up its database, configurations that check them with TLC, and
theorems checked by TLAPS. Every definition is
translated from the Go and SQL sources; `PROJECT.json` maps each one to its lines.

## The system

market-core is a Go service behind gin, with PostgreSQL as its only shared state. gin serves every
HTTP request in a goroutine of its own. No use case opens a transaction, takes a lock or keeps a
version number: **the unit of atomicity is one SQL statement**, and the only things that keep
concurrent requests from spoiling each other's work are the constraints and triggers of the
migrations. Two use cases start goroutines that outlive their request and that nothing waits for.
The repository has no tests.

| Component | State | Operations | Interaction |
|---|---|---|---|
| Tables (`storage/postgres`, `migrations`) | `products`, `categories`, `favorites`, `search_*` | single statements of the repositories | called by the use cases; constraints refuse, the trigger derives `search_vector` |
| Product use cases | none between requests; a copy of a row during an update | create, update, delete, get, list | two or three statements each; `get` starts a goroutine that counts the view |
| Category use cases | none | create, delete, get, tree | check-then-write, as above |
| Favorites use case | none | add, remove, list | reads `products`, writes `favorites` |
| Search use case | none | search, autocomplete | starts a goroutine that records the query |
| Analytics use case | none | popular lists, click (no route) | reads; a click refers to a recorded query |
| Handlers, server, middleware | none | routes, binding, error mapping | `writeError` maps three domain errors to 404/409/400, everything else is 500 |
| Lifecycle (`app/service`) | pool, tracing | start, SIGTERM, shutdown | waits for requests, not for goroutines |
| Outbound HTTP client | circuit breaker under a mutex | `Do` with retries and backoff | shared by all callers; imported by no package yet |
| Migrations (`cmd/migrate`) | the schema version | apply the pending scripts | run by hand, creates the tables |
| Seed (`cmd/seed`) | none between statements but the ids it has drawn | insert sample categories, products, queries | run by hand, beside the server, itself or the migrations |
| Configuration, platform | tracer | `Load`, `tracing.Init`, logs, metrics | used by the lifecycle |

What is hard here, and what each component has to get right:

- **Tables.** A write that was decided on an old read must never leave a row whose category or parent
  is gone, two categories with one slug, a cycle in the tree (the recursive queries would not end), a
  stale search vector, or a deleted product that is alive again.
- **Use cases.** Requests interleave between any two statements; a statement may fail, or commit and lose
  its acknowledgement; the process may stop. An answer must not show what is older than its request and must tell what
  the request did, views must be accounted for, every request must be answered.
- **Lists.** A page is a `COUNT` and a `SELECT` with separate snapshots, pages are separate requests, and most
  sort columns tie. Rows come into a list at any place: `created_at` is drawn before the `INSERT`, and updates move
  old rows into a filter. What may a client still rely on?
- **Search log.** The answer to a search names a row that a goroutine has yet to write, in the first of two
  statements that nobody waits for. What may a client and a user rely on?
- **Lifecycle.** Requests and goroutines share one pool, and a signal may come at any time. Nobody may wait for ever,
  and the pool must close last.
- **Client.** Results are recorded long after the attempt was admitted, in whatever state the breaker is by then, and
  the delay before a retry doubles in an `int64`.
- **Setup.** The seed is nearly a thousand `INSERT`s outside a transaction; it may fail at each of them, is then run again,
  and draws new ids every time. What does a database look like that several executions have worked on?

`PROJECT.json` lists these hazards one by one, each at its line, with the property that covers it or the
reason none does yet.

## Modules

| Module | Models |
|---|---|
| `CatalogStore` | the tables `products` and `categories`, one action per statement; what the storage layer promises to any client |
| `CatalogService` | the product and category use cases over those tables, one action per statement of a request; refines `CatalogStore` |
| `CatalogHistory` | `CatalogService` with a memory of the rows each request could have met; the properties of its answers |
| `Listing` | the paginated lists and favorites, as a client walking the pages meets them |
| `SearchLog` | the goroutines that record searches, the history a user clears, clicks |
| `Lifecycle` | `RunServer` and `initInfra` from start to exit, and the connection pool under requests and goroutines |
| `HttpClient` | `Client.Do`, its backoff and its circuit breaker |
| `Setup` | `cmd/migrate` and `cmd/seed`, any number of executions, beside API clients; refines `CatalogStore` |
| `*Proofs` (one for each) | theorems and proofs |
| `DataLemmas` | facts about data that several proofs use: a set of naturals has a least member, what `RemoveAt` leaves, what `InsertAt` makes |
| `MC*` | small instances for TLC |

Operators headed "Faulty variant" are mutations of the definition that follows them: each shows that
one of the properties fails when the code is wrong in that way. The specifications do not use them.

### CatalogStore

`products` and `categories` are functions from every identifier `uuid.New` can draw to its row. `state`
tells an identifier never used from a live row and from one soft-deleted (`deleted_at`) or, for categories,
removed. Rows keep what the properties tell apart: the category, one text column (`name`, standing for
name, description and brand, the columns the trigger watches), one other column (`price`), the text the
search vector was last computed from (`indexed`), and `view_count`. An action is enabled when the
constraints accept the statement: `category_id` and `parent_id` exist, the slug is free, nothing
references a category that is deleted. An `UPDATE` or `DELETE` that matches no row is a step that changes
nothing, as in SQL. `ON DELETE SET NULL` and the trigger are part of the statement's action.

Any client may issue any statement at any time. `UpdateCategory` has no use case yet, and is included
because the repository offers it.

### CatalogService

`pc[r]` is the statement request `r` executes next, `call[r]` its operation and arguments, `copy[r]` the row an update
works on or a get answers with, `reply[r]` the status it was answered. Each action is one statement with the Go code
around it: `CheckCategory` and `CreateProduct` are `product.CreateUseCase.Execute`; `ReadForUpdate`,
`CheckNewCategory`, `WriteProduct` are `UpdateUseCase.Execute`; and so on. `GetProduct` is the read of the row and the
start of the goroutine that counts the view, `SendProduct` the answer with the row as it was read; in between the
product may be changed or deleted, and its view counted. Three things can happen to the statement a request is at: it
executes (and its acknowledgement may be lost: `Acknowledge`), a constraint refuses it (`Refused`, always 500, because
`writeError` knows no pgx error), or it fails without effect (`StatementFails`). The one exception is the slug lookup,
whose error `CreateUseCase` ignores: a failing lookup goes on as if the slug were free (`CheckSlug`).

`pending[p]` counts the goroutines that `GetProduct` started and that have not yet counted their view;
`served` and `lost` are history (a view is `served` from the read on, as its goroutine counts it whether or not the answer
gets out). `Crash` stops the process at any point and starts it again with empty
hands; an orderly SIGTERM, which waits for requests but not for goroutines, is a special case of it.

Bodies that do not bind and identifiers that do not parse are answered 400 before any statement and are
left out. The new row's identifier is part of the call, as if drawn on arrival.

### CatalogHistory

What may a request answer whose read is old by the time it answers? `HistorySpec` is `CatalogService!Spec` with one more
variable: `rows[r]` is the set of rows the product named by `call[r]` has had since the request arrived. Every step
adds the present row (`Remember`) and no action reads it, so it restricts nothing.

`AnswersHadTheirMoment` says that an answer is never about a time before its request. A get shows a row its product had, not
deleted, between the arrival and the answer; an update or a delete succeeds only on a product that was there in that time.
So a request that is in flight when its product is deleted may still be served it, by the 200 of a get or of an
update, and a request that comes later never is. 404 and 409 tell what is so when they are sent.

`AnswersTellTheEffect` says that a request changes the tables in one step, the one that answers it, or never. After a 201 or
204 what it asked for is done, after 404 and 409 nothing has changed, and a 500 is either: with a lost acknowledgement
the change is there in full, otherwise not at all. For an update "done" is that each field it names is in the row and
each other field is one that the row had since the request arrived. That is as much as the code gives: the other field
may be older than a concurrent update (`lost_update`), but not older than the request. A 200 is also possible when the
product was deleted meanwhile, and then the tables are left alone.

### Listing

The behaviour is about one list (`list`): `newest` (the default of `GET /products`), `oldest`, `weight` (any
column that may tie: price, rating, views), `relevance` (the rank, then `created_at`; the default of `GET
/search`) or `favorites`. `rows` and `favorites` are sequences in the order of `created_at`; two inserts never
get the same timestamp (`time.Now`, stored in microseconds). The code draws `created_at` before the `INSERT`, so a row may
appear after younger ones: `CreateProduct` and `InsertFavorite` put it at any place (`Insertions`).

What the filter of a list compares is abstracted to `fits`, the live rows it matches. A product may be created inside or
outside the filter, an update may move it in or out, whatever its age, and a deletion takes it out. `DeleteCategory` takes
any number of rows out in one statement: the children of the deleted category become roots, and the category filter of one
further up, which includes subcategories, no longer reaches them. The `weight` of a row is kept only where the list
looks at it and is `Hidden` elsewhere.

`Begin`, `Count`, `Fetch` are a client walking the pages with the two statements
that serve each one, or asking for a single page (`stop` is `one_page`) of any number `parseIntParam` lets through
(`Asked`). `Orders` is the set of row orders `ORDER BY` allows, chosen afresh by every query. `Offset` wraps around like
an `int`, whose greatest value is `MaxInt`; a negative one is an error of the database (`FetchFails`).
Other clients create, delete, update and favor products at any moment (`OthersWrite`). `changed`, `joined` and `left`
record what that did to the list since the walk began; the last two are kept for the lists sorted by time, which alone
have properties about them. `InsertFavorite` accepts any stored product, deleted ones too:
the use case reads the product in one statement and inserts in another, so the insert may come after the deletion.

### SearchLog

A member of `Searches` is one call of `SearchUseCase.Execute`, together with the id it draws. `request[s]` is where
the request is, `recorder[s]` where its goroutine is: before the first `INSERT` (`query`), before the second
(`history`), or `done`. `queries` and `history` are the two tables, a click's place and row are `click[k]`. An `INSERT`
may be executed, executed without the goroutine learning of it (then the second one is not tried: `err == nil`
does not hold), or fail. `troubled` remembers the searches to which the latter happened, or a stop; `cleared`
those whose recording had ended when their user cleared the history. `Crash` ends requests and goroutines and keeps
the tables. `ClearSearchHistory` and `TrackClick` are offered by the repositories and use cases and reached by
no route yet; the model lets clients call them at any time, as soon as a route would.

### Lifecycle

`main` is where `main` and `RunServer` are, from `Load` (no DSN, no start; `traced` is `OTEL_ENABLED`) and `StartTracing`
on; `pool` and `tracing` are what they open and close. Every other module takes statements
for granted; here a task (a request, or a goroutine left by one) has to get a connection for each of them:
`at[t]` is whether it runs, queues, or holds one, `left[t]` how many statements it has to go, `queue` who waits. What the
pool does (`Ask`, `Acquire`, `FindClosed`) is pgxpool's, and marked external: first come first served, closing
refuses who asks and who waits, and waits for who holds. `Drain` is the return of `srv.Shutdown`, at any time, with
`timedOut` telling whether requests were left. A signal during `initInfra` cancels the ping.

### HttpClient

`state`, `failures`, `probeSuccess` are the fields of `circuitBreaker`; `cooled` is the one bit the code takes
from the clock. `at[c]` is where caller `c` is in `Do`. `Admit` is `allow()`, `Finish` is `record()` with the
branches after it; between them the request is on the wire while other callers move the breaker on. `badRun`
and `goodRun` are history: the results recorded in a row, capped at the limits.

`RetriesOf` is what `New` makes of the configured number of retries: 0 becomes the default, a negative number passes, and
then `Do` returns without an attempt. `Bound` is the bound of the random delay: the product `2^n * Base`, wrapped around the
word, then capped. `rand.Int64N` panics when it is not positive; the panic of a caller ends at the server it works
for (`Recover`, net/http's, external). `Heal` is an assumption on the environment: from then on the remote answers
and callers wait for it.

### Setup

`schema` is the version in goose's table. `ApplyScript` is one script with its version row, in one transaction; the
command the operator typed is kept in `asked` and has no influence, as in the code. Scripts 2, 3 and 4 create the tables the
seed needs.

`pc[r]` and `next[r]` are the loop execution `r` of the seed is in and the index of its next `INSERT`; an action
is one `INSERT`, which may also be executed and end the program, when its acknowledgement is lost. The tables are functions
from the ids of their rows. Every id is a fresh `uuid.New`, so the id of a sample row is modelled by the execution
that draws it and the row it is for. That is what makes a repeated seed interesting: `ON CONFLICT (slug) DO UPDATE SET name`
keeps the old row and the old id, while the products of the new execution refer to the new one, and the foreign
key refuses them (`Refuse`). Clients of the API create, delete and re-file categories and sample products
meanwhile; `removed` and `moved` are history. Texts, prices and attributes of the samples are one value.

`Store` maps all this to `CatalogStore`: an id with a row is live or deleted, one without is unused or dropped.
`SampleCategories` and `SampleProducts` are the lists of the program; `ListsOK` says what the theorems need of them.

## Runs

| Run | Shows | Bounds |
|---|---|---|
| `store` | the tables keep references, tree and vectors right under any statements; deletions are final | 2 products, 3 categories and slugs, `MaxViews` 1 |
| `service` | with failures and crashes: the use cases only ever issue whole statements, an answer shows nothing older than its request and tells what the request did, views are accounted for | 2 requests, 1 product with one text and one price, 2 categories and slugs, `MaxViews` 1 |
| `service_liveness` | every request is answered, every view is counted or lost, whichever statements fail | as `service`, 1 slug |
| `lost_update` | **violation**: an update undoes a field of another one | 2 requests |
| `slug_race` | **violation**: a taken slug is answered 500 | 2 requests |
| `listing` | what a walk guarantees when nobody interferes, when rows only enter, wherever in the list, when rows only leave; which single pages are right | 3 products, 2 weights, sizes 1 and 2, pages up to 4 in an `int` up to 3 |
| `favorites_total` | **violation**: the total of `/favorites` counts rows no page shows | as `listing` |
| `search_log` | what is recorded, in which order, under failures, stops and clears; every `query_id` becomes valid or is known lost | 2 searches, 2 users, 1 click |
| `lifecycle` | connections are accounted for and nobody starves; the pool closes last, over nothing that runs; a failed start leaves nothing open; a stop ends | 2 requests, 2 goroutines, 1 connection, 2 statements |
| `breaker` | the breaker's counters, its moves and what it holds back; calls return, and once the remote is up the breaker closes for good; who panics | 3 callers, retries -1, default, 2, limits of 2, durations up to 7 |
| `setup` | what failing and repeated seeds, clients and a half-migrated schema can leave in the tables | 2 executions, 2 categories, 2 products, 1 query, 1 client category, 4 scripts |
| `migrate_down` | **violation**: `migrate down` applies scripts | as `setup` |

Why the bounds are enough to be of interest. Three categories give a chain, a fork and a cycle through an intermediate
node. Every race of the use cases is between two requests; one product and two categories let one request hold a copy,
or the result of a check, that the other one invalidates. Two values of `price` are needed to see a lost update, so
the run about it has them; in `service`, where a row differs by category, state and views, one text and one price
do. Three products give three pages of one item, or a full page of two and a short one, and room for a row that comes
in before, between or behind two others; sizes 0 and 3 are out of range and fall back to the default, which differs
from the maximum. With `MaxInt` 3 and size 2 the offset of page 3 wraps to a negative number, page 3 of size 1 still
fits, and page 4 is no `int`. One connection and two statements per task make every task queue
behind every other one, between its own statements too. Limits of two in the client let a run of results be broken
half-way, and three callers let a late result, a probe and a retry meet; with a base of 2 and durations up to 7 the
second retry overflows. Two executions of the seed, each of which can fail anywhere, give every way one can meet what
another has left; one section with two products lets a set of samples be torn. `MaxViews` bounds how often a product
is asked for, and stands for the range of the BIGINT in `CatalogStore`.

The faults of `lost_update` and `slug_race` lie in the interleaving: both properties hold for one request at a time.
Other answers that are right for one request at a time go wrong in the same way: a product deleted between the read
and the write of an update is answered 200; a category deleted between its check and the insert is answered 500
instead of 404.

Reading the code for the model turned up more that the documents say differently, without a run of its own:
a category whose products are all soft-deleted can never be deleted, and the refusal is a 500, since
`ErrCategoryInUse` is never returned; adding a favorite twice is answered 204, not 409 (`docs/CONTRACT.md:195`);
the `validate` tags of the DTOs are not read by gin, so a missing `name` is stored as the empty text
(`Blank` in the model); `GET /categories` sorts in SQL and then iterates over a Go map, which loses the order;
`README.md:124` names a click route that does not exist.

Three more concern the search log and the lifecycle. Nothing closes the pool or the tracer when `ListenAndServe` fails
(`server.go:79`); `NothingLeftOpen` names this exception. `README.md:123` says searches are recorded "on every non-empty
search"; the goroutine drops its errors, and a stop does not wait for it, so `RecordedInFull` has to except the searches in
`troubled`. And a history row may appear after a clear, when the recording was under way: `ClearedStaysCleared` says
what does hold.

### Fairness

`CatalogService!FairSpec` has weak fairness of each request's next statement and of each view-counting goroutine: the
Go scheduler runs every goroutine, and PostgreSQL answers or fails every statement. The fairness is of `Statement`, without
`StatementFails`: a failure may end a request, but none is counted on to. Nothing is assumed of clients
(`Receive`, `Finish`) or of `Crash`. `SearchLog!FairSpec` has the same for the recording goroutines.
`Lifecycle!FairSpec` adds `RunServer` and `Drain` (the 30 s pass); `Accept`, `Cancel`, `Signal` and `ServeFails` may
never happen. That statements end is an assumption the code does not enforce: no statement has a timeout and
`DB.Close` takes no context, so a query that hangs holds up `StopCompletes` for as long. `HttpClient!FairSpec` has
weak fairness of the steps of `Do` (the request timeout of 30 s bounds the wire, timers fire) and of `CoolDown` (time
passes). It also assumes that callers keep calling (`Call`), and that a panic is recovered (net/http does that for
every request): the breaker only leaves the open state when somebody calls `allow`, so without calls it stays open, by
design. `BreakerRecovers` is about callers that do not cancel: the code records a cancelled context as a failure of
the remote, and impatient callers could reopen the breaker for ever. `Setup` has no fairness: nothing makes an
operator repeat a seed or a migration that failed.

## Proofs

All theorems hold for every value of the constants, under the assumptions named in the modules: `Null`
and `Blank` are not values of a column, there are finitely many categories (`uuid.New` draws from 2^122), `MaxViews` is
a natural number, `Ops` names existing operations, the
limits of the breaker, the base and the cap of the backoff are positive, `NoUser` is no user and `Blank` no query, the
pool has at least one connection, at any time finitely many requests and goroutines are in flight, a table has no more rows
than an `int` can count, and the seed's lists name no slug twice and no section without products (`ProgramListsFit` proves
this of the lists in the program).

**The tables** (`CatalogStoreProofs`). `StoreInv` is the conjunction of type correctness, `ReferentialIntegrity`,
`SlugsUnique`, `Acyclic` and `VectorFresh`. Each part has a lemma that shows it preserved by every statement.
`Acyclic` is the interesting one. It says that every non-empty set of live categories has a member whose parent is
outside the set, which is well-foundedness without recursion. After an insert, take such a set that holds the new
category: either its parent is outside and it is the member looked for, or the rest of the set has, by the
invariant before the step, a member whose parent is outside the rest; by `ReferentialIntegrity` no older category has
the new one as its parent, so that parent is outside the whole set. This is why the two invariants are proved together.
`DeletionIsFinal` follows step by step.

`TreeStaysComplete` is about the recursive queries that walk the tree, `DescendantRounds`, a recursive function. The
library's induction rules cannot be instantiated here, but induction over the naturals can be done with a set: were a claim
false of some number, the set of the numbers it is false of would have a least member (`LeastNatural`). In this way
`RoundsExist` shows that the function is what its equation says, `RoundsChain` that whoever is found in round *k* ends a
chain of *k + 1* live categories, which are different because there is no cycle, and so `RoundsEnd` that the working table
is empty after `Cardinality(Categories)` rounds. That every live category is below a root is `Acyclic` once more,
applied to the set of those that are not; that it is below one root only follows from a parent being one value.

**The use cases** (`CatalogServiceProofs`). Type correctness alone is not inductive: a statement uses the fields of
`call[r]`, so the invariant must say that a request at a statement of an operation carries a call of that operation
(`CallMatches`); and an update writes back columns of its copy, so the copy, and the rows it was read from, must
have no NULL in them (`RowsComplete`, `CopiesComplete`). `ServiceInv` is these four. From it follows that every
step of `CatalogService` is a step of `CatalogStore` or leaves the tables alone (`ServiceImplementsStore`), and with
that refinement everything proved of the tables holds under the use cases, without another proof
(`ServiceKeepsTables`, `ServiceKeepsDeletions`). `ViewsAccounted` needs that no statement but the counting one touches
`view_count`: that is where a wider column list in `ProductRepo.Update` would fail.

The theorems about answers are about `HistorySpec`, which implies `Spec` (`HistoryIsService`). Their invariant is
`Remembered`: the present row of the product a request names is in the memory of the request, and so is the row it
holds a copy of, from the read (`ReadForUpdate`, `GetProduct`) to the answer; that row was not deleted.
`NoAnswerOutOfTime` is that, read off at the answer. `EffectsAreTold` goes through the statements that answer
(`ServeAnswersTruly`). A `DELETE` and an `UPDATE` do not look at the number of rows they have met. Their read found
the row, and no row ever becomes one that never was (`FoundRows`), so one that is not live any more is deleted: a 204
is then true, and a 200 is the one that leaves the tables alone. `RequestsAdvance` and `SettledViewsStay` are
described under "The safety half of liveness" below.

**The client** (`HttpClientProofs`). `MovesOnRuns` relates the code's counters to the history of results. The link is
`RunsCovered`: a closed breaker's `failures` is at most `badRun`, and a half-open one's `probeSuccess` at most
`goodRun`. Late results break equality, which is why the invariant is an inequality. `BackoffPanicsOnOverflowOnly`
rests on `attempt[c] <= maxRetries` wherever the loop has a turn, and on the wrapping being the identity on products
that fit.

**The lists** (`ListingProofs`). Ties are broken anew by every query, so nothing can be said of which rows a page
shows, but the length of a page depends on the number of rows only (`PageLength`). `Undisturbed` says how far a walk
over a list nobody has changed has come: the pages before the present one were full, so `(page - 1) * size` items have
been seen, and that is no more than there are. `TotalPagesBounds` (`total_pages` is the least number of pages that
holds all items) then gives `PagesAlwaysAddUp` for both ways to end a walk, and the invariant also shows that the
offsets of a walk never overflow.

Which rows a walk meets is the subject of `NothingIsSeenTwice`, `NothingIsMissed` and `UntiedAlwaysExactlyOnce`. The
notion they need is the rank of a product (`Rank`, the number of products of the list that precede it). A product that
ties with no other is at position `Rank + 1` of whatever order the database chooses (`UntiedPosition`), so it is on
the page whose range holds that position (`OnThePage`). `WalkInv` relates the ranks of what was seen to `(page - 1) *
size`, once for each property: as long as nothing enters a list by time, ranks only fall, and what was seen keeps a
rank below the present page (`TwiceInv`); as long as nothing leaves it, they only rise, wherever the rows that enter
come in, and what was not seen is not above it (`MissedInv`); in a list nobody changes, both (`OnceInv`). How a write
moves the ranks is `RanksStep`. The lists by time need besides that no two products tie there, which `TablesFit`
gives: `rows` and `favorites` are in the order of `created_at` and hold nobody twice. An insert at any place keeps the
order of the rows that were there (`InsertOrder`), and so does a removal (`RemoveOrder`).

**Setup** (`SetupProofs`). `Progress` says which rows of an execution exist by the loop it is in. `OriginInv` holds the
argument together: a row of the seed that exists, or did, implies that the row it refers to exists, or did, under the id
that *the same execution* drew. Sample products nobody has moved therefore
refer to the id their own execution drew for their section; two such ids in the table would carry one slug, so they are
equal: `SectionsNeverMix`. And an execution whose category was already there fails at the first product of that section,
hence `DoneMeansWhole`. `SeedImplementsStore` takes each `INSERT` and each statement of a client to a
statement of `CatalogStore`, so that the promises of the tables hold in a seeded database too.

**The search log** (`SearchLogProofs`). What the properties say of a search depends on how far its goroutine has come.
`SearchOK` therefore says for each place which rows are there: none of `search_queries` before the first `INSERT`,
none of `search_history` before the second, and no goroutine before the search has succeeded. With it, `history[s]` is
0 whenever the second `INSERT` runs, which is what bounds it by 1. `ClicksStaySound` has an invariant of its own
(`ClickOK`): a click whose product was gone on arrival still finds it gone at the check, because deletions are final.

**The lifecycle** (`LifecycleProofs`). `Progress` says what each place of `RunServer` means for pool and tracer,
`TasksFit` when tasks can be alive: no request past `srv.Shutdown` unless it timed out. A request that finds the pool
closed is alive, so `main` is `closing` or `flushing`, so `srv.Shutdown` had timed out: `StopStaysGraceful`.
`ConnectionsAccounted` turns `inUse = 0`, the condition under which `DB.Close` returns, into "no task holds a
connection": `NothingRunsAfterClose`, the second half of that property. The queue plays no part in this. `TypeInv` adds it
(`QueueFits`: who waits stands in the queue once, and nobody else does), for `LifecycleTypeCorrect`, and for
`QueueIsFirstComeFirstServed`: from step to step a task that waits only moves towards the head, also when one
before it gives up, which takes a place out of the middle.

**The safety half of liveness.** Liveness itself needs fairness and `ENABLED`, which the prover does not do, so the seven
liveness properties stay with TLC. What each of them rests on besides fairness is a fact about single steps, and these
facts are proved, for any number of actors. TLC checked each of them first, on the instance of the run it belongs to.

| Liveness property | What is proved |
|---|---|
| `CallsReturn` | `CallsRunDown`: every step of a call lowers `StepsLeft`, a natural number, and nothing others do to the breaker moves the call or gives it a turn more. A call has at most `5 * maxRetries + 4` steps. The invariant is `LoopInv`: nobody is in the loop of a client with a negative number of retries. |
| `BreakerRecovers` | `HealedBreakerCloses`: once the remote is up and the failures from before are recorded (`Settled`, which stays true), `ToClosed` never grows and every success recorded in half-open lowers it; `HealedStaysClosed`: closed is then for good. |
| `RequestsAreAnswered` | `RequestsAdvance`: every statement of a request lowers `StatementsLeft`, at most three, and nothing but a crash moves it otherwise. |
| `ViewsSettle` | `SettledViewsStay`: `view_count` and lost views together never fall, and every turn of a counting goroutine adds one. It follows from `ViewAccounting` before and after the step. |
| `QueryIdsSettle` | `QueryIdsStayKnown`: an answered `query_id` is recorded, known to be lost, or about to be inserted; `RecordingsRunDown`: the goroutine passes each `INSERT` once and only a stop takes it away. |
| `RequestsEnd` | `WorkRunsDown`: a task has at most three steps for each statement, and nobody gives it more; `QueueIsFirstComeFirstServed`: nobody overtakes it in the queue; `PoolNeverStuck`: as long as there are tasks, some task has its guard true, because the head of the queue finds a connection unless all are held, and a holder needs nothing more. |
| `StopCompletes` | `PoolNeverStuck`: `DB.Close` waits only while a task holds a connection. |

Only model-checked: these liveness properties themselves, and the properties of the documents that the code violates. Every
invariant and every other action property of a passing run is proved.

## What is left

Every component is modelled as far as it keeps or changes state. Worth adding:

1. `Setup` together with the requests of `CatalogService` instead of single statements of clients. By the two
   refinements each may be replaced by a client of `CatalogStore`, so nothing new is expected of the tables.

Not modelled, because it keeps no state or only writes output: the handlers' parsing and binding (a request that does not
bind is answered 400 before any statement), the middleware (request ids, body limit, log lines), the variables of the
configuration other than the DSN and `OTEL_ENABLED`, logging, metrics, the spans of tracing, Swagger (generated). What
PostgreSQL's full-text search and the attribute filters match is outside the model; whether the vector the search uses is
current is inside. Reads that change nothing (history, autocomplete, popular lists) appear only as
statements that need a connection in `Lifecycle`. goose and its schema history are taken as a version number.
