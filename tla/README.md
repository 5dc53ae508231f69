# hydrant: a TLA+ model

hydrant is a publishing store. Source systems push JSON documents over an authenticated ingest API; a
collection schema decides, field by field, what of them is kept; a public, cacheable API serves records,
listings, a change feed for replication, and a manifest for drift detection. Everything is one PostgreSQL
table and a sequence that numbers changes.

This directory models the parts of the service whose correctness depends on the order of things: concurrent
ingest transactions, the positions they publish at, consumers, caches and senders that work between their
statements, requests that share a pool, a clock and a rate limit, credentials that are revoked while they
are used, and the schema that changes under what is stored. `PROJECT.json` maps every definition to the
lines it was translated from.

## 1. The system

| Component | State | Operations | Talks to |
| --- | --- | --- | --- |
| **Record store**, `crates/store` | the table `record` (row, position `seq`, tombstone mark), the sequence `record_seq` | `apply` (a batch in one transaction), `delete` (one statement), `get`, `list`, `changes`, `max_seq`, `manifest`, `digests` | PostgreSQL, through a pool of connections |
| **Ingest API**, `crates/api/src/ingest.rs` | none of its own (secret, limits) | `POST` a batch, `DELETE` a record, manifest and digests for the sender | projection, store, credentials |
| **Public read API**, `public.rs`, `response.rs`, `cache.rs`, `query.rs` | none | record, listing, change feed, manifest, each with a validator (`ETag`) and 304 | store; shared caches and replicating consumers outside |
| **Projection and schemas**, `core/src/{projection,schema}.rs`, `server/src/schemas.rs` | the schemas read at start | validate a schema, project a payload, extract an id | ingest |
| **Filters**, `core/src/filter.rs` | none | parse and coerce `filter[...]` | listing |
| **Hashing**, `core/src/hash.rs` | none | canonical JSON, SHA-256, checksum | store, drift detection |
| **Credentials**, `store/src/token.rs` | table `ingest_token` | mint, look up, revoke | ingest |
| **Rate limits**, `limits.rs` | a bucket per client | check and refill | public API |
| **Metrics and middleware**, `metrics.rs`, `server/src/lib.rs` | counters | count answers, time requests out | all requests |
| **Server lifecycle**, `main.rs`, `config.rs` | configuration | load schemas, connect, migrate, serve, shut down gracefully | all |
| **Identifiers**, `core/src/ident.rs` | none | grammars of names, ids, positions | all |

What is hard here, and where:

* **Positions are drawn in one order and published in another.** `nextval` is evaluated inside a transaction
  and is never rolled back; the row becomes visible at commit. Cursors, validators and the manifest all
  assume that the position tells the order of visibility.
* **Statements of different requests interleave.** An upsert or a delete waits for row locks; a delete that
  waited must look again; two batches may lock in opposite orders.
* **Requests end in more ways than with an answer.** A statement may fail, time out (`statement_timeout`) or
  lose its connection, in particular around `COMMIT`; the request timeout drops the handler in
  mid-transaction and answers 503 while the database may still commit.
* **Reads take several statements** outside a transaction: position, then page; rows, then position.
* **Schemas change at a restart**, what is stored does not; nor do validators know of another byte budget,
  or a waiting client of other limits.
* **A request passes several bounds**: a rate limit whose interval and `Retry-After` are rounded, a pool of
  a few connections, a statement timeout that may be off, a request timeout that is outside of the
  middleware that counts, and a shutdown that waits for it.
* **A credential is looked up before the work it allows**, and may be revoked, or its secret replaced, in
  between.
* **Senders repeat and repair.** What was answered 503 may still happen, after it was sent again; and the
  digests by which a sender finds out are read page by page while others write.
* **Queries are texts**: repeated, missing, unknown, too large; and two of them must not share a validator
  unless they share the answer.

What makes each component correct, as properties of the modules: rows change by whole batches at fresh,
rising positions, and acknowledged writes last (store); a consumer that follows the documented protocol ends
with a copy and skips nothing (listing and feed); a 304 never confirms content that is no longer there
(records, manifest, pages), and every parameter of a query is in force (public API); a walk of the digests
misses and repeats nothing, and a sender that uses it converges (drift detection); only released data is
stored, nothing is lost in silence, and what is read can be pushed back (projection, ingest); writes follow
credentials, and records have their URLs (credentials, identifiers); every request is answered once and
ends, the pool cannot jam, a client that waits as it was told is served, and the process stops when it is
told (limits, metrics, lifecycle). The `hazards` of `PROJECT.json` list, per line, what the properties guard
against, and those that are still without a property.

## 2. The modules

```
AtomicStore  <==refines==  RecordStore  <--  FeedConsumer            (with Paging)
     ^                                  <--  DigestWalk  <--  Sender (with Paging)
     |
 PublicRead  -->  ListQuery  -->  Paging

RateLimit  <--  Service          Access          Schema  <--  Projection  <--  Ingest

RecordStoreProofs  <--  FeedProofs    -->  FeedConsumer          (with PagingProofs)
                   <--  SenderProofs  -->  Sender                (with PagingProofs)
ReadProofs         -->  PublicRead, PagingProofs
ServiceProofs      -->  Service
AccessProofs       -->  Access
IngestProofs       -->  Ingest
```

An arrow is `EXTENDS`, from the module that extends. What a module is built on stays in force: `Sender`'s
store is RecordStore's with all its steps, `Service`'s limiter is RateLimit's. `MC*.tla` instantiate these
for TLC, `MC*.cfg` are the runs.

### RecordStore: the table and the requests that write it

One (source, collection). A *writer* is a database connection serving one ingest request at a time. `table`,
`lastSeq` are the database; `draft`, `locks` are a writer's open transaction; `request`, `outcomes`, `pc`,
`taken`, `seen` are where its handler is; `answer` is what the sender was told; `published` is a history
variable (every position a committed row ever had). Payloads stand for their content hash.

| Code | Actions |
| --- | --- |
| `ingest`, `PostgresStore::apply` | `Begin`, one statement per operation, `SendCommit`, `Commit` |
| `delete_record`, `PostgresStore::delete` | the same with `auto`: one statement that commits itself |
| `write_upsert` | `StartUpsert`, then `UpsertInserts`, `UpsertReplaces` or `UpsertUnchanged` |
| `write_delete` | `DeleteMisses`, or `StartDelete`, then `DeleteTombstones`, `DeleteRechecks` or `DeleteOvertaken` |
| a failing statement, a broken connection, `statement_timeout` | `StoreFails`; `Commit` may also lose its answer |
| the request timeout (`TimeoutLayer`) | `RequestTimesOut`, then `Rollback`, or a `Commit` already under way; a `DELETE` on its way may still run |
| PostgreSQL's deadlock detector | `DeadlockDetected` |

PostgreSQL is external. What is assumed of it is READ COMMITTED as documented:

* `INSERT ... ON CONFLICT` evaluates `DEFAULT nextval(...)` before it looks for the conflict; `DO UPDATE`
  locks the row also when its `WHERE` turns out false, and keeps it locked until the transaction ends.
* `UPDATE` finds rows in the statement's snapshot and computes the new row, `nextval` included, before it
  waits for the row lock. If the row was changed meanwhile, the condition is evaluated again on the new
  version and the new row is computed afresh. A row inserted but not committed by another transaction is not
  in the snapshot and is not waited for.
* `nextval` is outside of transactions. A commit makes all of a transaction's rows visible at once and frees
  its locks; a dropped transaction rolls back before its connection serves another request.

So each SQL statement is two actions, and anything may happen between them.

### AtomicStore: what the store promises

`table` changes only by *publications*: some ids at once, each at a position above its old one that no row
ever had. No statements, locks or sequences. `RecordStore!PublishesAtomically` states that RecordStore
implements it under the identity mapping of `table` and `published`; it is checked and proved.

### Paging and FeedConsumer: listing, feed, replication

`Paging` is `page()`: the record limit, the byte budget, the cursor, as operators on the set of rows.
`FeedConsumer` adds to RecordStore a consumer that does what the API's comments tell consumers to do: it
walks the listing (`ReadListing`), then follows the feed (`ReadChanges`) from the first page's `max_seq`.
Each request is `Ask` (the handler reads `max_seq`, builds the validator and may answer 304, which is
modelled as not asking again) and then the page, with commits in between. When the feed is at its end the
consumer may keep its cursor, or take the page's `max_seq` or the last position it saw as the next one: all
three are legal by the API, so all are explored.

### ListQuery and PublicRead: the public API through a cache

`ListQuery` is what a query string asks for: `limit`, `cursor`, `since`, `filter[...]` and what is none of
these, each at most once and within its width (`u16`, `u64`, and the `bigint` of the database, as
constants). `PublicRead` has the handlers, over AtomicStore: what they rely on of the store is just that,
and RecordStore is shown to implement it. A shared cache asks for one thing at a time and holds the latest
answer.

| Code | Actions |
| --- | --- |
| `get_record` | `GetRecord` (200 or 404) |
| `parse_list_params`, `ChangesQuery`, `Filter::parse` | `Refuse` (400) |
| `list_collection`, `changes`, `manifest` up to their validator | `ReadPosition` |
| `list`, `changes`, `page()` | `ReadPage` (200, or 500 for a cursor that is no `bigint`) |
| `PostgresStore::manifest`, two statements | `CountRows`, `ReadManifest` |
| a restart with another `response_bytes` | `Restart` |
| a commit | `PublishUpTo` (positions up to `MaxSeq`; `InOrder` if they are published in their order) |

A 304 leaves the cache as it is, so it is not a step: `Confirmed` says when the cache would get one, and the
properties speak of it. Count and checksum of a manifest are abstracted to what they are functions of: the
set of live (id, hash) pairs.

### DigestWalk and Sender: drift detection

`DigestWalk` adds to RecordStore a sender's walk of the digests: `StartWalk`, then `ReadDigests` for each
page (one statement, by id, with the clamped limit and the cursor of the last id), with any steps of the
store in between. `Watch` takes down what was served meanwhile, which is what the walk is measured by.

`Sender` is the client for which that API exists. It is external; the model is what the service's comments
ask of it. Its records change (`Edit`), and that they have to be pushed may get lost, which is what drift
is. It makes a batch of what it knows to have changed (`Push`), or has one removed record deleted by itself
(`PushDelete`, the `DELETE` endpoint), sends it (`Send`) on any free connection, and takes the answer
(`TakeAnswer`). What was not a success it sends again, or gives up (`GivenUp`) for what its records ask for
by then; the connection that served it before may be at work still. With nothing to push it walks (`Walk`)
and makes a batch of the differences (`Repair`). `StoreStep` is any step of RecordStore's for a connection;
at most `MaxFaults` failures are told to the sender.

History variables say what the sender may count on: `acked` is what it was last told is stored of each
record, `racing` the connections that were still at work (`StillAtWork`: on a `DELETE`, or on a batch whose
`COMMIT` was sent) when it sent what it is waiting for, and `doubts` what requests without an answer may
make of each record. `LatestAcknowledgedIsServed` says that what is served is `acked`, or in doubt, or being
pushed. After an acknowledgement the doubts of a record are those of `Undoing`, the only two ways in which
the service breaks an acknowledgement it has given:

* *A late `DELETE` after an upsert.* A sender deletes a record and is answered 503. The single statement is
  outside of any transaction, so nothing takes it back, and it may wait in the database or on its way there.
  The sender repeats the `DELETE`, which is acknowledged, pushes the record again, which is acknowledged
  too; then the first statement runs and takes the record away.
* *A late `COMMIT` after a delete.* A sender pushes a new record and is answered 503 while the `COMMIT` is on
  its way. It gives the push up and deletes the record. The delete does not see the uncommitted row, waits
  for nothing and is acknowledged as `unchanged`; then the commit is carried out and the record is live.

Nothing else does it: no batch that was given up before its `COMMIT` was sent, no `COMMIT` after an upsert
(the upsert waits for its row locks), no `DELETE` after a delete, and no repetition or failure of the request
itself. A walk of the digests repairs both (`SenderConverges`).

### RateLimit and Service: the assembled process

`RateLimit` is one bucket per client and budget, with time in ticks (a millisecond in the code). The
governor crate is external and modelled as the bucket it documents; the code's are the rounding of the
interval, the refusal with `Retry-After`, and the check at start. `Service` composes it with the middleware,
the pool, the timeouts and the lifecycle:

| Code | Actions |
| --- | --- |
| `main`, `Config::load`, `Limiter` set up | `Start`, `StartFails` |
| the limiter's layer | `TurnAway` (429), or `TakeIn` |
| the health check | `ServeAtOnce` |
| the pool, `statement_timeout` | `Acquire`, `NextStatement`, `NextGroup` (the connection goes back), `Finish`, `Fail`, `NoConnection`, `Recover` |
| `TimeoutLayer`, a client that closes its connection | `TimeOut`, `GoAway`: the handler is dropped, its statement runs on |
| `shutdown_signal`, graceful shutdown | `Terminate`, `Stop` |

A request is the budget it is counted under and its `plan`: the numbers of statements it sends on one
connection at a time. `Tick` is time, for all of it. The order of the layers is the order of the code: a
layer added later is further out, so what the timeout answers does not pass the counting middleware.

### Access: routes, ids, credentials

`Handler` is the router with its precedence of literal segments; a path is a sequence of segments, and which
names and ids are well formed is a set. The operator mints, revokes and changes the secret (`Mint`,
`Revoke`, `Rotate`); a sender's request is `Send`, `Authenticate` (look-up by token and secret) and `Apply`
or `Fail`, with the operator's steps and a `Restart` in between. A restart ends the requests in flight, but
a write whose statement or `COMMIT` was sent before may outlive it (phase `sent`) and be carried out after
(`Land`). Statements of the store are one step here.

### Schema, Projection, Ingest: the way of a document

JSON values are records (`kind`, and `is`, `fields` or `items`). `Schema` has the field specifications,
their validation (`WellFormed`, `Accepted`) and id paths (`Resolve`). `Projection` is `project()`: what is
kept of a value, and the drops with path and reason. `Ingest` is the batch handler as a state machine over
the schema the service runs with (`schema`, `running`), the live records with their history (`records`: the
stored payload, beside what was received, what was reported dropped, and the schema it was pushed under) and
the latest `answer`. `Post` prepares every envelope in order and calls the store once none was refused;
`Restart` is a start with another schema, which may be refused, and leaves what is stored alone. Here a
batch is applied in one step; how that comes about is RecordStore's business. `Coerce`, `FilterAccepted` and
`Listed` are the filters of a listing.

Which JSON values and which specifications there are is a parameter: `Json` and `Specs`, sets of which
nothing is assumed but that the parts of a member are members and less deep (`Depth`, `SpecDepth`,
`JsonAssumption`, `SpecAssumption`), and that what is left of a value is a value (`ProjectionAssumption`),
as it is for all of JSON. So `project_value`, `FieldSpec::validate` and what the properties measure
(`Releases`, `Narrower`, `Size`, `Without`) are recursive functions on these sets: TLC evaluates them, and they can be
proved about. `MCIngest` takes for `Json` the documents, all that may be left of them and all inside.

Abstracted: the canonical form and its length (a size counts the values a document is made of), the texts of
numbers (one text per number), and drop paths, which the code writes as dotted text. Text paths of keys that
contain dots are ambiguous in the code; the model has no such keys.

## 3. The runs

| Run | Instance | Shows |
| --- | --- | --- |
| `record_store` | 3 connections (symmetric), 2 ids, 3 requests out of 6 kinds | `PositionsUnique`, `BatchIsWhole`, `AnsweredIsDurable`, `RowsMoveForward`, `BatchTakesEffect`, and that RecordStore implements AtomicStore (`PublishesAtomically`), under all interleavings, failures, deadlocks and timeouts |
| `digest_walk` | 2 connections, 3 ids, pages of one, crossing batches, 2 requests | `WalkIsExact`, `WalkEnds`; and `RequestsEnd`: locks are handed on, deadlocks are resolved, no timeout is needed |
| `sender` | 2 connections, 2 ids, 2 edits, 1 failure, batches and single deletes, as many requests as that takes | `LatestAcknowledgedIsServed`, `SenderConverges` |
| `feed` | 1 connection, 3 requests, pages of at most 2 records, a document larger than the byte budget | `NothingBehindCursor`, `CursorMovesForward`, `ReplicaConverges` |
| `public_read` | 2 ids, 3 positions in order, 17 queries, 2 byte budgets, a record with the tombstone's payload | `ItemContentIsCurrent`, `StaleManifestIsRefused`, `ConfirmedPageIsExact`, `ValidatorsTellApart`, `QueriesAreAnsweredAsAsked` |
| `ingest` | 8 schemas (6 usable), documents with two keys nested up to four levels, batches of up to 3 | see below |
| `surface` | 2 tokens, secrets and labels, 1 sender, 8 requests, names and ids that are literal segments | `RecordsHaveTheirUrls`, `WritesFollowCredentials`, `RevocationTakesEffect` |
| `service` | 1 client, 2 requests in flight, 1 connection, a second of 3 ticks, 4 routes, 6 configurations (2 usable), 3 requests per run, 2 starts | `RetryAfterIsEnough`, `PoolCannotJam`, `EveryRequestIsAnswered`, `ShutdownCompletes`, `EveryRequestEnds` |
| `feed_commit_order` | 2 connections, one upsert each | violation: finding 1 |
| `manifest_torn` | as `public_read` | violation: finding 2 |
| `schema_withdrawn` | as `ingest` | violation: finding 3 |
| `uncounted_timeout` | as `service`, smaller | violation: finding 4 |

Each passing run also checks the type invariant of its module (`digest_walk` leaves it to `sender`).

`ingest` checks that what is stored is released by the schema it was pushed under at every depth
(`OnlyReleasedIsStored`); that the stored document is the received one without exactly the parts at the
reported paths, by its own keys and array indexes, and that these paths lead to parts of it, none twice and
none inside another (`NothingIsDroppedSilently`); that a document that was read can be pushed back without a drop
or a refusal (`ReadsBackUnchanged`); that projecting what is stored through a narrower schema gives what the
sender would get by pushing the original (`ReprojectionNeedsNoSender`); and that a filter finds the records
whose *pushed* document had the value (`FiltersSeeWhatWasPushed`). `Without` is a definition of its own and
knows nothing of specifications: it takes the parts at given paths out of a value. That a refused batch
stores nothing is not among the properties: the handler prepares every envelope before it calls the store,
and `Post` has it that way, so it holds by construction. What a batch that was not refused does as a whole is
`BatchIsWhole`.

### Bounds, and why they are enough

* **`record_store`**: conflicts are between rows of one id; a deadlock needs two ids and two transactions;
  the third transaction is there for the ones that wait behind a waiter, and for a row that is changed twice
  while a delete waits. `MixedRequests` include one id twice in a batch, the empty batch, the empty document
  (the payload of a tombstone) and the `DELETE` endpoint.
* **One connection in `feed`, positions in order in `public_read`.** This is not a convenience: with two
  connections the properties fail (finding 1). Reads still interleave with every statement and failure of
  the writer. The passing runs say what holds where positions are published in order, and
  `OneWriterPublishesInOrder` proves that a store whose requests follow one another on a single connection
  publishes that way. That is more than having one sender that waits for its answers: a `COMMIT` it has no
  answer to is still at work on its connection when its next request is served by another one.
* **Pages** of two records, a budget that one document exceeds and two small ones meet: pages that are
  exactly full, cut by bytes, and of a single oversized record all occur. In `public_read` the budget
  changes between one (0, clamped) and three (9, clamped). The queries give each number missing, repeated,
  zero, above the clamp, above its width and as no number.
* **`digest_walk`**: the limit asked for is 0, so that the clamp makes pages of one: with three ids there is
  one behind the cursor, one at it and one ahead. Two requests are enough for a commit that changes ids on
  both sides of it.
* **`sender`**: two edits are a change that is pushed and one that is lost track of, or a record that is
  deleted and then pushed again; both records are there at first and have to be pushed. An edit changes one
  record; batches of two come from two edits, the first push and repairs. One failure is what makes two
  requests for the same batch or for different ones, the abandoned one included, as a second connection has
  it. `MaxRequests` is above what these come to, so it never keeps the sender from going on. That the walk
  is repeated until all agree does not depend on more.
* **`service`**: two requests and one connection are the smallest pool that is exhausted; a second of three
  ticks has intervals that are whole, parts of a second, and rounded (a rate of 4 is above its resolution, 2
  does not divide it). A client's wait spans a restart, which takes two starts.
* **`surface`**: of everything two, so that one can be revoked, outlived or rotated away while the other is
  good.
* **Documents** have every combination of a declared and an undeclared key, a fitting and a misfitting
  value, below an object and below an array; schemas widen, narrow and retype each other, and two are not
  acceptable (a wildcard below the top level, a filter on a field without an index). `MaxSize` separates
  documents that fit only after projection from those that fit as they are.

The bounds that appear in guards are constants that say so: `MaxRequests`, `MaxSeq`, `MaxEdits`,
`MaxFaults`, `MaxStarts`. When all requests were served the store stutters (`Quiescent`), the service when
all starts were made (`Over`), so deadlock is checked in every run.

### Fairness

* **The store** (`WalkSpec`, `ConsumerSpec`, `SenderSpec`): weak fairness, per connection, of `Advance` (the
  database ends the statements it was given once their lock is free, and the handler issues the next), and
  where requests meet also of `DeadlockDetected` (PostgreSQL always runs its detector). It is enough, as a
  statement that can get its lock is not disabled by other writers for ever within a bounded number of
  requests. A sender's batches of two ids lock in one order, and its single deletes hold no lock while they
  wait for one, so `SenderSpec` needs no detector.
* **Clients that keep asking**: consumer (`ConsumerStep`), walk (`ReadDigests`), sender (`Push`, `Walk`,
  `Repair`, `Send`, `TakeAnswer`).
* **`FairServiceSpec`**: time goes on (`Tick`), the timer of each request fires (`TimeOut`), and a process
  that may exit does (`Stop`). A statement ends only where `statement_timeout` makes it (`Limited`): with 0
  nothing is assumed, and the properties still hold, because of the request timeout. A client of the pool is
  never assumed to get a connection.
* **`AccessSpec`**: a request that arrived is looked up and applied (`Authenticate`, `Apply`), and a statement
  that outlives the service ends (`Land`).

Nothing is assumed of failures, timeouts of requests in the store, edits, or the operator: progress must not
depend on them, and they may happen at any time.

## 4. Findings

Each is a `violation` run. In short:

1. **`feed_commit_order`**: of two concurrent batches the one with the lower position may commit last. A
   consumer that saw the higher one has its cursor past the other and never gets it, although the feed is
   documented as "every change after `?since=`". By the same order of commits the content changes while
   `max_seq` does not, so the validators of manifest and pages, made from it, confirm old ones until the
   next change.
2. **`manifest_torn`**: rows and position of a manifest are two statements; a commit in between makes it
   report a position its content is not at.
3. **`schema_withdrawn`**: records stored under a wider schema are served as they are after a restart with a
   narrower one; the `reproject` command the contributor guide lists is not in the repository.
4. **`uncounted_timeout`**: the counting middleware is meant to be outermost, and to see the timeout's 503;
   it is the innermost layer, and a timeout drops it before it counts.

Further differences between comments and code, which the models have as the code does it and no run is spent
on:

* an upsert that changes nothing does consume a value of `record_seq`, where `store/src/record.rs:78` and
  `:254` say that it does not; the feed only gets gaps;
* a record's validator is its content hash, its body also has `seq`: after a delete and a push of the same
  payload a 304 confirms the old position (`api/src/response.rs:19`);
* a `limit` above the maximum is clamped, but one above 65535 is a 400 (`store/src/record.rs:96`);
* "a query should give up before the request does" (`server/src/config.rs:76`) does not hold of a request
  that sends several statements, waits for the pool, or runs without a statement timeout;
* "an identical payload advances no `seq` [...], which is what lets a sender retry blindly"
  (`store/src/lib.rs:6`) and "Deleting twice is not an error, so a sender's retry costs nothing"
  (`store/src/record.rs:278`) are true of retries that are served one after the other; a request that was
  answered 503 may run after its retry, and after what was sent next, in the two ways of section 2 (Sender).
  `LatestAcknowledgedIsServed` states both as its exceptions;
* records whose id is `changes` or `manifest` have no URL to be read at, which `api/src/lib.rs:41` says;
  `digests` has none to be deleted at, and the source `ingest` none to be listed at, which it does not.

## 5. The proofs

Each theorem is for any ids, payloads, connections, requests, limits, budgets, routes and configurations.
The assumptions are those of the modules, named there and evaluated by every run: constants have their
types, and where a maximum or a count is taken the set is finite (`Ids` of a table, `Slots`). What a theorem
needs beyond that is in its statement: a single connection (`OneWriter`) or positions in order (`InOrder`).
No theorem uses fairness.

| Module | Theorem | Establishes |
| --- | --- | --- |
| RecordStoreProofs | `TypeCorrect` | `[]TypeOK` |
| | `PositionsAreUnique` | `[]PositionsUnique`: the unique index on `seq` never refuses a write |
| | `FeedMovesForward` | `RowsMoveForward`, an action property |
| | `RefinesAtomicStore` | `PublishesAtomically`: RecordStore implements AtomicStore |
| | `AcknowledgedWritesLast` | `[]AnsweredIsDurable` |
| | `BatchesAreWhole` | `[]BatchIsWhole`: a batch is published as a whole or not at all, however its request ended |
| | `AcknowledgedBatchesTakeEffect` | `BatchTakesEffect`, an action property: at the commit that is acknowledged each id has what its last operation asked for |
| PagingProofs | `PageLosesNothing` | a page is the first of what matches, within the limit, empty only if nothing matches, and its cursor is its end |
| FeedProofs | `OneWriterPublishesInOrder` | one connection publishes in the order of positions |
| | `ConsumerTypeCorrect` | `[]ConsumerTypeOK` |
| | `CursorGoesForward` | `CursorMovesForward`, with any number of connections |
| | `NothingIsSkipped` | `[]NothingBehindCursor`, with one connection |
| SenderProofs | `WalksAreExact` | `[]WalkIsExact` |
| | `AcknowledgedIsServed` | `[]LatestAcknowledgedIsServed`: no request undoes what was acknowledged, but a late `DELETE` after an upsert and a late `COMMIT` after a delete |
| | `SenderTypeCorrect` | `[]SenderTypeOK` |
| ReadProofs | `ReadersTypeCorrect` | `[]ReadersTypeOK` |
| | `RecordsAreConfirmedRightly` | `[]ItemContentIsCurrent`, in whatever order positions are published |
| | `ManifestsAreConfirmedRightly` | `[]StaleManifestIsRefused`, positions in order |
| | `PagesAreConfirmedRightly` | `[]ConfirmedPageIsExact`, positions in order |
| | `ValidatorsAreSufficient` | `[]ValidatorsTellApart` |
| | `QueriesAreObeyed` | `[]QueriesAreAnsweredAsAsked` |
| ServiceProofs | `RetryAfterSuffices` | `[]RetryAfterIsEnough` of the limiter |
| | `RateIsKept` | the rounded interval never gives less than the rate, nor twice as much |
| | `ServiceLimits` | the service implements the limiter: `ServiceSpec => RateSpec` |
| | `ServiceTypeCorrect` | `[]ServiceTypeOK` |
| | `PoolIsNeverJammed` | `[]PoolCannotJam` |
| | `EveryRequestIsAccountedFor` | `[]EveryRequestIsAnswered` |
| AccessProofs | `AccessTypeCorrect` | `[]AccessTypeOK` |
| | `UrlsReachRecords` | `[]RecordsHaveTheirUrls`, for any names and ids |
| | `WritesNeedCredentials` | `WritesFollowCredentials`, an action property |
| IngestProofs | `IngestInvariant` | every record is the projection of what was received |
| | `IngestTypeCorrect` | `[]IngestTypeOK` |
| | `StoredIsReleased` | `[]OnlyReleasedIsStored` |
| | `DropsAccountForAll` | `[]NothingIsDroppedSilently` |
| | `StoredIsStable` | `[]ReadsBackUnchanged` |
| | `ReprojectionIsEnough` | `[]ReprojectionNeedsNoSender` |
| | `FiltersAreExact` | `[]FiltersSeeWhatWasPushed` |
| | `OutcomeAccounts` | what projection keeps of any value is the value without the parts at the paths it reports, which are parts of it and none inside another |
| | `ReprojectionIsDirect` | projecting under a wide and then a narrower specification is projecting under the narrower |

**The inductive invariant** `IInv` of `RecordStoreProofs` is `TypeInv /\ PositionInv`. `TypeOK` alone is not
inductive: `TypeInv` adds that a statement in progress is the next operation of its request and holds a
value it drew (`StatementInv`). `PositionInv` says, in named parts, that row locks are exclusive and cover
every draft (`LockInv`), that no position is beyond `lastSeq` (`Drawn`), that the positions of rows, drafts
and statements in progress are all different (`CommittedDistinct`, `DraftsFresh`, `DraftsDistinct`,
`TakenFresh`), that a delete which finds its row unchanged drew its value after the row got its position
(`SeenOlder`), and that tombstones are empty (`TombstonesEmpty`). `SeenOlder` is the heart of
`RowsMoveForward`: a delete's position is drawn before its lock, and is above the row's only because the row
is still the version that was found; for a changed row the statement starts over.

The step is proved per action: the statements that start, those that write, those that leave the row alone,
the handler, `Commit`, `Abort`. `OnlyCommitsPublish` (every other step leaves `table` and `published`) and
`CommitPublishes` give `FeedMovesForward` and the refinement.

**Durability** needs a second invariant, `OutcomeInv`, relative to `IInv`: outcomes do not exceed the
request (`OutcomesWithinRequest`), a request in progress has no success to report (`UnansweredInv`), a
statement's value is above all its transaction's drafts (`DraftsOlder`), and every outcome so far is in the
drafts, at its position or a later operation's (`OutcomesDrafted`). `Commit` turns the latter into
`AnsweredIsDurable`, and `FeedMovesForward`'s argument keeps it.

**Wholeness** adds `WholeInv`: the positions in a request's outcomes were drawn for it alone and are not
published while it is in progress (`OutcomesOwn`), the draft of an id is the row of the last operation that
wrote it (`LastDrafted`), and COMMIT is only sent when every operation went through (`CommitComplete`).
`Commit` publishes exactly the drafts, so all of a request's last writes at once, and by `OutcomesOwn` no
other request's; `Abort` publishes nothing and forgets the drafts, and the positions are never drawn again.

**Effect** adds `EffectInv`: of a transaction in progress, the last operation of each id sees the row it
asked for, in its draft, or in the table with the row lock in its hands. The lock is what an upsert takes
that finds its payload there and writes nothing; without it another commit could change the row before the
batch is acknowledged. A batch may have an id more than once, so only the last operation of each counts.

**Pages** (PagingProofs) are sets and counts, so the lemmas go by cardinality: the candidates are the first
of what matches (`Cardinality` of what is below them), a prefix within the budget or a single record is the
page, and its greatest position separates it from the rest.

**Consumers** (FeedProofs). `OrderInv` says that what a transaction holds, drafts and a value it drew, is
above everything published; with one connection every step keeps it, and `Commit` publishes in order. On top
of it, `ReadOrAhead` (what the walk of the listing read is what is stored, or the row moved beyond the
position the feed will be resumed from) and `WalkedSoFar` (the live rows up to the cursor were read) carry
the listing to the feed; each response keeps them by `PageLosesNothing`, and each commit by `OrderInv`.

**Caches** (ReadProofs). `Dated` says of a validator that its position is at most `max_seq`, and that while
it is `max_seq` what it was built for is current; `CachedInv` and `ReadingInv` say so of the answer held and
of the one in flight. Publication in order (`InOrder`) is what turns "the same `max_seq`" into "nothing was
published"; records need none of it, as their validator is the content.

**Walks** (SenderProofs). `WalkInv` adds to `WalkIsExact` that an id up to the cursor is found as it was
at some time since the walk began, and one ahead is not found yet (`PassedOrAhead`). A page passes exactly
the ids up to its cursor, whatever is live, because ids do not move.

**The sender** (SenderProofs). The invariant `SenderInv` is relative to those of the store, to which
`DraftInv` adds that a `DELETE` works alone and that every draft is what an operation of its request asked
for. A batch has no id twice (`BatchShape`); the sender waits for one request, with what it is pushing, and
any other in progress is abandoned, and among `racing` if it may still take effect (`ServingShape`). The
heart is `LateIsPossible`: a request that may still take effect, whoever sent it when, does nothing that is
not among what the sender was told, doubts or is pushing. When it gives a request up that is so by `GivenUp`;
when another request is acknowledged, it is so because what raced with that was taken down when it was sent
(`racing`), and because an upsert that went through had the row lock, so no late batch still holds a draft of
its record (`DoneIsServed`), while a delete that found nothing held none (`MissedIsServed`). `Commit` is then
harmless whichever connection it is on, and all other steps of the store leave the table alone.

**The service** (ServiceProofs). The limiter's `RateInv` has besides types that what a refused client waits
is bounded by what it was told (`HintIsEnough`) and that a bucket never owes more than it holds
(`BucketHolds`). Types with `FlowInv` (a request in flight has a statement to send) are inductive for the
service; `PoolCannotJam` is inductive relative to them; and the accounting counts the slots in flight with
the library's cardinality theorems.

**Credentials and URLs** (AccessProofs). The types need those of the requests in flight (`AccessInv`): an
authenticated request has a source that is a name, what is stored was checked to be an id, and so was what
outlives a restart. A source gets
a writer only from `Authenticate`, which wants a credential that is in force at that moment
(`AuthenticatedWhereOpen`), and its records change only by `Apply` and `Land`, of a writer of that source
(`ApplyWritesOwn`). The URLs go by the router's rule: of the patterns that match a record's path the one that
is chosen is computed, for any name and id that is none of the literals that shadow it.

**Documents** (IngestProofs). The invariant `IngestInv` says that every row is `RowOf(by, received)`, the
projection of the document it came from under a schema that was accepted then, and within `MaxSize`; batches
and restarts keep it, a batch by induction over its operations. Everything else the properties say of a
record is then a fact about `project()`, for values of any depth:

* `KeptIsReleased`: what is kept its specification releases;
* `ReleasedIsKept`: what is released is kept as it is, with no drop, so that with the former projection is
  idempotent;
* `ReprojectionIsDirect`: two projections in turn are the narrower one;
* `OutcomeAccounts`: what is kept is the value without the parts at the paths of its drops.

Each is proved by induction over `Depth`. The library's induction theorems take an operator as a parameter,
which the provers cannot instantiate; here the induction is over the *set* of numbers for which the claim
holds (`Induction`, `RankInduction`), and that a recursive function is what its definition says follows from
`Recursion`: a definition that looks only at arguments of a lower rank has a function that satisfies it,
built level by level. The same way the folds of the community modules are unfolded: a sum over a finite set is taken step by step
(`SumStep`), and flattening a sequence of values that may be absent keeps those that are there in
their order (`Compacts`, `Positions`, `FlattenOfFlatten`). `OutcomeAccounts` is the hard one: the drops of
the parts are put under the part's key or index, so that the paths through a part are the part's own
(`ReportedOfParts`), and a part is without them what is left of it by induction (`ObjectAccounts`,
`ArrayAccounts`); two paths of which one is a prefix of the other start with the same step, so that they are
paths of one part (`CompositeDrops`).

**Only model-checked.** Liveness, which is out of the prover's reach: `RequestsEnd`, `WalkEnds`,
`SenderConverges`, `ReplicaConverges`, `ShutdownCompletes`, `EveryRequestEnds`, `RevocationTakesEffect`.
Every invariant and action property of a passing run is proved.

## 6. Not modelled

* **Conversions of text**: canonical JSON, SHA-256 and HMAC (payloads stand for their hashes, a stored
  credential is the pair of token and secret), identifier grammars character by character with dot segments
  and percent-decoding, schema file syntax, the list form of `If-None-Match`. With it go collisions of the
  16-digit fingerprint of a filter, which `ValidatorsTellApart` takes for the filter.
* **Widths of numbers in documents and filters**: a number is one of a few; that integers above `i64` become
  floats is a hazard without a property.
* **Counters of the ingest handler** (drops, records), the histogram of durations, the path label: no
  comment says what they must be when a batch is refused.
* **The limit on the size of a request's body**: one more refusal.
* **More than one source or collection** in RecordStore. `record_seq` is shared by all, which only adds gaps
  to the positions; the failures and timeouts of the model already do.
* **Cache directives, compression, CORS, tracing**: no state.

## 7. Plan

Done, in this order: RecordStore, AtomicStore, Paging, FeedConsumer, PublicRead; the proofs about the store;
Schema, Projection, Ingest; DigestWalk and Sender; ListQuery and the pages of PublicRead; RateLimit and
Service; Access; and the proofs about pages, consumers, caches, walks, the sender, the service,
access and documents. What could follow:

1. a composition of Access and Ingest with RecordStore, in which the batch that was authenticated is the
   transaction that is applied, with the refinements that make it one;
2. a proof that the sender's repair, once a walk has found no difference, has nothing left to do;
3. the counters of the ingest handler, once it is said what they count;
4. numbers with their widths in documents and filters.
