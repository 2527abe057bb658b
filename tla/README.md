# Formal model of breezeorm

TLA+ modules, TLC configurations and TLAPS proofs for the concurrent core of
breezeorm, a Go ORM: its resource cache, its statement executor, its
transactions with nested savepoints, its batch insert, and the compile pipeline
with the plan caches that let calls share compiled queries, its terminal
operations with the connections they hold, its metadata registry, and its
migrations. Line numbers refer to the sources of the repository; `PROJECT.json` maps every definition to the
lines it models.

Contents: [1 Inventory](#1-inventory) · [2 Plan](#2-plan) ·
[3 Modules](#3-modules-and-how-they-correspond-to-the-code) ·
[4 Runs](#4-runs) · [5 Bounds](#5-bounds) · [6 Fairness](#6-fairness) ·
[7 Proofs](#7-proofs) · [8 Divergences](#8-where-code-and-documentation-disagree) ·
[9 Limits](#9-what-is-not-modelled)

## 1 Inventory

### How a call travels

`orm.Query.Find` (and every other terminal) takes a `query.Builder` value,
hashes it (`compiler.PreHash`), gets a compiled query of that shape from
`db.compiledCache` or runs `compiler.Compile` (planner, plugins, optimizer,
structural hash), renders SQL once per compiled query, collects the arguments of
its *own* builder, and hands both to the `execution.Executor`. The executor gets
a prepared statement from its statement cache (single flight per SQL text), runs
it with a timeout, and retries transient failures. Rows are scanned with a plan
from `db.scanPlanCache`. `CreateBatch` runs its chunks as the body of a
`transaction.Run`, which retries the whole transaction and nests through
savepoints. Everything shared between goroutines is one of the caches, the
`*sql.DB` pool, or the metadata registry.

### Components

| component | state | operations | talks to | hard behaviour | correct when |
|---|---|---|---|---|---|
| LRU cache `pkg/cache/lru.go` | `items`, `ll`, entries, `inflight`, one mutex | `Get`, `GetNoTouch`, `GetOrCompute`, `GetOrComputeNoTouch`, `Set`, `Delete`, `Purge`, `Len`, `Stats` | `compute` and `onEvict` callbacks, outside the lock | state read before an unlock and used after it; panics in a callback; waiters without a timeout | map and list agree, bounded, one flight per key, each resource released at most once and none lost, waiters woken |
| Sharded cache `sharded.go` | shards, mask | as LRU | LRU | sizing arithmetic | the sum of the shards respects the capacity, the mask names every shard |
| Copy-on-write cache `cache.go` | atomic map | `Get`, `Set`, `GetOrCompute`, `Delete` | nothing: no package uses it | copy and swap | no lost update |
| Executor `pkg/execution` | statement cache, retry policy, timeout | `Query`, `Exec`, `QueryCursor`, `Stats`, `Close` | LRU, `database/sql` | a statement used after the lock that guarded it; retry of a write; the leader's context decides for all | a write applied at most once, right statement, nothing leaked, calls end |
| Transactions `pkg/transaction` | `Tx` with a depth counter per Run | `Run`, nested `Run` | `database/sql`, `fn` | retries, panics, contexts that end at any statement, savepoint names used again | rollback hits its own savepoint, at most one commit, no open transaction left |
| CreateBatch `pkg/orm/query.go:335` | a running total | one | transaction, executor, pool | two resources taken in sequence; a body that is retried | complete on success, returns, a Run |
| Bulk insert `pkg/execution/batch.go` | none | `GenerateBulkInsert` | dialects | none | rectangular rows |
| Query terminals, DB `pkg/orm` | two caches, `pluginsCacheSafe` | `Find`, `First`, `Count`, `Create`, `UpdateAll`, `Delete`, … | metadata, compiler, executor, scanner, plugins | results of one call used by another; a connection held between executor and scanner; results that end early | each call runs its own query, gives its connection back, and returns all of the result or an error |
| Query builder `pkg/query` | a value with slices | `Where`, `Join`, … | planner, PreHash | aliasing of backing arrays | a branch never changes another |
| Hashing, compile `pkg/compiler` | lazily rendered SQL | `PreHash`, `Compile`, `SQL` | planner, optimizer, sqlgen | the key leaves something out | equal key ⇒ shareable plan |
| Planner `pkg/planner` | none | `Build`, `PlanPhysical` | optimizer | none | the plan says what the builder says |
| Optimizer `pkg/optimizer` | none | passes of `DefaultPipeline` | compiler | moves predicates that bind arguments | meaning and argument order kept |
| SQL generation `pkg/sqlgen` | none | `GenerateSQL`, `ExtractArgsFromBuilder` | dialects | two traversals that must agree | placeholder *i* gets argument *i* |
| Scanner `pkg/scanner` | plans, registry | `Compile`, `ScanOne`, `ScanAllHint`, … | metadata | plan shared by a key; rows closed on every path | plan fits the columns, a part is never returned as the whole |
| Metadata `pkg/metadata` | a map behind an atomic pointer, a mutex, `sync.Once` per type | `Compile` | the model's `TableName` | first use by many, copies of one map, a panic inside the Once | one table per type, reflected on once |
| Migrations `pkg/migrations` | version table | `Up`, `Down`, `Diff` | `database/sql`, the user's migrations | several processes with different builds, crashes, lock waits, lost answers | each migration once, in order, version table true |
| Plugins, hooks `pkg/plugins`, `pkg/hooks` | chain | `IsCacheSafe`, `BeforePlan`, `BeforeExecute`, `AfterExecute`, … | compiler, orm | a plan that depends on the request; an observer that fails or panics | never shared; each statement observed once |
| Relations, validation, pools, driver, dialects, xtypes | little or none | | | none that is concurrent | |
| Benchmark, examples | | | | | |

The status of each, and the reason where one is not modelled, is in
`PROJECT.json` (`components`); every place where this code is hard to test, with
the properties that watch it, is there too (`hazards`).

## 2 Plan

Order of work, most important behaviour first:

1. **LRU** and its abstract specification **ResourceCache** — every shared object
   of the system lives in one. *Done, with proofs.*
2. **Executor** on top of LRU. *Done, with proofs.*
3. **Transaction**. *Done, with proofs.*
4. **CreateBatch**, shown to implement Transaction per goroutine. *Done, with proofs.*
5. **QueryPlan** (the pipeline as functions), **PlanCache** (who shares what with
   whom), composed in **MCPlanCache**. *Done, PlanCache with proofs.*
6. **Migrations**: several processes on one version table, a crash between any
   two steps. *Done, with proofs.*
7. **Metadata** (the registry and its Once) and **Terminals** on top of it (what
   happens to the rows and the connection of a call, and what the plugins hear).
   *Done, with proofs.*
8. **Builder** (backing arrays and capacities) and **Sharded** (the sizing
   arithmetic, joined to the LRU in **MCLRU**). *Done; MCLRU and Sharded with proofs,
   Builder, whose run ends in a counterexample, without.*

Composition: Executor EXTENDS LRU and drives its actions; Terminals EXTENDS Metadata
in the same way; CreateBatch instantiates Transaction once per goroutine through a
refinement mapping; MCPlanCache gives the operator parameters of PlanCache the
functions of QueryPlan; MCLRU looks at the LRU as one shard of the caches Sharded
makes. Abstract specifications: ResourceCache (of LRU), Transaction (of
CreateBatch), and `Asks` — what a builder says — of the whole pipeline.

Every safety property of a passing run is a theorem now, and both refinements are. What is left to prove is reach: the two hypotheses of PlanCache's
theorems for classes of builders rather than a list (as far as they need no induction
over expressions), and facts about the parts still left out (section 9).

## 3 Modules and how they correspond to the code

### LRU — `pkg/cache/lru.go`

The grain is the critical section: what runs under one `Lock`/`Unlock` pair is one
action, and any goroutine may run between two. `GetOrCompute` is thus `HitTouch`,
`Join` or `Lead` (first section), `ComputeOk` / `ComputeFails` (the unlocked
`compute`, returning an error or panicking), `Install` (second section: install,
forget the inflight call, `close(done)`), then one `Evict` per `onEvict` call.
`GetOrComputeNoTouch` has its read-locked fast path and `SlowPath`, which looks again.
`Get` reads the entry's value after its unlock (`ReadValue`), as the code does.

| variable | code |
|---|---|
| `items`, `ll`, `ent`, `inflight` | `c.items`, `c.ll`, `*entry`, `c.inflight` |
| `pc`, `key`, `elem`, `res`, `todo` | a goroutine's place and locals |
| `born`, `released`, `dropped` | history: what a value was produced for and became of |

A value is a resource: each successful `compute` and each `Set` brings one never
seen before, so that "released twice" and "lost" can be stated. A list element is
named after the value it was created with, since the code never reuses one.
Reading `cl.value` and `cl.err` after `<-cl.done` is part of the step that closes
the channel: nothing writes them later. A leader that panics leaves both at zero
(`Shared`), see section 8.

**ResourceCache** is what such a cache promises, without goroutines or lists: the
life of a resource from new to held, cached, retired, released, or dropped.

**MCLRU** adds two history variables: `recent`, the order in which keys were last
touched (written from the documentation, not from the list code), and
`goneAtStart`, the values that had left the cache when a call began. It also takes
the cache as one shard: `MadeOfThese` are the sharded caches, over a grid of
arguments of `NewShardedLRU`, whose shards have this cache's capacity.

**Sharded** (`pkg/cache/sharded.go`) is the arithmetic of `NewShardedLRU`: rounding
the number of shards up, capping it at the capacity, dividing. The operations of a
sharded cache are those of the shard its key hashes to.

### Executor — `pkg/execution/executor.go`

EXTENDS LRU with `Key` as SQL text and `Val` as prepared statements; `onEvict`
closes the statement, so *released* means closed. `Start`, `Prepare` …
`Prepared` (withRetryGeneric around prepare), `UseStmt`, `Backoff`, `Take`,
`Close`, and `Expire` for a context that is cancelled or past its deadline. The
driver and the server are external: they may answer any of the classes
`isRetryableError` tells apart, apply an Exec and lose the answer, or panic.
A prepare in flight runs with its leader's context. One shard stands for the
sharded cache: two keys of one shard meet here, two of different shards never do.

### Transaction — `pkg/transaction/transaction.go`

One goroutine's `Run`: `runWithRetry` (`Begin`, `AttemptFails`, `Backoff`),
`runOnce` (`Commit`, `Rollback`, `Panics`), `runNested` (`OpenNested`,
`NestedRefused`, `ReleaseSavepoint`, `RollbackToSavepoint`, `NestedPanics`). `frames`
is the stack of `Tx` values with their `depth` counters, `savepoints` is what the
server holds. Each Run may come with another `policy`, which stands for the caller's
`IsRetryable`: the classes of errors it accepts, or `{"nil"}`, for which
`defaultIsRetryable` steps in. `fn` is the caller's too: it may nest (each nested Run may be given a
context that ends sooner), return nil or an error, panic, recover a nested panic,
or ignore a nested error. It can issue no statement of its own, because
`Tx` exposes none. The server behaves as PostgreSQL: a refused statement
aborts the transaction until a `ROLLBACK TO`; `database/sql` rolls back when the
context of `BeginTx` is done (`CtxRollback`). A *scope* is one nested Run; `undone`
is the history of the scopes the server has rolled back. A scope whose `ROLLBACK TO`
was not executed has the fate *kept*. `commits` is the history of the COMMITs the
server applied, each with what Run heard of it: *ok*, or *lost*.

### CreateBatch — `pkg/orm/query.go:335`

Several goroutines run batches against one pool. Each holds the connection of its
transaction while every chunk takes another (`Free`), as `exec` goes
through the executor and not through the `Tx`. An Exec is one step with the
outcomes and effects module Executor gives it. Rows are counted in chunks. The policy is
`DefaultRetryPolicy`, as in the code.

### QueryPlan — `pkg/query`, `compiler`, `planner`, `optimizer`, `sqlgen`

Pure functions, in the order of the pipeline. A hash is the sequence of tokens fed
to it (so that collisions of the 64-bit hash are left out and omissions are not);
a plan is the chain of nodes `Build` makes; a SQL text is a record of its
clauses with `"?"` for each bound value. `Statement(q, cq)` is what runs when the
call with builder `q` is given compiled query `cq`: `cq`'s text, filled with `q`'s
arguments. `Asked(q)` is the reference: the builder's own words. Both are compared up
to what SQL does not distinguish (the order of operands of AND and OR, repetition,
nesting of equal operators, a second ORDER BY term on a column).

### PlanCache — `pkg/orm/query.go`, `pkg/orm/db.go`

How calls share: lookup by shape, one flight per shape, eviction at any time
another entry is stored, no sharing at all when a plugin is request-scoped
(`pluginsCacheSafe`), scan plans looked up and stored in two steps. The pipeline is
a parameter, so that the theorems can say what the cache itself guarantees. Module
LRU justifies the cache actions used here.

**MCPlanCache** puts the two together over lists of concrete builders.

### Metadata — `pkg/metadata/metadata.go`

The registry behind `Compile[T]`. `snapshot` is the map behind the atomic pointer; an
entry is an object with its `once` and its `table`. `Compile` is everything up to
the lock-free lookup, `LockAndRecheck` the look under `writeMu`, `Publish` the
copy that replaces the map (made from what the holder `loaded`, so that a lost
update would show), `OnceDo` and `CompileStruct` the two ends of `once.Do`. A type may
be refused (`NotStruct`), and its `TableName` may panic (`Panicky`): the Once is
done, table and error stay nil. What reflection finds in a struct is a pure
function and left out.

### Terminals — `pkg/orm/query.go`, `pkg/scanner`, `execution.Rows`

One call per goroutine, from `Model` (Metadata's actions) to the last `Close`.
`Find`, `First` and `Count` (which is also `Exists`) leave the executor with `rows`
that hold a connection of the pool; `Create`, `UpdateAll` and `Delete` hold one only
while they execute. `Prepare` stands for what comes before the executor and
touches nothing shared that another module does not have: hooks, `compileCached`
(PlanCache), arguments, `RunBeforeExecute`. `Connect` and `Execute` are the executor
(its retries are module Executor's), `AfterExecute` the plugins and then the error,
`ScanPlan` up to the choice of a scanner, `ReadOne`, `ReadRow` and `EndRows` the
scanner. `rows` is *open*, *closed*, or *failed*, when an error or the deadline ended it.
Hooks, plugins, Scanners and `TableName` are the user's: each may panic, and the
caller may recover; rows that no Close was deferred for are then `leaked` until
`database/sql` sees the deadline (`AwaitDoneLeaked`).

### Migrations — `pkg/migrations/migration.go`

Each process has a Migrator; every `Up` or `Down` starts with a set of registered
versions of its own (`Deployments`: builds differ; versions are numbered in the order
of their strings), reads the version table, and
runs one transaction per migration: `BeginTx`, `Migrate`, `Seed`, `Record`, `Commit`.
A transaction's changes are `pending` until it commits. The database is external: any
statement may fail, the answer to a commit may be lost, the schema objects a
migration has touched stay locked for others, and `version` is a primary key, so that
an INSERT waits for another transaction's uncommitted row (`RowLocked`). Migrations in
`Empty` have neither Up nor Down: they touch no schema and only that key serialises them. A
process may `Crash` anywhere, and its transaction is gone. The user's migrations
may fail on a schema that already has their change, but need not.

### Builder — `pkg/query/builder.go`

One slice field, with the array and length in each builder value and the elements
and capacity in the array, and Go's `append`: in place when the capacity allows, into a
new array of twice the capacity otherwise. Every slice field but the assignments
is appended to by the same statement as `groupBy`.

## 4 Runs

| run | asks | answer |
|---|---|---|
| `lru_order` | structure, single flight, resource accounting, LRU order and freshness under every interleaving of 3 goroutines; does LRU implement ResourceCache; do the shards of a sharded cache stay in its capacity | all hold |
| `executor` | at-most-once writes, right statement, no leak, calls end | all hold |
| `transaction` | own savepoint, exact scope of a rollback, no transaction left, no second commit, Run returns; by default and with a policy that accepts every error | all hold |
| `create_batch` | complete on success, no deadlock when the batches hold every connection, each is a Run | all hold |
| `plan_cache` | does every call run its own query, with a scan plan that fits, although plans are shared | yes, for the listed shapes |
| `migrations` | each migration once and in order, version table true, complete on success, calls end, with several processes and crashes | all hold |
| `terminals` | one table per model, connections given back, whole results, paired plugin calls, calls end | all hold |
| `executor_use_after_close`, `create_batch_atomic`, `plan_args_order`, `plan_pages`, `builder_branches` | does the code do what its documentation says | no: section 8 |

What the deeper properties say:

- `ReleasedOnce`, `ImplementsResourceCache` (LRU): no resource is closed twice or
  closed while cached, and each goes through the abstract life of a resource; the
  one way to lose one is `setLocked` on a present key, which the model books as
  `dropped`.
- `ShardedBounded` (MCLRU): with every shard as full as this one, no sharded cache
  made of such shards exceeds the capacity asked for, and hash & mask names a shard.
- `NoStaleResult` (MCLRU): a value that had left the cache before a call began never
  comes back from it, although values are read outside the lock and waiters read long
  after. A call that fails has no value, and is not asked about.
- `AppliedOnce` (Executor): with lost answers, retries and timeouts in any order,
  one Exec is applied at most once, and once when it reports success. It holds because
  `isRetryableError` does not know connection errors, and against the comment on
  `RetryPolicy`, which wants connection resets retried (section 8): the mutant does that.
- `OpenBounded`, `NoOrphanStatement` (Executor): beyond a full cache, only a
  goroutine between its prepare and its evictions accounts for an open statement,
  and at rest every open one is in the cache.
- `RightStatement` (Executor): a statement taken from the cache, or from the
  goroutine that led the flight, was prepared from the call's own text.
- `OwnSavepoint`, `ScopedRollback` (Transaction): savepoint names are used again
  by siblings and stay behind after panics and failed statements; `ROLLBACK TO` and
  `RELEASE` still hit the savepoint of the Run that issues them, and a live
  transaction has lost exactly the scopes whose `ROLLBACK TO` was executed and those
  inside them. It says nothing of a `ROLLBACK TO` that fails: section 8.
- `CommittedOnce` (Transaction): whatever fails, also COMMIT, and whatever the policy
  accepts, nothing is committed after a COMMIT that was answered, and Run returns nil for
  that one only. Unless the caller's policy accepts a lost connection, at most one
  attempt is applied, and none when Run reports anything but a lost connection. A
  policy that does accept it may apply the transaction once per attempt: section 8.
- `BatchReturns` (CreateBatch): when every batch holds a connection and waits for
  one more, the executor's deadline breaks the tie; without `DefaultTimeout` the
  model deadlocks (that is the property's mutant).
- `VersionTableTrue`, `AppliedOnce` (Migrations): although both processes decide on
  what they read before the other's commit, the primary key of the version table
  makes the later one's transaction fail and take its schema change back. For a
  migration without Up and Down that key is the only guard.
- `UpComplete`, `InOrder` (Migrations): an `Up` that skipped what others had applied
  still reports success only if everything it knows is applied, and it never runs a
  migration ahead of an earlier one it knows. Both say "as long as nobody rolls
  back": an `Up` that races a `Down` does leave gaps (section 8).
- `ConnsReturned` (Terminals): whatever fails, a call that returned holds no
  connection, except after a panic where nothing was deferred yet; `CallsEnd` then
  needs the deadline that `withTimeout` sets.
- `WholeResult` (Terminals): the connection or the deadline may end a result at any
  row, and `rows.Next` just says no; a nil error still means all of it.
- `CompiledOnce` (Metadata, in `terminals`): two writers of different types copy
  one map, and neither loses the other's entry.
- `RunsOwnQuery` (PlanCache over QueryPlan): text from one call, arguments from
  another, passes that drop and merge predicates in between — and still the server is
  asked what the builder says.

Each property of a passing run has a mutant in `PROJECT.json`: a plausible bug,
written beside the definition it replaces (`\* mutant`), under which that run fails.

## 5 Bounds

- **LRU**: 3 goroutines, 3 keys, 3 values, capacity 2 (`lru_order`, symmetric): enough
  for a leader, a waiter and a third party that evicts, deletes or purges
  between their steps, and for an eviction that must choose. `Val` bounds how many
  values are ever produced. The refinement is checked in the same run: it is an
  action property of ResourceCache, without fairness, and both specifications treat
  the members of the symmetric sets alike. The arguments of `NewShardedLRU` range
  over -1..40 and -1..17 (the default of 32 shards included).
- **Executor**: 2 goroutines, 2 texts, one-entry cache, 2 statements ever, 2
  attempts: an insertion by one evicts the statement of the other. Deadlock is not
  checked because nothing starts after `Close`.
- **Transaction**: 2 attempts, 3 nested Runs per attempt (`MaxScopes`), nested or in
  sequence in any mixture: a nested Run, one inside it and a sibling after both are the
  smallest case in which a name is used again. Two policies: the default, and one that
  accepts every class of error and so retries wherever any other policy does.
- A capacity or a `MaxAttempts` of zero or less is one of 1 from the first line on
  (LRU's `capacity`, `attempts`); the runs use 2, the theorems are about every integer.
- **CreateBatch**: 2 batches of 2 chunks on 2 connections, 2 attempts: both
  transactions can hold all connections, as on the benchmark's small pool.
- **PlanCache**: 2 goroutines and, in each behaviour, 2 of 28 builders (`inUse`): a
  call can only get another's plan if two builders share a shape. The list has
  every statement kind, every clause, groups that are simplified, sorted or
  deduplicated, and each shape with two values.
- **Migrations**: 2 processes, 3 versions of which 2 changes no schema, builds that know
  {1,2,3} and {1,3}: one skips a version the other has. Crashes and restarts are
  unbounded.
- **Terminals**: 2 goroutines, one connection, so that whatever is not given back
  blocks the other; results of 0 to 2 rows (`MaxRows`); three types, one of each kind,
  and two entries, since `NotStruct` types never get one. The executor's timeout is the
  default of 30 s; without one (`withTimeout` then sets no deadline) a call can wait
  for ever for a connection that a panic leaked, which is the mutant of `CallsEnd`.
- **Builder**: 5 builders, 2 columns, 4 arrays, at most 2 columns a call
  (`MaxCols`): the run ends at the first aliasing.
- Counters need no bound of their own: attempts are bounded by the policy.

## 6 Fairness

- LRU: none of its own; its liveness is that of the Executor's calls, which drive it.
- Executor: weak fairness of a call's steps, LRU's among them. Go's scheduler runs
  every runnable goroutine, `sync.RWMutex` starves neither side, and `compute` and
  `onEvict` return. The driver honours the deadline
  `withTimeout` sets; neither cancellation nor `Close` need happen.
- Transaction: weak fairness of the package's steps and of `fn` returning, which
  includes that the server answers. `fn` may nest, but only `MaxScopes` times.
- CreateBatch: weak fairness of a batch's steps; strong fairness of `Begin`, because
  connections come free and are taken again while a `BeginTx` waits, and
  `database/sql` serves its waiters rather than passing one over for ever.
- Migrations: weak fairness of a migrator's steps, because the database answers;
  strong fairness of `Migrate` and `Record`, because the lock of a table or a row that
  they wait for comes free and is taken again, and database servers queue their lock waiters (under weak fairness
  alone TLC finds the migrator that waits for ever). Nothing need be started, and a
  crash need not happen; user migrations return.
- Terminals: weak fairness of a call's steps, of the deadline's passing (time goes on,
  and `withTimeout` gives every context a deadline if `DefaultTimeout > 0`), and of `database/sql` closing rows whose context has ended. No call
  need be made or its result taken.

## 7 Proofs

Checked by TLAPS for all values of the constants.

**LRUProofs** (any goroutines, keys, values, any requested capacity), first part:
`TypeCorrect`, `MapListAgreement`, `Boundedness`, `SingleFlightCorrect`,
`NoLostWaiter`. None of these is inductive alone. Agreement of map and list
needs that a computed value which is about to be pushed is no element yet
(`HeldApart`: one holder, `born`, not listed), that listed entries have a key and a
value (`ListedEntries`), and that the list has no duplicates; waiters need that
the inflight entry names the one leader. `IInv` is their conjunction. The lemmas
on the locked update (`PromoteKeeps`, `SetLockedKeeps`, `DeleteKeeps`,
`PurgeKeeps`) are about the cache alone; one lemma per kind of step ties them to
the goroutines; `NextInv` puts them together.

Second part, the whereabouts of values: `ReleasedOnceCorrect`, `RightKeyCorrect`, and
`Refinement`, that LRU implements ResourceCache. They rest on `RInv` (`BooksBalance`):
every value ever produced is in exactly one of five places, which are held by the
goroutine that computed it, cached, pending in one goroutine's evictions, released,
dropped (`Accounted`); no two elements hold one value, and an element's value was
produced for its entry's key, also when the element has left the list, which is what a
reader outside the lock needs (`EntriesTrue`); what a call has at hand is of its own
key (`CallsTrue`). Every step then moves values between places, and each kind of move is
an action of ResourceCache or a stutter.

**MCLRUProofs**: `NoStaleResultCorrect` and `EvictsLeastRecentCorrect`. Values never come
back to the cache once they have left it (`GoneGrows`), so what had left when a call
began is still gone, and a call between its unlock and its read has an element whose
value has not left before the call began (`StartsTrue`). The list is the first part of
the history of touches, key by key (`RecentInv`): a touch, and the removal of a key, move
both alike (`TouchPresent`, `TouchAbsent`, `ForgetPresent`, `ForgetAbsent`), and cutting
the list off at the back keeps it. `ShardsShareTotal` is about the arithmetic of
`NewShardedLRU` for all integers: there is a power of two of shards (a number that every
set has which has 1 and is closed under doubling), each has room for something, and
together they stay in the total. The rounding loops are recursive functions, and the
library's induction theorems cannot be applied; the proofs take the least or greatest
element of a set instead (`LeastNumber`), first to show that the recursive functions
exist, because the loops end (`LoopDefined`), then that they keep what doubling keeps
(`LoopResult`). `ShardedBoundedCorrect` adds that a shard is within its capacity.

**ExecutorProofs** (any goroutines, texts, statements, retry policy): `ExTypesCorrect`,
`AppliedOnceCorrect`, `RightStatementCorrect`, `NoOrphanCorrect`, `OpenBoundedCorrect`.
`ExInv` joins `RInv` to the executor's calls: where a call stands in the executor says
where it stands in the cache (`Linked`), the server has done nothing for a call that has
not ended (`Settled`), and a statement was prepared from the text it was produced for
(`Origins`); so the cache's `RightKey` becomes the executor's `RightStatement`.
`Roomy` is what the cache guarantees for this client and not in general: nobody uses
`Set`, so a leader finds its key absent, nothing is overwritten or dropped, and a push
evicts at most one statement (`OneVictim`). The open statements are then those cached,
held and pending (`OpenPlaces`), and the last two kinds map one to one into the
goroutines that have them.

**TransactionProofs** (any number of attempts and nested Runs, whatever errors the policy
of each Run accepts): `TypeCorrect`, `OwnSavepointAlways`, `NoTransactionLeft`,
`AtMostOneCommit`, `ScopedRollbackCorrect`. `AtMostOneCommit` is about every policy, and
says "at most once" of those that do not accept a lost connection, the default among them;
of the others it says what is left, that the answered COMMIT is the last one. It rests
on `Settled`: before Run returns, only COMMITs without an answer have been applied,
each in an attempt that failed, and none unless the policy accepts a lost connection. The
argument for savepoints: a Tx's counter is never behind its own name and names
grow inwards (`Nested`), and each Tx has a mark on the server with everything
younger carrying a greater name (`Marked`). So the newest mark with its name is its
own, whatever siblings have left behind. What a transaction has lost (`Fates`) follows
from it: every scope younger than one under way lies inside it (`UnderWay`), so a
`ROLLBACK TO` its savepoint, which undoes the scopes from its own to the youngest,
undoes it and what lies inside it, and no other.

**CreateBatchProofs** (any goroutines, pool, chunks, policy): `CompleteOnSuccessCorrect`,
from `BInv`, by which the counter is the number of chunks this attempt has inserted
whenever fn is at work (`Counted`): a retry starts it anew. `RunRefinement`: for every
goroutine, a step of the system is a step of its Run or none; there is one lemma for
each action and one for the steps of the others (`Own`).

**PlanCacheProofs** (any goroutines, builders, hash functions and pipeline):
`TypeCorrect`; `PlanOfOwnShape` — a call's compiled query was made from its own
builder or from one of the same `PreHash`, neither request-scoped, whoever compiled
it and whatever was evicted since; `OwnQuery` — under `SharingSound` (the
pipeline is right for a call on its own, and two builders of one shape may
exchange plans) every call runs its own query; `PlanFits` — under `KeySound` (equal
`CacheKey` ⇒ equal columns) scan plans fit. The two hypotheses are about the
pipeline alone and are exactly what the two plan findings of section 8 refute: the
cache adds no condition of its own. TLC settles the conclusions for the builders
of MCPlanCache.

**TerminalsProofs** (any goroutines, types and entries, any pool, results of any
length): `TypesCorrect`, `OneTablePerType`, `ConnectionsReturned`, `NoPartialResult`,
`ObservedOnce`. For the registry (`MetaInv`) the point is that the map a holder of
`writeMu` is about to extend is the current one and lacks its type (`AtHand`), and that an
entry belongs to one type (`Entries`). A call concerns only itself (`OnlyOwn`): its invariant
ties the place it is at to what its statement did and the plugins heard
(`Heard`), to when rows may be open and what was read of them (`Reading`), and to
the result (`Returned`). That the pool lends no more than it has (in `TypesCorrect`) takes
counting the calls that hold a connection (`PoolInv`): only `Connect` adds one, and
only below the limit, and `Take` hands one over to the leaked rows.

**MigrationsProofs** (any processes, any number of versions, any builds):
`TypeCorrect`, `AppliedAtMostOnce`, `TableTrue`, `UpIsComplete`, `InVersionOrder`. None
is inductive. A commit is safe because its version had no row when the row was
inserted, and nobody can have committed one since (`Inserted`): the other process
would need the row, or the tables of the same migration, which are locked (`Exclusive`). Order and
completeness need that what an `Up` has read or passed is still applied while nobody
rolls back (`Behind`), and that the least pending version leaves nothing unapplied
below it, for which `Min` and `Max` of a set of versions are shown to exist
(`MinOfVersions`, `MaxOfVersions`). A step that leaves the database alone concerns only
the process that takes it (`OnlyOwn`); `CommitKeeps` is the one that does not.

Assumptions are the named ones of each module: `None` is no value, key,
goroutine, error, builder, plan, model type or entry; the numeric parameters are
integers; versions are the numbers from 1 to their count.

Only model-checked: liveness (`CallsEnd`, `RunReturns`, `BatchReturns`), since
fairness and ENABLED are outside the prover's reach; the functions of QueryPlan, which
are recursive operators over expressions and need induction over data, and with them
that the builders of MCPlanCache satisfy the hypotheses of `OwnQuery` and `PlanFits`.
The refinements are of the specifications without fairness.

## 8 Where code and documentation disagree

Each of these has a run that ends in the counterexample.

| run | documentation | code |
|---|---|---|
| `executor_use_after_close` | DB is "safe for concurrent use" (`orm/db.go:31`) | a statement is used after the cache lock is gone; an eviction may have closed it, and the error is not retried |
| `create_batch_atomic` | "either every row is inserted or none are" (`query.go:333`) | chunks run on the pool, outside the transaction |
| `plan_args_order` | "Binding order MUST exactly match GenerateSQL's" (`sqlgen.go:108`) | the optimizer sorts AND groups in the plan; arguments follow the builder |
| `plan_pages` | "the value is a bind param, not part of the query's shape" (`compiler.go:172`) | LIMIT and OFFSET are rendered as literals into the shared text |
| `builder_branches` | "no pointer aliasing, no shared mutable state" (`builder.go:33`), "exact capacity (len == cap)" (`builder.go:87`) | `append` leaves spare capacity; two branches of one builder write the same cell |

The models below contain these too, without a run of their own:

- A waiter of a `GetOrCompute` whose compute panics gets the zero value and a nil error
  (LRU's `Shared`); `lru.go:131` says "cl.err is set to a non-nil sentinel via the
  recover path", but the recover assigns neither field.
- The comment on the executor's `RetryPolicy` names "transient (deadlock, serialization
  failure, connection-reset) errors" (`executor.go:91-92`); `isRetryableError`
  (`executor.go:386`) knows no connection error, and such a call fails at once (Executor's
  `Retryable`). For an Exec the code is the safe one of the two, as `AppliedOnce` shows.
- The comment on `IsRetryable` counts "connection reset" as transient
  (`transaction.go:52-53`). `defaultIsRetryable` does not, and a caller's policy that does
  is asked about a COMMIT whose answer was lost as about any error: the transaction is
  applied again (Transaction's `Commit`). `executor.go:98` warns of a retry that "could
  silently double-apply side effects"; nothing does here. `CommittedOnce` exempts
  such policies from "at most once".
- `ROLLBACK TO` uses the nested Run's context; once that has ended the statement is not
  sent, the work stays, and the outer Run may commit it (Transaction's
  `RollbackToSavepoint`, fate *kept*); `transaction.go:93` says "committing/rolling back
  only that savepoint". `ScopedRollback` leaves such a scope out.
- `registry.go:45` lets a generated scanner have no all-rows function, since Find "will
  fall back to the slow path"; Find calls it all the same and panics with its rows
  open (Terminals' `ScanPlan`).
- `query.go:46` says that "every terminal method checks for nil" tables; `UpdateAll` and
  `Delete` do not, and send a statement for the table `<invalid>` (Terminals'
  `Modelled`).
- A `TableName` that panics once leaves its entry done with neither table nor error:
  every later `Model` of the type dereferences nil (Metadata's `CompileStruct`).
- `Down` is to roll back "the most recently applied migration" (`migration.go:142`) and
  takes the greatest version; two concurrent `Down`s may both roll back one
  migration, since a DELETE of no row succeeds; an `Up` that races a `Down` may leave a
  version out below one it applies.

Noticed while reading, and outside the models:

- Scan plans are keyed by table and shape and not by Go type: two types mapped to one
  table share a plan with the offsets of the first.
- Of two migrations registered with one version, the second fails on the version table's
  key and is skipped from then on; on MySQL, whose DDL commits implicitly, a migration
  is not atomic.
- The length of an IN list and NULLS FIRST/LAST are in the SQL text and not in the hash
  (`prehash.go:139`).
- `scanner.go:283` skips a column without a field, "not an error"; `rows.Scan` then
  finds too few destinations and fails.
- `RunBeforeExecute` stops at the first plugin that fails; those before it never hear
  an `AfterExecute`.
- The backoffs shift by the attempt number and overflow for a large `MaxAttempts`.

## 9 What is not modelled

- Pure rendering, formatting, reflection and conversion: dialects' quoting, the
  scanner's column conversions, struct tags, validation, relations, xtypes.
- Values that print alike are one value, and the 64-bit hashes never collide.
- In QueryPlan: CTEs and unions (never rendered by this commit), preloads, cursors,
  aliases, subqueries, window specifications, RETURNING. The soft-delete and
  multi-tenancy plugins' `BeforePlan` are stubs that leave the plan alone; a
  request-scoped plugin is modelled, as external code, as one that points the plan
  at a tenant's table.
- What a generated scanner decodes: Terminals has its calls and its missing half.
- Statistics counters and the length of a backoff; `QueryCursor`; `Len` and `Stats`.
- A statement prepared while `Close` purges stays in the purged cache of a closed
  executor; `NoOrphanStatement` counts it as reachable. `sql.DB.Close` ends it.
- The copy-on-write cache of `cache.go`: nothing uses it, and the registry, which has the
  same pattern, is modelled.
- Migrations with only one of Up and Down. An `IsRetryable` that looks at more than the
  class of an error, or changes its mind.
- Capacities and shard counts above 2^62, for which the doubling loop of
  `NewShardedLRU` (`sharded.go:82-101`) overflows; module Sharded counts in integers.
- Databases that commit DDL implicitly (MySQL), for which a migration is not one
  transaction; the schema diff; what reflection reads from a struct.
- Sharded caches with several shards at once: the shards share nothing, and a key has
  one. A `Purge` of all shards is a sequence of the `Purge`s of LRU.
- Rows the caller of `Executor.Query` reads itself: Terminals has the library's readers.
