# Verification of dartaframes

`dartaframes_polars` drives Polars from Dart. The Dart side plans queries and owns
native objects through integer *handles*; a Rust library keeps the objects in a
process-global registry, runs queries on threads of its own, and exchanges data by
JSON, by copied batches and by the Arrow C interfaces. A Dart implementation of
Arrow (arrays, IPC) and a build hook that downloads the native library complete the
repository.

This directory holds TLA+ models of that program, the TLC configurations that check
them, and proofs. Paths below are relative to the repository.

## 1. Inventory

| Component | Source | State | Operations | Talks to | What makes it correct |
| --- | --- | --- | --- | --- | --- |
| Handle registry | `native/polars_ffi/src/registry.rs` | slots with generation and value; stack of free slots | `insert_many`, `get` and its typed forms, `release` | called under one mutex by every command, by `df_handle_release` and by finalizer tokens, from any isolate or thread | a handle names one object for ever; related results are registered together or not at all; nothing leaks, nothing is freed twice |
| Asynchronous jobs | `native/polars_ffi/src/jobs.rs` | count of permits; per job a state, a channel, a cancellation token | `submit`, `poll`, `cancel`, `take`, `Drop`; observer thread | Polars' worker, the registry | permits conserved; accepted cancellation is final; result delivered at most once; no job runs for ever unobserved |
| Batch streams | `native/polars_ffi/src/batch_stream.rs` | bounded channel, flag, status | `submit`, `poll`, `cancel`, `Drop`; worker thread | Polars' `sink_batches`, the registry | batches in order, once; one verdict; the worker always ends |
| Handle ownership | `lib/src/handle.dart`, `native.dart`, `polars.dart` | per owner: leases, close requested, released, finalizer token | lease, end, close, attach, adopt, finalize | every method of the API, the collector, the registry | inputs of a command stay live; every live handle has one owner; every close takes effect |
| Command dispatch | `engine.rs`, `bindings.rs`, `eager.rs`, ... | none | some 120 commands | registry, Polars | inputs of the right kind, results registered and answered together, nothing destroyed by a request that is refused |
| Planning layer | `lib/src/polars.dart`, `plan.dart`, `expression*.dart`, `selectors.dart`, `dataframe*.dart`, `series.dart`, `sql.dart`, `io_*.dart`, `query_options.dart` | wrappers of handles | every public method | the commands | requests the library accepts, answers wrapped as what they are, temporaries closed |
| ABI boundary | `lib.rs` | response buffers, tokens | `df_invoke`, `df_buffer_free`, `df_handle_*` | both sides | one free per buffer; no unwinding across the boundary |
| Query client | `lib/src/plan.dart` (`CancellableQuery`) | busy flag, owner | `poll`, `wait`, `cancel`, `take`, `close` | jobs, ownership | one operation at a time; whoever waits learns how the job ended; the job is released on every path |
| Stream client | `lib/src/batch_stream.dart` | terminal flag, owner | `poll`, `cancel`, `close` | batch streams, ownership | every batch answered is owned or released |
| SQL catalog | `sql.rs`, `lib/src/sql.dart` | table names to plans | register, register all, unregister, tables, execute | registry | all-or-nothing registration |
| Arrow C interchange | `arrow_c.rs`, `lib/src/arrow_c.dart` | C structs and their release callbacks | export, import, streams | producers and consumers outside | each live callback runs exactly once |
| Arrow IPC | `lib/src/arrow/ipc*.dart` | reader and writer of messages, dictionaries | encode, decode | files, other implementations | what is written is what is read; dictionaries applied in order; limits kept |
| Arrow arrays, copied batches | `lib/src/arrow/*.dart`, `batch.rs` | immutable | build, slice, encode | Dart API | validity, offsets and values agree |
| Datatypes, scalars | `lib/src/dtype.dart`, `scalar.dart`, `dtype.rs` | immutable | encode, decode | protocol | both sides read the same type |
| Native asset cache | `tool/native_asset_download.dart` | cache file, lock file, temporaries, queue per isolate | acquire | other isolates and processes, HTTPS | only verified bytes are ever under the cache name |
| Options, docs, examples, gates | `lib/src/io_*.dart`, `tool/`, `doc/` | none | validation | | no state of their own |

What is hard in this program, and where a test rarely goes:

* **Interleaving.** The registry is shared by all isolates and by the collector's
  finalizer thread. A command takes the registry lock once per input and once more for
  its results, with the computation in between.
* **Deferred release.** A Dart object may be closed, or become garbage, while a command
  that uses it is awaiting its answer.
* **Threads and channels.** A job has a worker, an observer and any number of callers; a
  stream has a worker that must neither block for ever on a full channel nor drop or
  repeat a batch.
* **Failure in the middle.** Rejected plans, threads that cannot be started, panics, a full
  registry, adoption of the second of two results.
* **Limits.** 64 jobs, 1 to 64 batches, 2^32 slots, 2^32 generations, and a Dart `int`.
* **Two hands on one wire.** Each command is written out twice, once per language, and its
  fields are matched at run time only.
* **Foreign owners.** The release callback of an Arrow C struct belongs to a library outside
  and must run once, whichever side fails.

`PROJECT.json` lists each hazard at its line, with the properties that cover it or the
reason why none does.

## 2. What is modelled

| Module | Models | Role |
| --- | --- | --- |
| `HandleTable` | what the registry promises | abstract specification |
| `Registry` | `registry.rs`, and how a command uses it | component, implements `HandleTable` |
| `Query` | what a submitted query promises | abstract specification |
| `Jobs` | `jobs.rs` and the four job commands of `engine.rs` | component, implements `Query` |
| `PullStream` | what a batch stream promises | abstract specification |
| `BatchStream` | `batch_stream.rs` and the three stream commands | component, implements `PullStream` |
| `HandleOwner` | `handle.dart`, tokens, adoption | component, EXTENDS `HandleTable` |
| `AssetCache` | `tool/native_asset_download.dart` | component |
| `Wire` | fields and values of a request | vocabulary of the next four |
| `NativeFunctions`, `NativeCommands` | what the library accepts: `engine.rs`, `bindings.rs`, `namespace_expr.rs`, `advanced_expr.rs`, `eager.rs`, `selectors.rs`, `temporal_relational.rs`, `io_extended.rs` and the fields of `sql.rs` | tables, `NativeCommands` EXTENDS `NativeFunctions` |
| `DartMethods` | what the methods of the planning layer send | table |
| `Session` | a method call and its answer, composite methods, the registry's room | composes `NativeCommands` and `DartMethods` |
| `WireTable` | a client written from `protocol/README.md` | over `NativeCommands` |
| `ArrowC` | `arrow_c.rs`, `arrow_c.dart`, the Arrow calls of `native.dart` | component |
| `AsyncClients` | `CancellableQuery` of `plan.dart`, `BatchStream` of `batch_stream.dart` | component, over jobs and streams in the small; these keep `Query` and `PullStream` |
| `Catalog` | what an SQL context promises | abstract specification |
| `SqlCatalog` | `sql.rs` | component, implements `Catalog` |
| `RegistryProofs`, `JobsProofs`, `BatchStreamProofs`, `HandleOwnerProofs`, `ArrowCProofs`, `AsyncClientsProofs`, `AssetCacheProofs`, `SqlCatalogProofs` | | theorems about the component each is named after; `HandleOwnerProofs` has those about `Session`, too |
| `MC*` | | instances for TLC |

```
 HandleOwner (Dart owners, commands, collector)
      | EXTENDS
 HandleTable  <== implemented by ==  Registry  (slots, generations, threads)
                                        ^ holds the Arcs of
           Query <== implemented by == Jobs, BatchStream == implements ==> PullStream
             ^                                                                 ^
             +== kept by == AsyncClients (CancellableQuery, Dart BatchStream) ==+

 Session = NativeCommands (EXTENDS NativeFunctions, Wire)
             + DartMethods (EXTENDS Wire) + a registry with room for a few handles
 WireTable = NativeCommands + the table of the protocol document

 SqlCatalog == implements ==> Catalog          ArrowC          AssetCache
```

The operators named `...` "Mutant of" in a module are deliberate mistakes, one for each
property: put in the place of the operator they follow, they make TLC find the property
violated, which shows that the property says something about the code. They are not part
of any specification.

### Registry

`slots` is the Rust vector (`slots[i]` is Rust's slot `i - 1`, so that the low half of a
handle is `i`), `free` the stack of reusable indices with its top at the end. `calls[t]`
is the command a thread is executing with the objects it has resolved so far. `issued`
and `released` are histories.

| Action | Code |
| --- | --- |
| `Begin`, `Answer` | entry and error exit of `engine::invoke` |
| `Resolve` | one call of `registry::get`: decode, compare generations, check the kind, clone |
| `Register` | `insert` or `insert_many` of the results and the end of the command |
| `Release` | `df_handle_release` or a finalizer token, from any thread |

Since a command's request names its handles beforehand but they are looked up one at a
time, the model chooses each handle at its lookup among all handles ever returned; a
handle once known stays known, so no interleaving is lost. The 32-bit halves are
constants: `MaxSlots`, `MaxGeneration` and `HandleBase`. A refused registration is in
`Answer`: it changes nothing, which is what the capacity check before the loop is for.

### Jobs

`jobs[j]` joins what is known about one job: `query` (Polars' worker), `cancelled` (its
token), `observer`, `channel`, `state` (with `Complete` told apart by its result, and
`dropped` after `Job::drop`), `requested`, and whether a handle stands for it. `permits` is
`ACTIVE_JOB_OBSERVERS`. Submission is four steps with a failure exit at each: `Reserve`,
`Launch` / `LaunchFails`, `Spawn` / `SpawnFails`, `InsertJob`. The observer is two steps,
`Observe` and `ObserverExits`, as the permit is given back only after the result is sent.
Polling, cancelling and taking are `Lookup` (the registry clones the `Arc`) and then the
operation under the job's lock; `Take` leads to `Deliver`, as the frame is registered after
the lock is gone. `Return` and `Release` run `drop` when the last `Arc` goes.

`Query` is what all this amounts to for whoever holds the job: `none`, `running`,
`cancelling`, an end (`complete`, `failed`, `cancelled`), `taken`, `gone`. The state a holder
sees is the one after a `refresh`, which every command begins with; so in the refinement
(`seen` in `JobsProofs`) the query ends when the observer sends its verdict, although the
state under the lock changes later. `Query` is stated for one job, has no instance for TLC and
is used by the proofs only.

### BatchStream

One stream. `worker` is the thread: `Produce` (Polars calls back), `Check` and `TrySend` (the
two halves of a turn of `send_while_active`, between which a cancellation may come),
`CollectEnds`, `Conclude`, `CollectFails` (an error, or a panic that only closes the channel).
`Poll` is one call under the lock with the alternatives of `try_recv`; `Cancel`, `Release`,
`Return` and `drop` as for jobs. An error reported by `poll` leaves `PollStatus::Complete` in
the code; the history `failed` tells it from a real completion.

### HandleOwner

Dart runs without interruption between two awaits, so an action is the stretch from one
await to the next: `Start` (lease all inputs and call the transport), `Serve` (the native
side answers), `Finish` (adopt or fail, then end the leases, which may release owners whose
close was put off). `Close` is the program's, `Forget` its dropping of the last reference,
`Finalize` the collector's. Native objects are the entries of `HandleTable`; `Registry`
justifies that. `Representable` is the set of handles below 2^63.

### AssetCache

A call of `acquirePinnedNativeLibrary` runs from one await to the next: `Enter` (join the
queue of the isolate), `Proceed` (the predecessor has ended), `Open`, `Lock`, then the locked
part `Check`, `Look`, `Delete`, `Write` / `EndDownload`, `Verify`, `Rename`, `Clean`, and the two
finally clauses `Unlock`, `Close`, `Leave`. `Crash` ends a process between any two of them. The
whole of `downloadNativeAsset` is `Write` and `EndDownload`: the temporary holds part of a
library, then all the right bytes, as many wrong ones, or the download throws. Every call
has a temporary of its own, since its name is random. The lock is Dart's on Linux and
macOS: an advisory record lock, which `FileLock.exclusive` takes or throws, which another
isolate of the same process gets as well, and which any close of the file in that process
gives up. The file under the cache name may be corrupt to begin with.

### Wire, NativeFunctions, NativeCommands

A request is a function from field names to values, and a value is a class and a size
(`Wire`): a number is negative, zero, natural, real, or too wide for 32 bits; a text is
empty, of one byte, longer, a URI, or longer than a path may be (1,048,576 bytes); dtypes,
scalars, columns and batches are well-formed objects, a batch with or without more than the
100,000 columns an import takes; a handle is its kind; an array has a class of elements and
a length of 0, 1, 2 or `TooMany`, which stands for every length above the `MAX_ITEMS` = 10,000
of `bindings.rs`. These are the distinctions some check of either side makes, but for two: what
is inside a dtype, scalar, column or batch, and the 64 MiB a request may have, which both sides
check. What only Polars checks (a time zone's name, a pattern) is Polars failing. A command is a set of schemas:
fields it must have, fields it may have, with the values each takes, and the kind it
registers (`"value"` for none, `"frames"` for the two of a profile). A rule across fields ("a
literal pattern cannot be strict", "as many flags as keys") is a choice between schemas, so
that a request is accepted exactly when it `Fits` one of them: this is `validate_fields` and
`ensure_only_fields` together with the typed reads of the command's arm. `NativeFunctions`
is the table under `exprFunction`, `exprAggregate` and `exprMeta`. `RefusedTooLate` says of a
write command which requests are refused only after `File::create` has emptied the file:
those that are well-formed as far as `ReadBeforeCreate` goes and wrong in a later field.

### DartMethods

A method is the class it wraps its answer in, its command, the fields it `always` sends
and those it `sometimes` sends, each with the values the method's own checks
(`validatePositive`, `validateName`, `_broadcast`, ...) let through. `lets` lists the values a
method does not check although the native library does:

- the empty `format` and `timeZone` of the parsing methods, the empty `suffix` of the as-of
  and conditional joins, and an as-of `tolerance` in index units;
- the name of an operation given to `unary`, `binary`, `function` or `aggregate`, which is only
  not to be empty, and the number of arguments of `function`; the known names among these are a
  sample (`abs`, `clip`, `round`; `sum`, `std`, `skew`, `quantile`), since the named methods have all;
- the `arguments` map of `aggregate`, spread over the request: options of any value and name,
  and another `input`, `op` or command (`AggregateWithArguments`);
- a list of more than 10,000 items: `_selectorNames`, and the selectors by index and by
  dtypes, count theirs, `_validatedNames` and the other lists of names and expressions do not;
- a path of more than 1,048,576 bytes, which no method measures, and an imported batch of more
  than 100,000 columns.

`made` and `given` describe composite methods: the
wrappers the method makes for itself and closes at the end (literals for operands, the
scan of `readCsv`, the job of `collect`, the plan of a `DataFrame` given to SQL), and those it
is given. `Requests` enumerates a method's usual request and all that differ from it in at
most `Deviations` fields.

### Session

`registry` holds the kind under each handle, `wrappers` the class of the Dart object a caller
has for it. `CallMethod` is one request with its answer: `Refuse` by the tables, `Fail` in
Polars, `Overflow` of the registry, or `Succeed` with the result adopted. A composite method
is `BeginComposite`, then one step for each wrapper it makes, `PerformMain`, and the `finally`
that closes them in reverse order; making one may throw. While a composite method awaits,
other calls and closes come in between. `file` is what a write has made of the file it names.
A kind on the native side and a class on the Dart side come from different
tables, so that `KindsAgree` compares two translations of two sources. `TablesAgree` says what
that comparison comes to for the tables alone: what a method makes on the way are handles, and
whatever handle its command can answer with is of the class the method wraps it in. It
mentions neither the state nor any bound, and as the first conjunct of `SessionType` it is evaluated
by TLC for all methods and commands.

### ArrowC

A C struct is a token; `releases` counts how often its callback has run. It has one owner,
either an `ArrowCData` or `ArrowCStream` object (`objects`), the locals of an import (`calls`) or a
foreign consumer; an imported array is shared by the frames made of it (`entries`) and by what
was exported from them (`shares`), as the buffers are reference counted. `Dropping` runs, in
the step that drops an owner, the callbacks that nothing holds back any more: that is what
Rust's `Drop` does. An import takes both structs first (`Import`), then goes on array by array,
and `Fail` may end it at any point: an empty struct, a type or null count that is refused,
an error of the producer, a panic, a full registry. Every local is dropped then.
`Close` is `close()` or the finalizers.

### AsyncClients

One query and one stream, with any number of operations on them. An operation is: its
head (`Begin`, `PollNext`, `Stop`), the command on the worker isolate (`Execute` or
`TransportFails`), and the part after the await (`EndPoll`, `EndWait`, `Sleep`, `Wake`, `EndCancel`,
`EndTake`, `EndNext`, `EndStop`), which ends the lease and may release an owner whose close was
put off (`Settle`). The synchronous operations are the same with nothing in between,
`collect` is a wait, a take and a close by one caller. The native job and stream are states,
and `AsyncClientsProofs` shows that they keep the promises, `Query` and `PullStream`, which
`Jobs` and `BatchStream` implement. `lost` keeps the frames the
registry had no room for: the caller is told of an error, and a stream goes on without
that batch.

### SqlCatalog

`calls[t]` is where a thread is in its command: `Resolve` looks up one frame, `Lookup` the
context, `Acquire` its mutex; `Register` and `Unregister` change one table a step under the lock;
`Execute` / `ExecuteFails` is Polars running a statement; `InsertResult` comes after the lock.
Frames and the context may be released at any time; the clone of the `Arc` keeps a context
usable. In the refinement of `Catalog` the catalog others see is the one after the batch
under way (`visible`): a batch takes effect with the acquisition of the lock, which is
invisible to everybody else because they need the lock too.

## 3. Runs

| Run | Instance | Distinct states | Properties |
| --- | --- | --- | --- |
| `registry` | 2 threads, 2 kinds, 2 payloads, 2 slots, 2 generations, commands of up to 2 inputs and 2 results; symmetric | about 17 000 | `TypeOK FreeListExact HandlesAccounted NoAliasing ImplementsTable` |
| `jobs` | 2 callers, 2 jobs, 1 permit | about 284 000 | `TypeOK PermitsExact CancelIsFinal ObserverReports FrameConserved AbandonedFreesPermit` |
| `batch_stream` | 2 callers, 4 batches, capacity 2 | about 6 600 | `TypeOK FlowExact ImplementsPull WorkerStops PollingEnds` |
| `handle_owner` | 2 commands, 3 handles | about 133 000 | `TypeOK LeasesExact InputsLive ReleaseNeverFails OwnershipExact ClosedIsReleased` |
| `handle_owner_wide` | the same, one handle beyond 2^63 | violation | `OwnershipExact` |
| `asset_cache` | 2 calls in one process, 1 in another | about 9 100 | `TypeOK ReturnedIsVerified OnlyVerified CallsEnd` |
| `asset_cache_pool` | 2 isolates of one process, 1 call each | violation | `ReturnedIsVerified` |
| `session` | 3 slots, requests that differ in up to 2 fields; symmetric | about 28 500 | `SessionType NoMismatch KindsAgree NothingLost RefusedWriteKeepsFile` |
| `wire_table` | the series group of commands | violation | `ListedIsAccepted` |
| `arrow_c` | 5 structs, 3 Dart objects, 2 handles; symmetric | about 29 200 | `TypeOK ReleasedExactlyOnce ImportsConsume` |
| `async_clients` | 2 callers, 2 batches and a result, room for 2 frames | about 107 000 | `TypeOK FramesOwned ClientsAgree WaitEnds` |
| `sql_catalog` | 2 threads, 2 names, 1 frame, up to 2 tables a request | about 172 000 | `TypeOK ImplementsCatalog` |

**Bounds.** Two slots of two generations are enough for a slot to be reused, for one to be
retired, and for the registry to run out with results half registered; handles are encoded
with a base that is too small to matter only if it were not above `MaxSlots`, which is
assumed. Two entries of two kinds tell aliasing from a kind error. One permit for two jobs
makes the limit bite; two callers are all that any one of the races needs, as each is
between two operations on one job. Four batches over a channel of two let the channel fill
with batches behind it and the terminal message wait. Three handles let a command have two
inputs and a result, or one input and two results. Two calls in one isolate make a queue,
the third is what the lock is for. In `jobs`, `batch_stream`, `asset_cache`, `arrow_c`,
`async_clients` and `wire_table` deadlock is not checked: when every job, stream, call, object or
command has run its course there is nothing left to do.

In `session` two deviating fields reach every pair of options of a method, and a rule of the
code relates at most two fields once the schemas have split it; arrays of up to two elements
differ in length or not, and one longer length is all that a limit of 10,000 asks for; three slots hold a scan, its
job and the frame that comes of it, and overflow with anything more. One composite method
is under way at a time. In `arrow_c` five structs are what an import, an export of what was
imported and an import of that need; the arrays of a stream are bounded by the same number.
In `async_clients` two callers make every race between two operations, or between one and a
close; room for two of the three frames makes the registry refuse one. In `sql_catalog` one frame
stands for a table registered twice, or released between its two lookups; batches of two tables have a
middle; the names of a request are distinct, as the keys of the Dart map are, and the
list of an empty `registerAll`, which changes nothing, is left out.

**Fairness.** In `Jobs`, a command that has begun proceeds (no operation blocks), the observer
is scheduled, and Polars honours a cancellation; nothing is assumed of a query that was not
cancelled, nor of callers. In `BatchStream`, the worker is scheduled and commands proceed.
In `HandleOwner`, the transport answers and the `Future` completes (`native.dart` calls
`df_invoke` synchronously); nobody has to close and no collector has to run. In `AssetCache`, a
process that lives runs its calls on: every await there completes, the download by its
deadlines; no call has to be made and no process has to die. In `AsyncClients`, a command is
answered or fails and a timer fires; nothing makes a query end or a program call. In
`SqlCatalog`, threads run, statements end, and the mutex is eventually fair to who waits (`parking_lot`),
which is strong fairness of `Acquire`.

**What they show.** Handles never alias across any interleaving of lookups, registrations
and releases, and the last generation of a slot retires it without revival or leak. Permits
survive every failure of `submit`; an accepted cancellation is final even when the result is
in the channel already; the `Disconnected` branch of `refresh` is unreachable, since the
observer catches the worker's panic. A taken frame is lost when the registry has no room
for it: `FrameConserved` names that case. A stream's worker ends after a cancel or a drop even
with a full channel. A command's inputs are live until it is answered, whatever is closed or
collected, and every live handle has exactly one owner. Under the cache name there is a
verified library, nothing, or what was there before, whoever dies and whatever arrives; calls
that fail let those behind them go.

When the library's tables refuse a request of a Dart method, a value listed in its `lets` is
in it: those are the gaps between the two sides, and there is no other; the class of every wrapper is the kind of its handle; whichever step of
a composite method throws, its temporaries are closed. The native writers read most of their
options after they have created the file, but no request a Dart method can send is refused
there. Every release callback of an Arrow C struct runs once and not before the last
frame, export or consumer that reads its buffers is gone, on every path through a failed import. A
frame that was registered always gets its one owner, though its query or stream was closed
while the answer was on its way; a frame the registry has no room for is gone, as in `Jobs`.
An SQL batch is seen whole or not at all and a failed lookup changes nothing; a statement
that creates or drops a table keeps its effect when the registration of its result fails.

**What they found.** `handle_owner_wide`: the registry issues handles up to 2^64 - 1, but
`int.tryParse` in `_optionalResponseHandle` (`lib/src/polars.dart`) refuses handles from 2^63 on,
and the Arrow imports in `lib/src/native.dart` read them as negative. The command fails, the
object stays in the registry, and nobody can release it. It takes 2^31 uses of one slot, and
the free list, being a stack, gives all the reuse of a busy program to one slot.

`asset_cache_pool`: two isolates of one process have a queue each and the same lock, so both
enter the locked part; one that has found no valid entry deletes the library that the other
has verified and returned in the meantime. Build hooks run in processes of their own, which
is the instance that passes.

`wire_table`: `protocol/README.md` says its table "lists every accepted command-specific
field"; its row for `seriesAppend` names `left` and `right`, while the library accepts `series` and
`other` only (`eager.rs:278`), which is also what the Dart package sends. Other rows of the
table (the CSV and Parquet writers, the lazy sinks) leave out optional fields that are accepted.

## 4. Proofs

Every component has its theorems. They hold for every value of
the constants; unless the table names a further one, the only assumption is the named
`ASSUME` of the component's module, which TLC evaluates in the component's run. Those about
`Session` are in `HandleOwnerProofs`, which extends both: they are about the same wrappers
one level up, and have nothing to do with the variables of `HandleOwner`.

| Module | Theorem | States |
| --- | --- | --- |
| `RegistryProofs` | `TypeCorrect` | `Spec => []TypeOK` |
| | `FreeListCorrect` | `Spec => []FreeListExact` |
| | `AccountingCorrect` | `Spec => []HandlesAccounted` |
| | `AliasingFree` | `Spec => []NoAliasing` |
| | `Refinement` | `Spec => ImplementsTable` |
| `JobsProofs` | `TypeCorrect` | `Spec => []TypeOK` |
| | `PermitsCorrect` | `Spec => []PermitsExact` |
| | `CancellationFinal` | `Spec => []CancelIsFinal` |
| | `ObserverCorrect` | `Spec => []ObserverReports` |
| | `FramesConserved` | `Spec => []FrameConserved` |
| | `QueryRefinement` | `Spec => Promise(j)!QuerySpec` for every job |
| | `HandedOut` | `Spec => HandedByTake`: a frame leaves its job by the one take that finds it |
| `BatchStreamProofs` | `TypeCorrect` | `Spec => []TypeOK` |
| | `FlowCorrect` | `Spec => []FlowExact` |
| | `Refinement` | `Spec => ImplementsPull` |
| `HandleOwnerProofs` | `TypeCorrect` | `Spec => []TypeOK` |
| | `LeasesCorrect` | `Spec => []LeasesExact` |
| | `InputsStayLive` | `Spec => []InputsLive` |
| | `ReleasesSucceed` | `Spec => []ReleaseNeverFails` |
| | `OwnershipCorrect` | `Spec => []OwnershipExact`, if `Representable = Handles` |
| | `LifeCorrect` | `Spec => HandleLives`: the moves in the life of a handle |
| | `EachAsPromised` | `Spec => Alone(h)!TableSpec` for every handle |
| | `SessionTyped` | `SessionSpec => []SessionType`, if `TablesAgree` |
| | `SessionKindsAgree` | `SessionSpec => []KindsAgree`, if `TablesAgree` |
| | `SessionLosesNothing` | `SessionSpec => []NothingLost`, if `TablesAgree` |
| | `CallersKeep` | `SessionSpec => CallerKeeps`, if `TablesAgree`: no method takes a wrapper from its caller |
| `ArrowCProofs` | `TypeCorrect` | `Spec => []TypeOK` |
| | `ReleasesExact` | `Spec => []ReleasedExactlyOnce` |
| | `ImportsEmpty` | `Spec => []ImportsConsume` |
| | `NeverTouchedAgain` | `Spec => ReleasedForGood`: nobody holds a released struct again |
| `AsyncClientsProofs` | `TypeCorrect` | `Spec => []TypeOK` |
| | `FramesCorrect` | `Spec => []FramesOwned` |
| | `ClientsCorrect` | `Spec => []ClientsAgree` |
| | `QueryRefinement` | `Spec => PromisedQuery!QuerySpec` |
| | `StreamRefinement` | `Spec => PromisedStream!PullSpec` |
| | `FramesComeInStep` | `Spec => FramesInStep`: a frame comes with the move of its query or stream |
| `AssetCacheProofs` | `TypeCorrect` | `Spec => []TypeOK` |
| | `NothingUnverified` | `Spec => OnlyVerified` |
| | `TakeTurns` | `Spec => []OneAtATime`: the calls of an isolate take turns |
| | `OneInside` | mutual exclusion of the locked part, if `OneIsolate` |
| | `ReturnedVerified` | `Spec => []ReturnedIsVerified`, if `OneIsolate` |
| | `LibraryStays` | `Spec => ValidStays`, if `OneIsolate`: a library in the cache stays there |
| `SqlCatalogProofs` | `TypeCorrect` | `FairSpec => []TypeOK` |
| | `StepsOfCatalog` | `FairSpec => Promise!CatalogInit /\ [][Promise!CatalogNext]_<<visible, answers>>` |

The first two extra assumptions cannot be left out, and a run shows it: `handle_owner_wide` for
`Representable = Handles`, `asset_cache_pool` for `OneIsolate` (calls of one process are in one
isolate, as they are in a build hook). Both hold in the instance of the passing run.
`TablesAgree` is a closed statement about the tables of methods and commands, with no
parameter of the model in it; TLC evaluates it in the run `session`, in full and not on an
instance, and the provers would have to do the same computation. With it, the theorems are
about every number of `Slots` and of `Deviations`.

Hardly any of the checked invariants is inductive by itself. In every module `IInv` is the
inductive one (`SessionInv` for `Session`); what it adds, and why:

**Registry.** `HandlesAccounted` after a registration
needs the handles returned to be new, which is a fact about the past of a slot. `IInv` adds
`EntriesMatch` (the object in a slot is the one its current handle
was returned for), `IssuedInPast` (a handle was issued only for a slot that exists, with a
generation not above the slot's, and below it if the slot is on the free stack) and
`ReleasedWereIssued`. `TargetFacts` shows that the slots chosen by `insert_many`
are distinct and empty, `FreshHandles` from `IssuedInPast` that their handles are new;
`ReleaseFacts` shows that a release names exactly the handle of the slot it empties;
`DecodeEncode` and `EncodeInjective` that handles of different slots or generations differ.
`RegisterStep`, `ReleaseStep` and `ResolveStep` preserve `IInv` action by action. For `Refinement`,
`TableIsSeen` rewrites the table under `IInv` in terms of the two histories, where a
registration is visibly an `Issue` and a release a `Drop`.

**Jobs.** The locks are not held between the steps of a command, so the invariant says what a
caller in the middle may count on all the same (`Holds`: a reserved or launched job is its
caller's alone; whoever carries a frame is the only one to do so and the job says `taken`).
`Consistent` says which states of a job, its observer and its channel occur together; it
contains `ObserverReports`. `Frames` says where the frame of a job is. `PermitsExact` counts two
sets, so its lemmas add and remove one member; `FrameConserved` and `CancelIsFinal` follow from
`Frames` and `Holds`. For `QueryRefinement` a job is looked at as its next command will find
it (`seen`): `SeenRefreshed` shows that a refresh then shows nothing new, `SeenIs` gives the
cases, and each action has a lemma that says where it takes what is seen (`Advances`). A
report that comes after the last holder has let go is dropped with the channel.
`HandedOut` rests on `NewCarrier`: only a take of a complete job adds to those who carry.

**BatchStream.** `FlowExact` is about the concatenation of what was received, what is in the
channel and what the worker holds. `Flow` says the same place by place (`InOrder`, `WorkerInStep`),
so that a send or a receive disturbs one message; `RunOf` leads back. `Held` (a command under way
keeps the stream from being dropped) is what the refinement of `PullStream` needs besides:
a poll that finds the channel empty or disconnected then maps to a stutter or a failure of an
active stream.

**HandleOwner.** The properties lean on each other. Leases are counted by a cardinality
(`Leased`), an owner with leases is neither released nor garbage (`LeaseKeeps`), what is in
somebody's hands is live and in nobody else's (`HeldLive`, `OneHolder`). Hence inputs are live, and
so every release is of a live handle. `NothingLeaks` is the one conjunct about leaks, and it alone
mentions `Representable`. `Life` then lists what one step may do to one handle and its
owner together, `Buried` (a handle whose owner is released is spent) closes the list after the
release, and `StepLives` shows that every step does one of these to every handle, though
a command issues, adopts or gives up two at once and a closing answer releases many. Dropped
to the table, the same list is the next-state relation of `HandleTable` for a single handle.

**Session.** `SessionInv` has the composite method under way hold what it made, in order, in slots of
its own that no wrapper has (`Making`). A request only adds (`Wraps`: some free slots get a handle and
a wrapper of its kind), which is where `TablesAgree` comes in; so neither it nor the caller's
closes disturb what the method made, and its `finally` closes those and nothing else.

**ArrowC.** `ReleasedExactlyOnce` is an equation between a counter and two unions over all places a
struct may be in. With the counter never going back, its value after a step also says that
a released struct is in none of these places again (`NeverTouchedAgain`). `Unique` says that no struct is in two places, `Importing` that an import has
taken its structs and has no array while it still holds the one to import, `Accounts` that owned
and shared structs are disjoint. A step changes one place; the lemmas of "The places of a
struct" say what becomes of the unions, and `Dropping` then releases the difference.

**AsyncClients.** `Exclusive` (one operation of the query at a time, `_busy`), `Phases` (a handle is
released when its owner is, and no operation runs on it then), `Taker` (a result that was taken is
on its way to the caller who took it), `Ended` (an answer on its way that tells of the end is
right) and `Frameful` (a registered frame is owned or in one answer, and frames still to come
are not registered) carry `FramesOwned` and `ClientsAgree`. The same invariant gives the two
refinements: `Moves` says what one step does to the job, to the stream and to the frames that
come out of them, each action has a lemma, and `PullStep` reads the stream's move in the
terms of `PullStream`. So nothing an accepted cancellation suppressed and no batch out of turn
is ever registered.

**AssetCache.** `OnlyVerified` needs one conjunct, `Renaming`: what is renamed was verified.
`ReturnedIsVerified` needs mutual exclusion, and the lock alone does not give it, as it belongs to
the process and any close gives it up. `Ordered` says that the live calls of an isolate form a
sequence in which each waits for the one before it; `QueuesEnter` appends to it, `QueuesLeave`
removes its head, and a crash leaves isolates of which nothing is asked any more, as no call of
the process goes on (`DieTogether`). So one call of an isolate is past its wait (`HeadOnly`), what
it gives up by a close is its own, and `Locked` follows; `Found` (what a call has found under the
cache name is still so) then lets nobody delete a library that another has returned, or that
anybody has put there (`LibraryStays`). The queues need neither the lock nor the assumption:
`QueuesAlways` is an invariant by itself, and `TakeTurns` follows from it.

**SqlCatalog.** `CallOK` says that a call is at one of the tables of its request, at the first when
it comes to the lock, and has been told nothing before it is through; `Mutex` is part of `TypeOK`.
The refinement hinges on `Reached`: the catalog after the changes left to the call in the context.
`OverlaidReached` shows that `visible` is it, `ReachedNext` that a step of the loop does not change it,
`ReachedAll` that it is the real catalog when none is left, and `EffectReached` that at the
acquisition of the lock it is what `Catalog` promises. Two catalogs reached are equal
(`ReachedOne`), which takes the names of a request to be distinct.

Only model-checked:

- Liveness, which is out of the prover's reach: `AbandonedFreesPermit`, `WorkerStops`,
  `PollingEnds`, `ClosedIsReleased`, `CallsEnd`, `WaitEnds`, and the `CallsReturn` part of
  `ImplementsCatalog`.
- `NoMismatch`, `RefusedWriteKeepsFile` and `TablesAgree` of `Session`, and `WireTable`. They
  compare constant tables, row by row, with the values each row takes: they hold because the
  tables agree, which is a finite computation that TLC carries out and that the provers do
  not, and not because of an argument that a proof would add.

Three details of the models are as they are for the sake of the proofs. `ArrowCAssumption` says of the
mark `Absent` that it is no set of structs, which is what `entries` need it to be. `UNION` and
`SUBSET` are written with parentheses before a `\cup`, since the tools disagree about which binds
tighter. `Session` names its specification `SessionSpec` and its other parts accordingly, so that
`HandleOwnerProofs` can extend it beside `HandleOwner`.

## 5. What is not modelled

Polars itself: what a query computes, and how it looks at its cancellation token. It is
external, with every outcome the code distinguishes. The formatting of JSON and the
layout of response buffers; the HTTPS client's redirects and limits, which are one step with
its outcomes. Arrow IPC in Dart, the Arrow arrays, copied batches and the codecs of dtypes and
scalars: pure functions of one value, whose interesting inputs (byte strings, nested types)
a bounded enumeration hardly reaches, and which the repository tests against files of
other implementations; requests carry them as well-formed objects. The 64 MiB of a request,
which both sides check; a handle written by hand into the map of `Expr.aggregate`, or into a
request of the exported `ProtocolClient`, which is under no owner. A foreign release
callback that calls back into the library while the registry is locked. The web and mock
invokers, which are stubs; objects of another runtime, which the Dart methods refuse before
they send anything; answers of a form the native side never sends. `registry::diagnostics`, which only reads.
In `HandleOwner`, two owners of one handle: the native side never answers with a handle twice
(`HandleTable`). An owner forgotten by a program whose transport has no finalizers stays
owned for ever, as in the code.

Two things the models contain and no property judges, since the code promises nothing about
them: a query whose observer thread cannot be started is not cancelled, and runs on with no job
and no permit (`SpawnFails` in `Jobs`); the failure of a stream is told to one poll, and every
later one is told that the stream is complete (`TakeVerdict` in `BatchStream`).

## 6. Plan

The modules are complete as far as section 5 goes, and every safety property of the runs has its
theorem, but for the comparisons of tables named above. What could still be added:

1. The parts of section 5: Arrow IPC, whose reader applies dictionaries in the order of the
   stream, is the one with an order to get wrong.
2. The lock held while an entry is dropped (`registry::release`) together with a release callback
   that calls back into the library, which the models take not to happen.
