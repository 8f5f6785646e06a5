# Verification of the ducklink extension

TLA+ models of the ducklink DuckDB extension (`src/`), their TLC configurations
and their TLAPS proofs. Paths below are relative to the repository; `module` in
code type is a TLA+ module of this directory.

## 1. The system

Ducklink loads WebAssembly components into a running DuckDB and registers what
they export as SQL functions. One DuckDB process has one runtime. DuckDB calls
it from any of its threads, at once.

| part | source | state it keeps | operations |
|---|---|---|---|
| Engine | `src/engine.rs` | `instances` (extension to `Arc<Mutex<ExtensionInstance>>`, behind an `RwLock`), thread-local query guard | `load`, sixteen `dispatch_*`, `NativeServices::query` |
| Component instance | `runtime/src/extension.rs` | one store and guest, pending registrations | guest `load`, `dispatch_*`, `shutdown` on drop; the host imports of a guest |
| Callback registry | `runtime/src/lib.rs` | `next_handle`, `entries` (behind an `RwLock`) | `allocate`, `remove`, `resolve`, `link_extension_instance` |
| Catalog and blob cache | `src/catalog.rs` | `CATALOG` (a `OnceLock`), `DOWNLOAD_LOCK`, the cache directory | `prewarm_catalog`, `resolve_name_to_blob`, `resolve_name_to_native`, `write_cache` |
| Load pipeline, registration | `src/reg_duckdb.rs` | `loaded` records, side registries for log storages, arrow tables and replacement scans, the persistent connections | `WasmLoad::bind`, `load_wasm_into_db`, `register_*` |
| Documentation views | `src/reg_duckdb.rs` | `DOC_CACHE`, `DOC_CACHE_GEN` | `bump_doc_cache_generation`, `get_or_build_doc_cache` |
| Callbacks DuckDB makes | `src/reg_duckdb.rs`, `src/delegating_agg.rs` | aggregate states, COPY and arrow sessions | scalar, table, aggregate, cast, copy, log, arrow |
| Prefixes, native hosting | `src/reg_duckdb.rs` | `ducklink.prefixes` | `ducklink_prefix`, `native_load_dispatch`, `community_native_load` |
| Event log | `src/events.rs` | a ring of at most 1024 events, `next_seq` | `emit`, `snapshot` |
| Marshalling | `src/reg_duckdb.rs`, `src/arrow_encoder.rs` | none | conversions |
| Guard, linking, entry | `runtime/src/contract_guard_bridge.rs`, `runtime/src/compose_dynlink.rs`, `src/lib.rs` | none | checks and glue, once per load or process |

### How the parts interact

- DuckDB binds `ducklink_load(x)`: the pipeline resolves `x` to a blob (catalog
  and cache), calls `Engine2::load`, registers what the component captured on
  DuckDB through the persistent connection, writes a record, bumps the
  documentation generation.
- The guest's `load()` runs inside `Engine2::load`. It allocates callback
  handles in the registry, registers them, and may query the database.
- DuckDB invokes a function with a callback handle. A dispatch looks the handle
  up, gets the instance from the slot's `Weak` or by name from the map, locks
  it and calls the guest.
- A second load of a name replaces the instance in the map. The slots of the
  extension are linked to the new one; DuckDB keeps the handles it has.
- Whoever drops the last `Arc` of an instance runs the guest's `shutdown`.

### What is hard

Loads, dispatches, shutdowns and guests' queries of several threads interleave
over three locks and reference counts. Loads of a name are not atomic:
publishing, linking, registering and recording are separate. The cache directory
is shared by processes that may crash. Views are built from state that loads
change meanwhile. Aggregate states are filled, merged and moved in any order
DuckDB likes; buffers of a thread outlive its calls; a stream's number outlives
the instance that gave it out; prefixes are many statements, any of which may
fail or be the last before a crash. `PROJECT.json` lists each such hazard at its
line, with the properties that would catch it, or why none does yet.

### What makes each part right

- Engine: a call reaches an instance of the extension that registered the
  function; the instance is live while it is used; shutdown comes once, after
  the last use, with no engine lock held; nobody waits for ever.
- Registry: a number that was given out never comes to mean something else.
- Cache: only verified bytes are cached, a reader sees whole files, a digest is
  fetched once, the lock always comes back, one catalog per process.
- Documentation views: a view shows every load that returned before it began.
- Pipeline: what a record lists can be called, what it counts is served from a
  load of its module, the side registries and DuckDB's catalog agree.
- Event log: a snapshot is the newest events, without a gap.
- Aggregates: what a group answers is the function of exactly its rows, each
  once, with its NULLs; a failing group fails the query.
- Vector calls: the guest sees the rows of this chunk, and DuckDB sees the
  guest's answers, each in its row, whatever earlier chunks left in buffers.
- Sessions: batches arrive in order and none is missing from a statement that
  succeeds; a guest is told to close a reader or a cursor when its statement is
  gone.
- Prefixes: a macro leads to a function; a prefix that is kept serves; a replay
  brings back all of a prefix, of its last declaration.

## 2. The modules

| module | models | correspondence |
|---|---|---|
| `CallbackRegistry` | the registry's table | a value and the operators `Allocate`, `Remove`, `Link`; a slot's `dispatcher_handle` is represented by the instance in whose private table it is an index |
| `Engine` | `Engine2` and the life of instances | one variable per shared field; per thread a load frame and a dispatch frame whose `pc` are the points where another thread can interfere |
| `InstanceLifecycle` | abstract: what an instance promises | `Activate`, `Serve`, `Release`, `Retire`; `Engine!ImplementsLifecycle` is the refinement |
| `BlobCache` | `resolve_name_to_blob`, `resolve_name_to_native`, `write_cache`, the catalog | worker threads of several processes, files as blocks so that a half-written one can be seen |
| `BlobStore` | abstract: what the cache promises who asks it | `Ask`, `Hit`, `StartFetch`, `Fetched`, `Leave`; `BlobCache!ImplementsStore` is the refinement |
| `DocCache` | records, generation and cached snapshot | a load's record and bump, a view's comparison, two reads and store, are separate steps |
| `AtomicViews` | abstract: a register that loads write and views read at one instant | `DocCache!ViewsAtomic` is the refinement, once for the documentation and once for the loaded flags |
| `EventLog` | `emit` and the ring | a value and an operator: the code does both under one mutex |
| `LoadPipeline` | `WasmLoad::bind` and `load_wasm_into_db` around `Engine2::load` | one frame per thread; a phase per group of surfaces, a step per registered item; what DuckDB has is `installed` |
| `Aggregates` | the callbacks of an aggregate, of components and delegating ones | DuckDB's states, each with what the code keeps for it; update, combine, finalize and destroy as DuckDB calls them |
| `ColumnState`, `Masks` | `ColNativeState` and the bytes of validity masks | values and operators: columns, lazy masks, `push_row`, `append_chunk`, `append`, `into_colvecs` |
| `Delegation` | `build_delegation_sql` and what DuckDB makes of it | operators: constant columns as literals, read in SQL's way, the others as placeholders |
| `VectorCalls` | scalar calls by columns and by rows, casts, table functions | one call at a time on a thread whose scratch buffers stay; a cell is known by where it comes from |
| `Sessions` | COPY TO, COPY FROM and arrow scans | a frame per statement, the objects of each instance of the guest |
| `BatchStreams` | abstract: what a stream promises | `Begin`, `Start`, `Move`, `EndReading`, `EndWriting`, `Fail`, `Leave`; `Sessions!ImplementsStreams` is the refinement |
| `Prefixes` | `native_load`, `community_native_load`, aliases, `ducklink_prefix`, replay | one call holds `rt.con`; a step per statement, which may fail |
| `EngineInv`, `BlobCacheInv`, `DocCacheInv`, `LoadPipelineInv` | inductive invariants | used by the proofs |
| `EngineMC`, `BlobCacheMC`, `DocCacheMC`, `LoadPipelineMC`, `AggregatesMC`, `VectorCallsMC`, `SessionsMC`, `PrefixesMC` | TLC instances | definitions and symmetry sets only |
| `EngineProofs`, `BlobCacheProofs`, `DocCacheProofs`, `LoadPipelineProofs`, `SessionsProofs`, `PrefixesProofs`, `AggregatesProofs`, `VectorCallsProofs` | theorems | section 5; the last four define their inductive invariants themselves |

Definitions called mutants in the modules are plausible faults of the code,
each defined before the definition it would replace. They are not part of any
specification. With the fault in place, TLC finds the property that
`PROJECT.json` names with it violated: this shows what each property is for.

### Engine

`BeginLoad` is the code up to the guest's `load()`. Compilation, the contract
guard and the store are local to the thread and fail without any effect.
`GuestStep` is what guest code does to the host, from `load()`, a dispatch or
`shutdown`: it allocates, releases and registers callbacks and starts a query.
`Insert`, `UnlockMap`, `DropPrev`, `LinkInstance` and `DropOwn` are the tail of
`Engine2::load` in its order. A dispatch is `BeginCall` (the guard is set),
`Resolve`, perhaps `Fallback`, `LockInstance`, `GuestReturns` or `HostPanics`,
`DropArc`, perhaps `ShutdownEnds`, `EndCall`. The dispatch surfaces of the
engine share this shape, so one frame stands for all of them, and `PROJECT.json`
maps its steps to the lines of one and says "alike". A reference count is not a
counter: `Referenced` says which places hold an `Arc`.

Nothing in the code orders the loads of a name, and nothing in the model does.
`overtaken` is history: the instances whose load had not linked its slots when
another load of the name entered the map.

`RawHandles` are numbers that a guest passes to the surfaces that store them
without allocating (`register_scalar_ex`, `register_arrow_table`,
`register_copy_handler`). With `{}` these surfaces are left out.

### BlobCache

A process has its own `catalog`, `populating` (who is inside the `OnceLock`'s
initialiser) and `lock`. The directory (`cached`, `partial`, `data`) is shared:
a path names a file, and an open file stays the same file when its name moves.
`Crash` ends a process and loses its memory, its locks and its open files, not
the directory. A download may return a wrong body and may fail; a write may fail
between blocks; the catalog fetch may fail, and then the bundled snapshot is the
catalog. The refinement to `BlobStore` forgets files, blocks, catalogs and
locks: a blob is stored when its path names a file with all its blocks.

### DocCache

`loaded[n]` is the number of the load whose record stands for `n`, 0 for none.
`returned[n]` is history: the newest load of `n` that has returned. `wanted` is
what a view's frame read of it when the view began. The generation counter is
relaxed in the code. A reader that sees a new generation takes the records'
mutex after the writer released it, and one variable is coherent, so the
interleaving model gives the reader everything the code can.

### LoadPipeline

`Begin` resolves the name and logs `load_start`. `EngineLoads` and `EngineFails`
are `Engine2::load` as one step; `Engine` has its details. Then the phases of
the code, in its order: scalars and tables with `rt.con` locked, aggregates on
the raw connection, the additive surfaces there too, log storages, macros with
`rt.con` locked again, the record, and `load_ok`. Each registration is one call
of DuckDB and one step, so loads of other threads come between any two.

An item is what a component declares under a name. `installed[x]` is the load
whose handle DuckDB has for it, 0 if the name is free. `Accepts` is DuckDB as
its return codes show it: a name that is present is an error, which the code
logs and passes over; `Refused` items are errors even if the name is free.
Macros replace each other (`CREATE OR REPLACE`). For a log storage the code
first publishes the handle in `LOG_STORAGE_REGISTRY` (`PublishStorage`) and
then registers with DuckDB (`InstallStorage`), whether that succeeds or not.
`current` is what the engine's map leads to; `overlapped` is history.

Abstracted: the additive surfaces (settings, COPY handlers, casts, types, ...)
have one shape and share a phase; the raw connection is taken to be open; the
order of items within a surface is free, since the code's order is the guest's.

### Aggregates

A state is what DuckDB allocates for a group: `InitState` makes it,
`BeginUpdate` passes a chunk with an array of target states, `Combine` moves the
rows of a source into a target and leaves the source empty, `BeginFinalize` asks
for the answers of a list of states, `Destroy` frees one. `ColNative` says which
kinds keep columns (`primitive` and `text`) and which keep rows (`wide`, for
DECIMAL, INTERVAL, UUID and nested types). `AppendRows` is the path of a chunk
whose rows all go to one state, `PushOne` the row-by-row path. A finalize
answers one state per step, so a refusal falls between two answers. `delegating`
states are those of `delegating_agg.rs`: a finalize builds and runs one nested
SELECT per group (`Delegation`). Masks are bytes of `ByteBits` bits that grow
when the first NULL arrives, and `Joined` shifts the bits of the source to the
end of the target.

DuckDB does two things that the two halves of the code take differently, and
every kind of aggregate meets both:

- It may pass one state for all rows of a chunk, then a null pointer, then slots
  that are not initialised (`SlotsFor`; sorted aggregates and frames of a whole
  partition). `Targets` is the code: a delegating aggregate looks for the sign
  and uses the first slot; a component's follows every slot, and `Crash` ends
  the process at a null one. A slot that is not initialised may also be a state
  of another group; a crash at the second row comes before any is followed.
- It may merge a state again (the status "kept"; the segment tree of a window).
  A delegating aggregate has cloned the rows and gives them again. A component's
  has moved them: of a column-native state the second merge indexes columns that
  are not there, a panic that `agg_guard` makes an error of the query; of a
  row-major one it adds nothing. `robbed` is history: the states that took rows
  from such a source, their own merges included.

In `Delegation` neither step keeps a value. `Alike` is `values_equal`, which
takes -0.0 for 0.0 and NaN for unlike itself. `Literal` is what SQL reads where
`value_to_sql_literal` wrote a value: the DOUBLE 1.0 is written `1`, an INTEGER,
NULL has no type, NaN and inf are text that SQL cannot read (`NoReading`), and
the nested query fails then, which answers NULL.

What the guest or the target computes is the operator `Value` of the rows, so
`AnswersExact` compares the rows it was given with the rows DuckDB sent; for a
delegation (`Delivers`) each column as it is, or throughout as SQL reads its
literals. Columns are at least one in the run: with none, a second merge does
not panic and adds nothing, as for row-major states.

### VectorCalls

`BeginColumns`, `ReadColumn` for each argument, `DispatchColumns` and `Ends` are
a call by columns (`do_scalar_batch_col`, `WasmScalar::invoke`): each column is
refilled in the scratch of the thread if its shape allows, or read fresh. A cell
is `Argument(t, k, j, i)`, of the type, call, column and row it comes from, so a
stale one can be seen.
`BeginRows` and `DispatchRow` are the row form (overloads, scalar-ex, casts). A
guest that fails (`Failed`) stops a call of a function; a cast gets its row's
error set, a NULL, and goes on to succeed.
`BindTable`, `DispatchTable`, `NextChunk`, `ScanChunk` and `Rescan` are table
functions: the guest is called at bind, and a scan hands out what it returned.
What a guest returns is any column: of any type, as many cells as there are rows
or not, with or without a mask.

### Sessions

`frame[s]` is what DuckDB keeps of a statement (bind, init and global state),
`guest[i]` the table of objects of instance `i`. `Reload` changes the instance
that the calls reach; numbers are not told of it. `received` and `written` are
what went through and what a finalized writer has on file. A guest may fail to
close an object, which is "kept" then: the three callers only log it
(`src/reg_duckdb.rs:9551`, 9699, 10248). `NothingLeftOpen` says that the close
was asked for. A writer has no
close: that a sink that failed leaves it open in the guest is the interface's,
and `NothingLeftOpen` does not speak of writers.

### Prefixes

Schemas, macros and the table survive a process if the database is a file. Each
statement is a step and may fail (`Fails`); `Exit` may come between any two.
`todo`, `rows` and `names` are what the loops have left. `clean`, `declared` and
`unkept` are history. The order of a loop is free: the code's is that of a hash
set or of a query without ORDER BY.

## 3. The runs

| run | instance | states | shows |
|---|---|---|---|
| `reload` | 1 extension, 3 instances, handles to 3 of which the guest may choose 1, 2 threads, loads of the name crossing, 1 call | 1,080,000 | `LinkedToCurrent`, `HandlesNeverRebind` |
| `concurrent` | 2 extensions, 3 instances, 2 handles allocated, 2 threads, loads at once, 2 calls, 1 query, 1 panic | 1,080,000 | `FunctionsResolve`, `RoutedToOwner`, `ServedWhileLive`, `ShutdownUnreachable`, `ImplementsLifecycle` |
| `live` | 1 extension, 2 instances, 2 threads, 2 calls, 2 queries, 1 panic, fair | 27,000 | `NoCircularWait`, `CallsReturn`, `LoadsReturn`, `ReplacedIsShutDown` |
| `raw_routing` | 2 extensions, a handle a guest chose | | violation, finding 1 |
| `cache_threads` | 1 process, 3 workers, 2 digests, 3 files of 2 blocks, 4 requests, 1 crash, fair | | `ImplementsStore`, `ReadersSeeWhole`, `FetchedOnce`, `OneCatalog`, `OnlyVerified`, `RequestsReturn` |
| `doc_cache` | 3 threads, 2 names, 3 loads | | `ReadsSeeReturnedLoads`, `CacheCurrent`, `ViewsAtomic` |
| `load_pipeline` | 2 threads, 2 modules that may declare the same names, 3 loads, a ring of 2, fair | | `ListedCallable`, `CountsServed`, `RecordCurrent`, `OneHandlePerStorage`, `StoragesKeepEntry`, `LogContiguous`, `LoadsReturn` |
| `storages` | 1 thread, 1 module, 2 loads | | violation, finding 2 |
| `aggregates` | 3 states of each of 4 kinds, 2 columns of DOUBLE, 3 rows, chunks of up to 3, 2 answers | 156,000 | `StatesHoldTheirRows`, `AnswersExact`, `FinishedAnswered` |
| `vector_calls` | 8 functions, 2 calls, chunks of up to 3 rows, bytes of 2 bits | 357,000 | `ArgumentsExact`, `ResultsExact` |
| `sessions` | 2 statements, 2 instances, 4 numbers, 3 batches | 53,000 | `BatchesInOrder`, `NothingCutOff`, `NothingLeftOpen`, `ImplementsStreams` |
| `prefixes` | 3 entries, 4 schemas, 2 names, 5 calls, 1 statement that fails, 1 exit | 1,380,000 | `AliasesLead`, `KeptPrefixesServe`, `ReplayMirrors`, `DeclarationsStick` |

The runs do not check the type invariants: each module's `TypeOK` is a theorem
(section 5) and holds for every value of the constants.

Bounds. Two threads are enough for every pair of frames to meet; a load that is
overtaken, a dispatch on the instance it replaces and a query from its shutdown
need two. Three instances give an extension two re-loads. `MaxHandle` is the
value at which the counter of handles stops, before it wraps: with 3, the
handles 1 and 2 are allocated, one each by two extensions or both by one.
`MaxCalls`, `MaxQueries`, `MaxPanics`, `MaxRequests`, `MaxCrashes` and
`MaxLoads` bound a behaviour; each is above the number of times the event has
to happen for the violations found or for the mutants to show. Two blocks tell
an empty, a partial and a whole file apart. In `load_pipeline` a component
declares either two aggregates, so that the first can be refused and the second
must still be tried, or one item of every other surface, of which the macro is
refused; three loads let two cross while a third replaces their record; a ring
of two evicts from the third event on.

In `aggregates` and `vector_calls` a byte of a mask has two bits, so that three
rows need two bytes and a merge has to shift across a byte's end. The columns
of `aggregates` have 0.0 and -0.0 in one and NULL and NaN in the other, so that
each column may be constant in a group and is written in a literal that SQL
reads differently, without its type, or not at all; chunks of three rows have a
slot after the null pointer. Three states are the smallest number with
which a state can be the target of one combine and the source of the next while
a third still takes rows. In `vector_calls` two calls with all combinations of
masks and functions meet every leftover: shorter after longer, a mask after none
and none after a mask, another type. In `sessions` two statements share an
instance and one may begin before and the other after the re-load. In `prefixes`
two entries share a namespace, one prefix is declared for two namespaces and
another is a prefix of the first; five calls are two loads, two declarations
and a load in a later process.

Symmetry is used in runs that check safety only, over model values that no
definition singles out. The runs with fairness use none.

Deadlock is checked in every run. `AtRest` is the stutter of a system where
nothing is under way; a state with work under way and no step is a deadlock.

Fairness. `WF_vars(Progress(t))` for each thread, in the modules with threads:
the operating system runs every thread, mutexes are handed to somebody,
downloads and catalog fetches end (the HTTP client has timeouts), and guests
return. The last is an assumption about guests: the engine sets neither fuel nor
an epoch deadline. Nothing is assumed of who gets a mutex; the bounds on calls
make starvation impossible in the instances. `LoadPipeline` takes it from
`Engine` that `Engine2::load` returns (`LoadsReturn` of the run `live`).
`Aggregates`, `VectorCalls`, `Sessions` and `Prefixes` state no fairness: DuckDB
decides what it calls, and may stop.

## 4. Findings

Two runs find what a comment, a document or the interface says violated:

1. **A number the guest chose is taken for a handle** (`raw_routing`,
   `runtime/src/extension.rs:1881`). The interface says that `callback-handle`
   routes every invocation back to the owning component, and the comment in the
   code says that a handle is allocated. It is not: the number is looked up in
   the table of all extensions.
2. **A re-load cuts off a log storage** (`storages`,
   `src/reg_duckdb.rs:12290`). The comment at 12118 says that the handle in
   `LOG_STORAGE_REGISTRY` is the one DuckDB calls with. A re-load of the module
   replaces the registry's handle, and DuckDB, which has the name already,
   keeps the first. `resolve_log_storage` then finds nothing and every entry
   written to the storage is dropped. It goes no further than that:
   `StoragesKeepEntry` says that the registry still has an entry of the same
   module for the storage, so a look-up by name would find the new instance.

The following were found with the same modules and other constants, which a
reader can set to see them:

- **Two processes, one partial file**: `ReadersSeeWhole` with two `Processes`
  (`src/catalog.rs:1162`). `write_cache` promises that a reader never sees a
  half-written blob. The partial path is fixed by the digest and `DOWNLOAD_LOCK`
  is per process.
- **A stream may go on with another's**: `BatchesInOrder` with `Numbers <-
  FromOne`, a guest that counts its readers and cursors from 1
  (`src/reg_duckdb.rs:10336`). After a re-load the number belongs to the new
  instance, where it may mean the reader of another statement. Loads are all it
  takes: if a component is loaded again only while no statement has a reader, a
  writer or a cursor, the property holds for such guests too
  (`StreamsBetweenLoads`).
- **Prefixes may be declared in a circle**: `AliasesLead` with `<<crypto, c>>`
  added to the `Declarations` of `PrefixesMC` (`src/reg_duckdb.rs:4975`, 5187).
  Nothing in `run_ducklink_prefix` looks at what the namespace is. A prefix that
  has a mirror of a schema can be mirrored back into it: the macros of both then
  call each other, the functions behind them are out of reach, and the replay of
  a later load makes the same circle again. Where declarations form no circle
  the property holds (`AliasesReachFunctions`).

These the models do as the code does, and the properties say what is left of
their promise:

- **Two loads of one name can cross** (`src/engine.rs:1224`). Comments at
  `src/reg_duckdb.rs:3549` and `src/catalog.rs:619` say that the engine's
  `Mutex` serialises loads, and `runtime/src/lib.rs:1428` that on a re-load
  every slot gets the latest weak. There is no such mutex: the map is written in
  one critical section and the slots are linked in another, and the load that
  wrote the map first can link last. The slots then lead to the instance that
  was replaced for as long as a dispatch keeps it alive, and after that to the
  current one by the fallback. `LinkedToCurrent` says that this, and nothing
  worse, is what crossing loads can leave behind.
- **Sorted aggregates and frames of a whole partition over aggregates of
  components** (`src/reg_duckdb.rs:3109`, 3133). `src/delegating_agg.rs:47` and
  267 describe how DuckDB calls update for these, with one state and slots that
  are null or not initialised, and guard the delegating aggregates against it.
  `agg_update` has no such guard and follows the null pointer (`Crash`), which
  no `catch_unwind` survives. Which of its paths DuckDB takes for a function of
  its C interface is not in this repository: if never this one, `Crash` is idle.
- **Windows over aggregates of components** (`src/reg_duckdb.rs:3176`;
  `src/delegating_agg.rs:342` says that DuckDB merges a source more than once).
  A combine moves the rows out of its source. If the state is column-native the
  second merge panics, an error of the query. If it is row-major, or the
  aggregate has no arguments, the rows are missing from the answer without an
  error: the states in `robbed`, which `StatesHoldTheirRows` and `AnswersExact`
  except.
- **A literal is not the value** (`src/delegating_agg.rs:551`, 656, 671). A
  constant column of BIGINT or DOUBLE is passed as INTEGER or DECIMAL if its value
  prints like one, so a target with an overload per type may take another one for
  a group whose rows are equal; -0.0 becomes 0; a group of NULLs passes NULL
  without a type; a group of one NaN, or of inf throughout, makes a query that is
  not valid, and its answer is NULL.
- **A cast that fails is NULL** (`src/reg_duckdb.rs:11323`): the callback sets
  the error of the row, goes on, and returns true. `ResultsExact` excepts it.
- **A close that fails is only logged** (`src/reg_duckdb.rs:9551`, 9699,
  10248), so the guest may keep the object.

The refinement of `AtomicViews` is stated twice for a reason: documentation and
loaded flags of a view are each as good as one read at one instant, but they are
read at two, the loaded flags first, so a view may have the documentation of a
load whose module it shows as not loaded yet. No comment promises more.

Read from the code, and kept by the models, without a property of their own: an
aggregate over DECIMAL, INTERVAL, UUID or nested arguments fails at its first
group with rows, where comments (`src/reg_duckdb.rs:2528`, 3226) speak of
falling back; a delegated aggregate whose nested query fails answers NULL
(`src/delegating_agg.rs:396`); entries that share a namespace are merged in one
schema, so a prefix of it mirrors both; and a load as native of an entry without
a community provider does not replay the prefixes, nor does one as wasm, though
`src/reg_duckdb.rs:4931` and 5072 say that the next load does.

## 5. The theorems

All hold for every value of the constants that meets the modules' assumptions
(a handle bound of at least one, model values outside the sets they mark).

| theorem | says | module |
|---|---|---|
| `TypeCorrect` | `Spec => []TypeOK` | `EngineProofs` |
| `DispatchesServedLive`, `ShutdownsUnreachable` | `ServedWhileLive` and `ShutdownUnreachable` | `EngineProofs` |
| `NobodyWaitsInACircle` | `NoCircularWait`: of any set of threads, one is not held up by the others | `EngineProofs` |
| `HandlesStable` | `Spec => HandlesNeverRebind` | `EngineProofs` |
| `EngineImplementsLifecycle` | `Spec => Lifecycle!Spec` | `EngineProofs` |
| `FunctionsStayResolved`, `CallsRouted` | `FunctionsResolve` and `RoutedToOwner`, when `RawHandles = {}` | `EngineProofs` |
| `SlotsFollowReloads` | `LinkedToCurrent`, for any crossing loads | `EngineProofs` |
| `CacheTypeCorrect`, `VerifiedOnly`, `CatalogOnce` | for any processes and crashes | `BlobCacheProofs` |
| `CacheSafe`, `BlobsFetchedOnce` | `ReadersSeeWhole` and `FetchedOnce`, when one process uses the directory | `BlobCacheProofs` |
| `CacheImplementsStore` | `Spec => Store!Spec`, when one process uses the directory | `BlobCacheProofs` |
| `LocksAreGivenBack` | a thread has `DOWNLOAD_LOCK`, or runs the catalog's initialiser, exactly at the steps between taking it and giving it back, for any processes and crashes | `BlobCacheProofs` |
| `DocsTypeCorrect`, `ReadsFresh`, `CacheFresh` | the properties of `doc_cache` | `DocCacheProofs` |
| `ViewsAreAtomic` | each half of a view is a read of an atomic register | `DocCacheProofs` |
| `SessionsTyped`, `StreamsInOrder`, `StreamsWhole`, `StreamsClosed` | the properties of `sessions`, when no two instances hand out one number | `SessionsProofs` |
| `SessionsImplementStreams` | `Spec => ImplementsStreams`, under the same condition | `SessionsProofs` |
| `StreamsBetweenLoads` | `ImplementsStreams` and `NothingLeftOpen` whatever numbers instances hand out, when loads come between statements | `SessionsProofs` |
| `PrefixesTyped`, `PrefixesServe`, `ReplayIsWhole`, `LoadsKeepDeclarations` | `KeptPrefixesServe`, `ReplayMirrors`, `DeclarationsStick` | `PrefixesProofs` |
| `AliasesReachFunctions` | `AliasesLead`, when the declarations users make form no circle | `PrefixesProofs` |
| `PipelineTypeCorrect`, `ListedAreCallable`, `CountsAreServed`, `RecordsAreCurrent`, `StoragesHaveOneHandle`, `StoragesKeepTheirEntry`, `LogIsContiguous` | the safety properties of `load_pipeline` | `LoadPipelineProofs` |
| `ConnectionIsGivenBack` | a load has `rt.con` exactly while it registers functions or creates macros | `LoadPipelineProofs` |
| `AggregatesTyped`, `StatesWhole`, `AnswersComputed`, `QueriesAnswered` | the properties of `aggregates`, for any chunks, merges and literals | `AggregatesProofs` |
| `VectorCallsTyped`, `ArgumentsArrive`, `ResultsArrive` | the properties of `vector_calls` | `VectorCallsProofs` |

The inductive invariants:

- `IInv` (`EngineInv`). `ServedWhileLive` alone is not inductive: what keeps an
  instance live is that somebody references it. `ReferencedLive` says so, and
  the parts on frames say which program points imply a reference, that two
  loads work on different instances (`LoadsApart`), that the mutex is held
  exactly by the dispatch whose guest runs (`LockInv`), and that a thread in a
  query is not inside a dispatch (`QueryInv`). The refinement follows step by
  step: an action is one step of `InstanceLifecycle` or a stutter.
- `LocksOrdered` (`EngineInv`), with `IInv` and `ConnInv`. A thread that waits
  is held up by one whose own request has a later place in the order connection,
  instance, registry, map (`Level`), so a circle of waiting threads would go up
  for ever. The finite descent is on `Level`, for any number of threads. What
  makes the order true is the guard of `NativeServices::query`: a thread inside
  a dispatch does not ask for the connection, and a guest's `shutdown` runs with
  no engine lock held.
- `RInv` (`EngineInv`). Whose handle is it: a slot's dispatcher and instance
  belong to its extension (`SlotInv`), what a guest may still release is its
  own and was given to nobody (`GuestInv`, `CapturedInv`, `FunctionInv`). This
  is where a raw number breaks the argument, hence the assumption.
- `SInv` (`EngineInv`). A load that was not overtaken finds its instance in the
  map from its insert to its return (`PublishedInv`); an instance that was
  overtaken is in the map of no name again (`OvertakenInv`); and a slot leads to
  the current instance, to an overtaken one, or a load is about to link it
  (`WeakInv`). With no load under way the last case is gone, and nobody but a
  call can hold an instance that is out of the map.
- `CInv` (`BlobCacheInv`). A file is written only with a verified body; the
  catalog does not change once a request has taken its digest from it.
- `WInv` (`BlobCacheInv`). With one process, `DOWNLOAD_LOCK` is held from the
  check to the rename, so the partial file belongs to one writer and has no
  second name. A crash leaves a partial file, which the next `Create` truncates.
  `CacheImplementsStore` follows from it step by step: the rename is `Fetched`,
  a check that finds the file is `Hit`, an error, a return or a crash is
  `Leave`.
- `LocksExact` (`BlobCacheInv`) is inductive on top of `CInv`, whatever other
  processes do to the files: every return and every error gives the lock back.
- `DInv` (`DocCacheInv`). A cached snapshot of the current generation agrees
  with the records except for names whose load is between record and bump, and
  nobody's `wanted` includes such a load. For `ViewsAreAtomic` a
  load becomes visible when its record is read for the first time or, at the
  latest, when it returns; `DInv` says that nothing visible is missing from a
  snapshot that may still be served.
- `LInv` (`LoadPipelineInv`). `ListedCallable` and `CountsServed` speak of
  records; the same must hold before of the frame a record is written from.
  `TriedInv` says that what a load has tried and DuckDB does not refuse is
  installed, by whichever load; `ServedInv` that what it counted is served from
  its module and stays so, since only macros are replaced and macros are not
  counted. `CurrentInv` follows the one load of a name from the engine's map to
  the record. `StorageInv` says that a storage a load has published and not yet
  installed has an entry of the load's module: whoever purges it puts another of
  that module in its place, which is what `StoragesKeepEntry` needs.
  `ConnectionExact` is an invariant of its own: no path of a phase keeps the
  mutex. The lemma `PhaseSafe` covers the steps that only change phase,
  `ItemSafe` those that register an item, and `EmitKeepsNewest` is about the
  ring alone.

- `IInv` (`SessionsProofs`). An instance has objects only under numbers of its
  own and none before it is loaded (`ObjectsHaveOwners`); the number in a frame
  is that of an object opened for the statement (`NumberHasObject`), the
  statement has no other, and as much went through the object as through the
  statement (`ObjectsHaveFrame`). `NumbersApart` makes this survive a re-load:
  the number in a frame is no number of the new instance. Without it
  `BatchesInOrder` is false (section 4), so the assumption is about guests and
  not for convenience. What the steps need of it is `OwnObjects`: a statement
  has objects in the instance that is loaded only. `LoadsBetween` gives the same
  without a word about numbers (`ObjectsHere`), and the proof of every step is
  shared. `KindsInv` says that only a reader is refused and no writer sees an
  end of a source; the refinement needs it to tell an end of reading from one of
  writing.
- `IInv` (`PrefixesProofs`). `RowsInv` says that what is left of a replay are
  rows of the table as it is, since nobody else can declare meanwhile;
  `ProgressInv` that the rows that are done are mirrored as long as nothing has
  failed. The namespace of a row has to be no prefix itself (`IsPlain`): only
  then do later rows leave it as it is. `CallInv` carries what a declaration has
  made to the write of its row, which `KeptPrefixesServe` needs; `RecordedInv`
  relates the table to the history of declarations. `AliasesReachFunctions` goes
  down the layers of the declarations: `DescentInv` says that macros, table and
  the call under way only lead from a schema to one of a lower rank. That the
  recursive function which follows the macros then ends at a function is by
  `ReachingUnfolds`, and by `LeastNumber`, which gives a set of numbers its
  least: a counterexample of least rank leads to one of lower rank.
- `IInv` (`AggregatesProofs`). `StatesHoldTheirRows` says what a reader of the
  columns sees; that is not inductive, since a mask whose bits beyond the last
  row are zeros would read the same now and turn the next rows into NULLs.
  `Holds` adds that a column has a cell per row and that the bits beyond are
  ones (`FitsMask`). Its lemmas follow the code: `CoveringFits` and
  `ClearedFits` are about bytes and bits, `GrownFits` about the lazy mask,
  `PushRowHolds`, `AppendChunkHolds` and `JoinedHolds` about the two update
  paths and the merge, for any width of a byte. `SlotsMean` says that the
  callback finds the states that DuckDB means, `FinalizeInv` that the groups
  that are left have the last places of the vector, each once. A state that a
  merge has emptied holds nothing or no columns at all; that a merge of it
  panics or robs its target keeps the rest true, so no assumption about DuckDB's
  merges or chunks is needed. For a delegation, rows that are alike have one
  literal (`LiteralAssumption`), so a constant column is delivered throughout as
  the reading of its own values.
- `IInv` (`VectorCallsProofs`). `RefillIsFresh` is the lemma behind it: whatever
  a slot of the scratch held, after `refill_colvec` it is the column as if read
  anew. `ReadInv` then says that the columns before the next one are those of
  the chunk, and that the null mask of the call marks the rows with a NULL in
  one of them (`NullsKnown`). `RowsInv` follows a call by rows up to the row
  that is due, `ScanInv` a scan: what is delivered are the rows up to the
  cursor, and a row of another type is still ahead of it.

Only model-checked: the liveness properties (`CallsReturn`, `LoadsReturn`,
`ReplacedIsShutDown`, `RequestsReturn`), since the prover does neither fairness
nor `ENABLED`, and the two violations. Every other property of a run is a
theorem. The library's induction theorems take an operator as a parameter and
cannot be used; where an induction over numbers was needed, `LeastNumber` stands
in for it. No module has a `RECURSIVE` operator.

## 6. Not modelled

- The wrap of the handle counter, the numbering of callbacks inside a guest, the
  text of messages and events.
- An operating system crash that loses file contents after a rename.
- Two databases in one process (`RUNTIME` keeps the first, the engine the last
  connection).
- Of the load pipeline: replacement scans, the preload of `init`, a raw
  connection that failed to open, settings and their callbacks beyond
  registration.
- Of the native path: which provider serves a name, INSTALL and LOAD, the
  documentation generated for them.
- Values: what a conversion does to one value (nested types, DECIMAL, arrow
  schemas, complex casts). A cell is known by where it comes from.
- The rows of discovery views, search scores and help: pure functions of the
  snapshot in `DocCache`.
- The contract guard, the linker and the entry point: checks and glue, once per
  load or process, that end in a step of `Engine` or change nothing.

## 7. Plan

Done: the modules of section 2 and the proofs of section 5. What is left, in the
order of what it would add:

1. Replacement scans and arrow tables in `LoadPipeline`: their registries
   outlive a load as that of log storages does.
2. Provider selection: wasm, native and community providers by generation and
   platform, as functions checked against a declarative definition.
3. Search and help: scores and selection against a reference definition.
4. A second database in the process.
