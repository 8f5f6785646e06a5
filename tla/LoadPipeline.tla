---------------------------- MODULE LoadPipeline ----------------------------
(***************************************************************************)
(* ducklink_load (src/reg_duckdb.rs, WasmLoad::bind, and the same steps in *)
(* load_wasm_into_db): what a load does around and after Engine2::load.    *)
(* It registers on DuckDB what the component declared, keeps the registry  *)
(* of log storages, writes the record that the views show, and logs.       *)
(*                                                                         *)
(* A thing a component declares is an item: DuckDB knows it by its name.   *)
(* The item's handle belongs to one load, so the load's number stands for  *)
(* it.  Engine2::load is one step here; the module Engine has its details. *)
(***************************************************************************)
EXTENDS EventLog, FiniteSets

CONSTANTS
    Threads,
    NoThread,
    Modules,
    NoModule,
    Functions,    \* scalars and tables: registered with rt.con locked
    Aggregates,   \* registered on the raw connection, which has no lock
    Additive,     \* there too: settings, COPY handlers, casts, types, ...
    LogStorages,
    Macros,       \* CREATE OR REPLACE MACRO, with rt.con locked
    Refused,      \* items that are refused even if their name is free
    Components,   \* what a component may declare
    MaxLoads      \* bound on the loads of a behaviour

Items == Functions \cup Aggregates \cup Additive \cup LogStorages \cup Macros
Loads == 1 .. MaxLoads

ASSUME NoThreadAssumption == NoThread \notin Threads
ASSUME NoModuleAssumption == NoModule \notin Modules
ASSUME SurfacesAssumption ==
    /\ Functions \cap Aggregates = {}
    /\ (Functions \cup Aggregates) \cap Additive = {}
    /\ (Functions \cup Aggregates \cup Additive) \cap LogStorages = {}
    /\ (Functions \cup Aggregates \cup Additive \cup LogStorages)
         \cap Macros = {}
ASSUME ComponentsAssumption ==
    Refused \subseteq Items /\ Components \subseteq SUBSET Items
ASSUME MaxLoadsAssumption == MaxLoads \in Nat

VARIABLES
    loads,        \* how many loads have begun
    moduleOf,     \* the name each of them was loaded under
    current,      \* Engine2.instances: the load that a name leads to, or 0
    installed,    \* what DuckDB has: the load each item's handle is of, or 0
    registry,     \* LOG_STORAGE_REGISTRY
    records,      \* DucklinkRuntime.loaded; load 0 where there is no record
    con,          \* holder of the persistent connection's mutex
    log,          \* EVENT_LOG
    frame,        \* each thread's WasmLoad::bind
    overlapped    \* history: names that two loads were under way for at once

vars == <<loads, moduleOf, current, installed, registry, records, con, log,
          frame, overlapped>>

-----------------------------------------------------------------------------
(* Types *)

Pc == {"idle", "engine", "lock", "functions", "aggregates", "additive",
       "publish", "relock", "macros", "record", "report"}

Frame == [pc : Pc, module : Modules \cup {NoModule}, load : 0 .. MaxLoads,
          declared : SUBSET Items, todo : SUBSET Items,
          published : SUBSET LogStorages, registered : SUBSET Items]
NotLoading == [pc |-> "idle", module |-> NoModule, load |-> 0,
               declared |-> {}, todo |-> {}, published |-> {},
               registered |-> {}]

\* LoadedRecord: the counts are those of `registered`, funcs is `listed`.
Record == [load : 0 .. MaxLoads, registered : SUBSET Items,
           listed : SUBSET Items]
NoRecord == [load |-> 0, registered |-> {}, listed |-> {}]

\* LogStorageRegistration: the callback handle is that of the load's storage.
Registration == [module : Modules, name : LogStorages, load : Loads]

Event == [seq : Nat, kind : {"load_start", "load_ok", "load_error"},
          module : Modules]

TypeOK ==
    /\ loads \in 0 .. MaxLoads
    /\ moduleOf \in [Loads -> Modules \cup {NoModule}]
    /\ current \in [Modules -> 0 .. MaxLoads]
    /\ installed \in [Items -> 0 .. MaxLoads]
    /\ registry \in SUBSET Registration
    /\ records \in [Modules -> Record]
    /\ con \in Threads \cup {NoThread}
    /\ log \in [next_seq : Nat, events : Seq(Event)]
    /\ frame \in [Threads -> Frame]
    /\ overlapped \in SUBSET Modules

Init ==
    /\ loads = 0
    /\ moduleOf = [l \in Loads |-> NoModule]
    /\ current = [m \in Modules |-> 0]
    /\ installed = [x \in Items |-> 0]
    /\ registry = {}
    /\ records = [m \in Modules |-> NoRecord]
    /\ con = NoThread
    /\ log = EmptyLog
    /\ frame = [t \in Threads |-> NotLoading]
    /\ overlapped = {}

-----------------------------------------------------------------------------
(* DuckDB's side, as the return codes the code handles show it *)

\* A name that is there is an error; so is an item that was not built.
Accepts(x) == installed[x] = 0 /\ x \notin Refused

\* A surface is one call of DuckDB per item; an error is logged, and the
\* items after it are registered all the same.
Register(t, x) ==
    \/ /\ Accepts(x)
       /\ installed' = [installed EXCEPT ![x] = frame[t].load]
       /\ frame' = [frame EXCEPT ![t].todo = @ \ {x},
                                 ![t].registered = @ \cup {x}]
    \/ /\ ~Accepts(x)
       /\ frame' = [frame EXCEPT ![t].todo = @ \ {x}]
       /\ UNCHANGED installed

-----------------------------------------------------------------------------
(* The steps of a load *)

\* The name is resolved to a file, and the log says so before the engine runs.
Begin(t, m) ==
    /\ frame[t].pc = "idle"
    /\ loads < MaxLoads                                    \* bound
    /\ loads' = loads + 1
    /\ moduleOf' = [moduleOf EXCEPT ![loads'] = m]
    /\ log' = Emit(log, "load_start", m)
    /\ frame' = [frame EXCEPT ![t] =
                   [NotLoading EXCEPT !.pc = "engine", !.module = m,
                                      !.load = loads']]
    /\ overlapped' = overlapped \cup
         {n \in {m} : \E u \in Threads : frame[u].module = n}
    /\ UNCHANGED <<current, installed, registry, records, con>>

\* Engine2::load succeeds: its instance is the name's current one.
EngineLoads(t) ==
    /\ frame[t].pc = "engine"
    /\ current' = [current EXCEPT ![frame[t].module] = frame[t].load]
    /\ \E component \in Components :
         frame' = [frame EXCEPT ![t].pc = "lock", ![t].declared = component]
    /\ UNCHANGED <<loads, moduleOf, installed, registry, records, con, log,
                   overlapped>>

EngineFails(t) ==
    /\ frame[t].pc = "engine"
    /\ log' = Emit(log, "load_error", frame[t].module)
    /\ frame' = [frame EXCEPT ![t] = NotLoading]
    /\ UNCHANGED <<loads, moduleOf, current, installed, registry, records, con,
                   overlapped>>

\* rt.con.lock(), for the scalars and the tables.
LockConnection(t) ==
    /\ frame[t].pc = "lock"
    /\ con = NoThread
    /\ con' = t
    /\ frame' = [frame EXCEPT ![t].pc = "functions",
                              ![t].todo = frame[t].declared \cap Functions]
    /\ UNCHANGED <<loads, moduleOf, current, installed, registry, records, log,
                   overlapped>>

\* Mutant: a name that is present counts as registered.
RegisterFunctionCounted(t, x) ==
    /\ frame[t].pc = "functions"
    /\ x \in frame[t].todo
    /\ installed' = [installed EXCEPT
                       ![x] = IF Accepts(x) THEN frame[t].load ELSE @]
    /\ frame' = [frame EXCEPT ![t].todo = @ \ {x},
                              ![t].registered = @ \cup {x}]
    /\ UNCHANGED <<loads, moduleOf, current, registry, records, con, log,
                   overlapped>>

RegisterFunction(t, x) ==
    /\ frame[t].pc = "functions"
    /\ x \in frame[t].todo
    /\ Register(t, x)
    /\ UNCHANGED <<loads, moduleOf, current, registry, records, con, log,
                   overlapped>>

\* Mutant: the guard of the connection lives on to the end of the function.
UnlockConnectionNever(t) ==
    /\ frame[t].pc = "functions"
    /\ frame[t].todo = {}
    /\ frame' = [frame EXCEPT ![t].pc = "aggregates",
                              ![t].todo = frame[t].declared \cap Aggregates]
    /\ UNCHANGED <<loads, moduleOf, current, installed, registry, records, con,
                   log, overlapped>>

\* drop(con)
UnlockConnection(t) ==
    /\ frame[t].pc = "functions"
    /\ frame[t].todo = {}
    /\ con' = NoThread
    /\ frame' = [frame EXCEPT ![t].pc = "aggregates",
                              ![t].todo = frame[t].declared \cap Aggregates]
    /\ UNCHANGED <<loads, moduleOf, current, installed, registry, records, log,
                   overlapped>>

\* Mutant: the first name that is present ends the surface.
RegisterAggregateStopping(t, x) ==
    /\ frame[t].pc = "aggregates"
    /\ x \in frame[t].todo
    /\ \/ Accepts(x) /\ Register(t, x)
       \/ /\ ~Accepts(x)
          /\ frame' = [frame EXCEPT ![t].todo = {}]
          /\ UNCHANGED installed
    /\ UNCHANGED <<loads, moduleOf, current, registry, records, con, log,
                   overlapped>>

RegisterAggregate(t, x) ==
    /\ frame[t].pc = "aggregates"
    /\ x \in frame[t].todo
    /\ Register(t, x)
    /\ UNCHANGED <<loads, moduleOf, current, registry, records, con, log,
                   overlapped>>

AggregatesDone(t) ==
    /\ frame[t].pc = "aggregates"
    /\ frame[t].todo = {}
    /\ frame' = [frame EXCEPT ![t].pc = "additive",
                              ![t].todo = frame[t].declared \cap Additive]
    /\ UNCHANGED <<loads, moduleOf, current, installed, registry, records, con,
                   log, overlapped>>

\* The record does not count what these surfaces register.
RegisterAdditive(t, x) ==
    /\ frame[t].pc = "additive"
    /\ x \in frame[t].todo
    /\ installed' = [installed EXCEPT
                       ![x] = IF Accepts(x) THEN frame[t].load ELSE @]
    /\ frame' = [frame EXCEPT ![t].todo = @ \ {x}]
    /\ UNCHANGED <<loads, moduleOf, current, registry, records, con, log,
                   overlapped>>

AdditiveDone(t) ==
    /\ frame[t].pc = "additive"
    /\ frame[t].todo = {}
    /\ frame' = [frame EXCEPT ![t].pc = "publish",
                              ![t].todo = frame[t].declared \cap LogStorages]
    /\ UNCHANGED <<loads, moduleOf, current, installed, registry, records, con,
                   log, overlapped>>

\* Mutant: a storage's name is taken for its own, whichever module has it.
PublishStorageAnyModule(t, x) ==
    /\ frame[t].pc = "publish"
    /\ frame[t].published = {}
    /\ x \in frame[t].todo
    /\ registry' =
         {r \in registry : r.name # x} \cup
         [module : {frame[t].module}, name : {x}, load : {frame[t].load}]
    /\ frame' = [frame EXCEPT ![t].published = {x}]
    /\ UNCHANGED <<loads, moduleOf, current, installed, records, con, log,
                   overlapped>>

\* Mutant: the entries of earlier loads are not purged.
PublishStorageStacking(t, x) ==
    /\ frame[t].pc = "publish"
    /\ frame[t].published = {}
    /\ x \in frame[t].todo
    /\ registry' = registry \cup
         [module : {frame[t].module}, name : {x}, load : {frame[t].load}]
    /\ frame' = [frame EXCEPT ![t].published = {x}]
    /\ UNCHANGED <<loads, moduleOf, current, installed, records, con, log,
                   overlapped>>

\* Under the registry's mutex: earlier entries of the module's storage out,
\* the new handle in.  A load's handle is never one the registry has.
PublishStorage(t, x) ==
    /\ frame[t].pc = "publish"
    /\ frame[t].published = {}
    /\ x \in frame[t].todo
    /\ registry' =
         {r \in registry : ~(r.module = frame[t].module /\ r.name = x)} \cup
         [module : {frame[t].module}, name : {x}, load : {frame[t].load}]
    /\ frame' = [frame EXCEPT ![t].published = {x}]
    /\ UNCHANGED <<loads, moduleOf, current, installed, records, con, log,
                   overlapped>>

\* duckdb_register_log_storage, after the registry's mutex is released.
InstallStorage(t, x) ==
    /\ frame[t].pc = "publish"
    /\ x \in frame[t].published
    /\ installed' = [installed EXCEPT
                       ![x] = IF Accepts(x) THEN frame[t].load ELSE @]
    /\ frame' = [frame EXCEPT ![t].published = {}, ![t].todo = @ \ {x}]
    /\ UNCHANGED <<loads, moduleOf, current, registry, records, con, log,
                   overlapped>>

\* ducklink_log_storage_write: an entry for x reaches the engine if the handle
\* that DuckDB calls with is in the registry, and is dropped otherwise.
Resolves(x) == \E r \in registry : r.load = installed[x] /\ r.name = x

StoragesDone(t) ==
    /\ frame[t].pc = "publish"
    /\ frame[t].todo = {}
    /\ frame' = [frame EXCEPT ![t].pc = "relock"]
    /\ UNCHANGED <<loads, moduleOf, current, installed, registry, records, con,
                   log, overlapped>>

\* rt.con.lock() again, for the macros.
RelockConnection(t) ==
    /\ frame[t].pc = "relock"
    /\ con = NoThread
    /\ con' = t
    /\ frame' = [frame EXCEPT ![t].pc = "macros",
                              ![t].todo = frame[t].declared \cap Macros]
    /\ UNCHANGED <<loads, moduleOf, current, installed, registry, records, log,
                   overlapped>>

\* A macro replaces the one of its name, whoever created that.
CreateMacro(t, x) ==
    /\ frame[t].pc = "macros"
    /\ x \in frame[t].todo
    /\ installed' = [installed EXCEPT
                       ![x] = IF x \in Refused THEN @ ELSE frame[t].load]
    /\ frame' = [frame EXCEPT ![t].todo = @ \ {x}]
    /\ UNCHANGED <<loads, moduleOf, current, registry, records, con, log,
                   overlapped>>

MacrosDone(t) ==
    /\ frame[t].pc = "macros"
    /\ frame[t].todo = {}
    /\ con' = NoThread
    /\ frame' = [frame EXCEPT ![t].pc = "record"]
    /\ UNCHANGED <<loads, moduleOf, current, installed, registry, records, log,
                   overlapped>>

LiveRecord(t) ==
    [load |-> frame[t].load, registered |-> frame[t].registered,
     listed |-> frame[t].declared \cap (Functions \cup Aggregates)]

\* Mutant: a module that has a record keeps it.
WriteRecordOnce(t) ==
    /\ frame[t].pc = "record"
    /\ records' = [records EXCEPT
                     ![frame[t].module] = IF @ = NoRecord THEN LiveRecord(t)
                                                          ELSE @]
    /\ frame' = [frame EXCEPT ![t].pc = "report"]
    /\ UNCHANGED <<loads, moduleOf, current, installed, registry, con, log,
                   overlapped>>

\* Under the records' mutex: the module's record is replaced, or pushed.
WriteRecord(t) ==
    /\ frame[t].pc = "record"
    /\ records' = [records EXCEPT ![frame[t].module] = LiveRecord(t)]
    /\ frame' = [frame EXCEPT ![t].pc = "report"]
    /\ UNCHANGED <<loads, moduleOf, current, installed, registry, con, log,
                   overlapped>>

\* The documentation views are told (module DocCache), the log is, and the
\* load returns.
Report(t) ==
    /\ frame[t].pc = "report"
    /\ log' = Emit(log, "load_ok", frame[t].module)
    /\ frame' = [frame EXCEPT ![t] = NotLoading]
    /\ UNCHANGED <<loads, moduleOf, current, installed, registry, records, con,
                   overlapped>>

-----------------------------------------------------------------------------
(* The specification *)

\* What a load that is under way goes on to do.
Progress(t) ==
    \/ EngineLoads(t) \/ EngineFails(t)
    \/ LockConnection(t) \/ UnlockConnection(t) \/ AggregatesDone(t)
    \/ AdditiveDone(t)
    \/ StoragesDone(t) \/ RelockConnection(t) \/ MacrosDone(t)
    \/ WriteRecord(t) \/ Report(t)
    \/ \E x \in Items :
         \/ RegisterFunction(t, x) \/ RegisterAggregate(t, x)
         \/ RegisterAdditive(t, x) \/ PublishStorage(t, x)
         \/ InstallStorage(t, x) \/ CreateMacro(t, x)

\* No load is under way.  Any other state without a step is a deadlock.
AtRest == (\A t \in Threads : frame[t].pc = "idle") /\ UNCHANGED vars

Next ==
    \/ \E t \in Threads :
         \/ Progress(t)
         \/ \E m \in Modules : Begin(t, m)
    \/ AtRest

Spec == Init /\ [][Next]_vars

\* The scheduler runs every thread, and Engine2::load returns (module Engine).
FairSpec == Spec /\ \A t \in Threads : WF_vars(Progress(t))

-----------------------------------------------------------------------------
(* Properties *)

\* What a record lists can be called, unless DuckDB refuses it: a name that
\* is present already never keeps the others from being registered
\* ("`ducklink_load` can be called again without failing", IDEMPOTENCY).
ListedCallable ==
    \A m \in Modules :
        \A x \in records[m].listed \ Refused : installed[x] # 0

\* The counts of a record never exceed what DuckDB serves from the module,
\* and no two modules count the same function.
CountsServed ==
    \A m \in Modules :
        \A x \in records[m].registered :
            installed[x] # 0 /\ moduleOf[installed[x]] = m

\* Unless two loads of a name overlapped, its record is that of the instance
\* the engine has ("A re-load of the same name updates the existing record").
RecordCurrent ==
    \A m \in Modules \ overlapped :
        (\A t \in Threads : frame[t].module # m) =>
            records[m].load = current[m]

\* The registry has one handle for each storage of a module, however many
\* loads register it at once ("purge any stale entries for the same sink").
OneHandlePerStorage ==
    \A r, s \in registry : r.module = s.module /\ r.name = s.name => r = s

\* A storage that DuckDB calls is one the registry knows, by its name and its
\* module, whatever was loaded since: if its handle is gone, then another load
\* of the same module took its entry, never another module ("purge any stale
\* entries for the same sink before inserting the new one").
StoragesKeepEntry ==
    \A x \in LogStorages :
        installed[x] # 0 =>
          \E r \in registry : /\ r.name = x
                              /\ r.module = moduleOf[installed[x]]

\* The log holds the newest events, in the order of their numbers.
LogContiguous == Newest(log)

\* Every load returns, whoever holds the connection.
LoadsReturn ==
    \A t \in Threads : frame[t].pc # "idle" ~> frame[t].pc = "idle"

\* A storage that DuckDB calls finds its component: "the `callback_handle`
\* stored here IS the same allocated global" (LogStorageRegistration).
StoragesResolve ==
    \A x \in LogStorages : installed[x] # 0 => Resolves(x)
=============================================================================
