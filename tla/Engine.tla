------------------------------- MODULE Engine -------------------------------
(***************************************************************************)
(* The process-wide engine (src/engine.rs, Engine2) that loads components  *)
(* and dispatches DuckDB's invocations into them, with the callback        *)
(* registry it shares with every guest and the life of each guest instance *)
(* behind its Arc<Mutex<ExtensionInstance>>.                               *)
(*                                                                         *)
(* A thread is a DuckDB worker or session thread.  It can run two frames:  *)
(*   load[t]   a call of Engine2::load                                     *)
(*   call[t]   a dispatch (Engine2::dispatch_scalar and its siblings),     *)
(*             on its own or inside a query that the guest of load[t] made *)
(* The steps of a frame are the points where another thread can interfere: *)
(* a lock taken or released, an Arc cloned or dropped, guest code running. *)
(***************************************************************************)
EXTENDS CallbackRegistry, FiniteSets

CONSTANTS
    Threads,
    NoThread,
    RawHandles,   \* numbers a guest may pass to a surface that stores them
                  \* as they are (scalar-ex, arrow, copy); {} leaves those out
    MaxCalls,     \* bound on the dispatches of a behaviour
    MaxQueries,   \* bound on the queries guests make in a behaviour
    MaxPanics     \* bound on the host panics of a behaviour

ASSUME NoThreadAssumption == NoThread \notin Threads
ASSUME RawHandlesAssumption == RawHandles \subseteq Handles
ASSUME BoundsAssumption == /\ MaxCalls \in Nat
                            /\ MaxQueries \in Nat
                            /\ MaxPanics \in Nat

VARIABLES
    nextHandle,   \* CallbackRegistry.next_handle
    entries,      \* CallbackRegistry.entries
    instances,    \* Engine2.instances: extension -> its current instance
    mapWriter,    \* holder of the write lock of Engine2.instances
    status,       \* where each instance is in its life
    owner,        \* the extension each instance was loaded as
    lock,         \* holder of each instance's mutex
    poisoned,     \* the mutex's poison flag
    resources,    \* callback resources alive in each guest
    registered,   \* handles each guest has registered, not drained yet
    overtaken,    \* history: instances that were replaced before their load
                  \* linked its slots to them
    functions,    \* what load has handed to the DuckDB sink
    guard,        \* QUERY_REENTRANCY_GUARD, thread-local
    rawConn,      \* holder of the persistent connection's context lock
    query,        \* each thread's NativeServices::query
    load,         \* each thread's Engine2::load frame
    call,         \* each thread's dispatch frame
    budget        \* dispatches, queries, panics left in this behaviour

regVars == <<nextHandle, entries, resources, registered, overtaken>>
instVars == <<instances, mapWriter, status, owner, lock, poisoned>>
vars == <<nextHandle, entries, instances, mapWriter, status, owner, lock,
          poisoned, resources, registered, overtaken, functions, guard,
          rawConn, query, load, call, budget>>

-----------------------------------------------------------------------------
(* Types *)

OptInstance == Instances \cup {NoInstance}
Function == [extension : Extensions, handle : Handles]
NoFunction == [extension |-> NoInstance, handle |-> 0]
Status == {"unused", "loading", "failed", "live", "shutdown", "gone"}

LoadPc == {"idle", "guest_load", "insert", "unlock_map", "drop_prev",
           "shutdown_prev", "link", "drop_own", "shutdown_own"}
LoadFrame == [pc : LoadPc, inst : OptInstance, prev : OptInstance,
              captured : SUBSET Handles]
NotLoading == [pc |-> "idle", inst |-> NoInstance, prev |-> NoInstance,
               captured |-> {}]

CallPc == {"idle", "resolve", "fallback", "lock", "guest", "drop",
           "shutdown", "return"}
CallFrame == [pc : CallPc, fn : Function \cup {NoFunction},
              inst : OptInstance, saved : BOOLEAN]
NotCalling == [pc |-> "idle", fn |-> NoFunction, inst |-> NoInstance,
               saved |-> FALSE]

TypeOK ==
    /\ nextHandle \in Handles
    /\ entries \in [Handles -> Entry \cup {NoEntry}]
    /\ instances \in [Extensions -> OptInstance]
    /\ mapWriter \in Threads \cup {NoThread}
    /\ status \in [Instances -> Status]
    /\ owner \in [Instances -> Extensions \cup {NoInstance}]
    /\ lock \in [Instances -> Threads \cup {NoThread}]
    /\ poisoned \in [Instances -> BOOLEAN]
    /\ resources \in [Instances -> SUBSET Handles]
    /\ registered \in [Instances -> SUBSET Handles]
    /\ overtaken \in SUBSET Instances
    /\ functions \in SUBSET Function
    /\ guard \in [Threads -> BOOLEAN]
    /\ rawConn \in Threads \cup {NoThread}
    /\ query \in [Threads -> {"none", "waiting", "running"}]
    /\ load \in [Threads -> LoadFrame]
    /\ call \in [Threads -> CallFrame]
    /\ budget \in [calls : 0 .. MaxCalls, queries : 0 .. MaxQueries,
                  panics : 0 .. MaxPanics]

Init ==
    /\ nextHandle = FirstHandle
    /\ entries = NewEntries
    /\ instances = [e \in Extensions |-> NoInstance]
    /\ mapWriter = NoThread
    /\ status = [i \in Instances |-> "unused"]
    /\ owner = [i \in Instances |-> NoInstance]
    /\ lock = [i \in Instances |-> NoThread]
    /\ poisoned = [i \in Instances |-> FALSE]
    /\ resources = [i \in Instances |-> {}]
    /\ registered = [i \in Instances |-> {}]
    /\ overtaken = {}
    /\ functions = {}
    /\ guard = [t \in Threads |-> FALSE]
    /\ rawConn = NoThread
    /\ query = [t \in Threads |-> "none"]
    /\ load = [t \in Threads |-> NotLoading]
    /\ call = [t \in Threads |-> NotCalling]
    /\ budget = [calls |-> MaxCalls, queries |-> MaxQueries,
                 panics |-> MaxPanics]

-----------------------------------------------------------------------------
(* State functions *)

\* The strong references a frame holds to an instance's Arc.  A load owns its
\* instance alone until it publishes it, so it counts from then on.
LoadHolds(t, i) ==
    \/ load[t].inst = i /\ load[t].pc \in {"unlock_map", "drop_prev",
                                           "shutdown_prev", "link", "drop_own"}
    \/ load[t].prev = i /\ load[t].pc \in {"unlock_map", "drop_prev"}

CallHolds(t, i) == call[t].inst = i /\ call[t].pc \in {"lock", "guest", "drop"}

\* The Arc's strong count is positive: Weak::upgrade would succeed.
Referenced(i) ==
    /\ i \in Instances
    /\ \/ \E e \in Extensions : instances[e] = i
       \/ \E t \in Threads : LoadHolds(t, i) \/ CallHolds(t, i)

\* A dispatch holds the registry's read lock while it looks in the instances
\* map; every writer of the registry waits for it.
RegistryWritable == \A t \in Threads : call[t].pc # "fallback"

\* The loads of e that have published their instance, and not yet linked the
\* slots to it.
RelinkingPc == {"unlock_map", "drop_prev", "shutdown_prev", "link"}
Relinking(e) ==
    {t \in Threads : load[t].pc \in RelinkingPc /\ owner[load[t].inst] = e}

\* Which frame of t is on top of its stack when that frame is in guest code:
\* a query suspends the frame that made it, until the query ends or, for a
\* load, while the query's own dispatch runs.
CallOnTop(t) == query[t] # "waiting"
LoadOnTop(t) == call[t].pc = "idle" /\ query[t] = "none"

\* Guest code of instance i is running on t, in one of the frames' calls.
InGuest(t, i) ==
    \/ /\ CallOnTop(t)
       /\ call[t].pc \in {"guest", "shutdown"}
       /\ call[t].inst = i
    \/ /\ LoadOnTop(t)
       /\ \/ load[t].pc \in {"guest_load", "shutdown_own"} /\ load[t].inst = i
          \/ load[t].pc = "shutdown_prev" /\ load[t].prev = i

-----------------------------------------------------------------------------
(* What guest code can do to the host, from load(), a dispatch or shutdown *)

\* scalar-callback.new(n) and its siblings: allocate_callback_handle.
GuestAllocate(t, i) ==
    /\ InGuest(t, i)
    /\ RegistryWritable
    /\ nextHandle # MaxHandle            \* bound: the handles do not wrap
    /\ entries' = Allocate(entries, nextHandle, owner[i], i)
    /\ nextHandle' = NextHandle(nextHandle)
    /\ resources' = [resources EXCEPT ![i] = @ \cup {nextHandle}]
    /\ UNCHANGED <<instVars, registered, overtaken, functions, guard, rawConn,
                   query, load, call, budget>>

\* Mutant: the released handle is the next one given out.
GuestReleaseReusing(t, i, h) ==
    /\ InGuest(t, i)
    /\ RegistryWritable
    /\ h \in resources[i]
    /\ entries' = Remove(entries, h)
    /\ nextHandle' = h
    /\ resources' = [resources EXCEPT ![i] = @ \ {h}]
    /\ UNCHANGED <<instVars, registered, overtaken, functions, guard, rawConn,
                   query, load, call, budget>>

\* The guest drops a callback it did not register: release_callback_handle.
GuestRelease(t, i, h) ==
    /\ InGuest(t, i)
    /\ RegistryWritable
    /\ h \in resources[i]
    /\ entries' = Remove(entries, h)
    /\ resources' = [resources EXCEPT ![i] = @ \ {h}]
    /\ UNCHANGED <<instVars, nextHandle, registered, overtaken, functions,
                   guard, rawConn, query, load, call, budget>>

\* Mutant: the callback is not forgotten, the guest may still drop it.
GuestRegisterBorrowing(t, i, h) ==
    /\ InGuest(t, i)
    /\ h \in resources[i]
    /\ registered' = [registered EXCEPT ![i] = @ \cup {h}]
    /\ UNCHANGED <<instVars, nextHandle, entries, resources, overtaken,
                   functions, guard, rawConn, query, load, call, budget>>

\* scalar-registry.register and its siblings consume the callback
\* (mem::forget), so the guest can no longer release its handle.
GuestRegister(t, i, h) ==
    /\ InGuest(t, i)
    /\ h \in resources[i]
    /\ resources' = [resources EXCEPT ![i] = @ \ {h}]
    /\ registered' = [registered EXCEPT ![i] = @ \cup {h}]
    /\ UNCHANGED <<instVars, nextHandle, entries, overtaken, functions, guard,
                   rawConn, query, load, call, budget>>

\* register_scalar_ex, register_arrow_table, register_copy_handler: the
\* number the guest passes is captured as the callback handle as it is.
GuestRegisterRaw(t, i, n) ==
    /\ InGuest(t, i)
    /\ n \in RawHandles
    /\ registered' = [registered EXCEPT ![i] = @ \cup {n}]
    /\ UNCHANGED <<instVars, nextHandle, entries, resources, overtaken,
                   functions, guard, rawConn, query, load, call, budget>>

\* NativeServices::query goes on to duckdb_query unless the thread is inside
\* a dispatch (then the guest gets an Err, and nothing changes).
GuestQuery(t, i) ==
    /\ InGuest(t, i)
    /\ ~guard[t]
    /\ budget.queries > 0
    /\ budget' = [budget EXCEPT !.queries = @ - 1]
    /\ query' = [query EXCEPT ![t] = "waiting"]
    /\ UNCHANGED <<regVars, instVars, functions, guard, rawConn, load, call>>

\* duckdb_query runs one statement of a connection at a time.
QueryRuns(t) ==
    /\ query[t] = "waiting"
    /\ rawConn = NoThread
    /\ rawConn' = t
    /\ query' = [query EXCEPT ![t] = "running"]
    /\ UNCHANGED <<regVars, instVars, functions, guard, load, call, budget>>

QueryEnds(t) ==
    /\ query[t] = "running"
    /\ call[t].pc = "idle"
    /\ rawConn' = NoThread
    /\ query' = [query EXCEPT ![t] = "none"]
    /\ UNCHANGED <<regVars, instVars, functions, guard, load, call, budget>>

-----------------------------------------------------------------------------
(* Engine2::load *)

\* Up to guest.load(): the component is compiled, passes the contract guard
\* and gets a store of its own.  An Err before that point changes nothing.
BeginLoad(t, e) ==
    /\ load[t].pc = "idle"
    /\ call[t].pc = "idle"
    /\ \E i \in Instances :
         /\ status[i] = "unused"
         /\ status' = [status EXCEPT ![i] = "loading"]
         /\ owner' = [owner EXCEPT ![i] = e]
         /\ load' = [load EXCEPT ![t].pc = "guest_load", ![t].inst = i]
    /\ UNCHANGED <<regVars, instances, mapWriter, lock, poisoned, functions,
                   guard, rawConn, query, call, budget>>

\* guest.load() returned Ok; drain_pending takes what it registered so far.
GuestLoadReturns(t) ==
    /\ load[t].pc = "guest_load"
    /\ LoadOnTop(t)
    /\ load' = [load EXCEPT ![t].pc = "insert",
                            ![t].captured = registered[load[t].inst]]
    /\ registered' = [registered EXCEPT ![load[t].inst] = {}]
    /\ UNCHANGED <<instVars, nextHandle, entries, resources, overtaken,
                   functions, guard, rawConn, query, call, budget>>

\* guest.load() trapped or returned Err.  The store goes without a shutdown;
\* the handles it allocated stay in the registry.
GuestLoadFails(t) ==
    /\ load[t].pc = "guest_load"
    /\ LoadOnTop(t)
    /\ status' = [status EXCEPT ![load[t].inst] = "failed"]
    /\ load' = [load EXCEPT ![t] = NotLoading]
    /\ UNCHANGED <<regVars, instances, mapWriter, owner, lock, poisoned,
                   functions, guard, rawConn, query, call, budget>>

\* Mutant: entry(..).or_insert(..), a loaded name keeps its instance.
InsertIfAbsent(t) ==
    /\ load[t].pc = "insert"
    /\ mapWriter = NoThread
    /\ LET i == load[t].inst IN
         /\ mapWriter' = t
         /\ instances' = [instances EXCEPT
                            ![owner[i]] = IF @ = NoInstance THEN i ELSE @]
         /\ status' = [status EXCEPT ![i] = "live"]
         /\ load' = [load EXCEPT ![t].pc = "unlock_map"]
    /\ UNCHANGED <<regVars, owner, lock, poisoned, functions, guard, rawConn,
                   query, call, budget>>

\* Under the write lock of `instances`: the new Arc in, the previous one out.
Insert(t) ==
    /\ load[t].pc = "insert"
    /\ mapWriter = NoThread
    /\ LET i == load[t].inst IN
         /\ overtaken' = overtaken \cup
                            {load[u].inst : u \in Relinking(owner[i])}
         /\ mapWriter' = t
         /\ instances' = [instances EXCEPT ![owner[i]] = i]
         /\ status' = [status EXCEPT ![i] = "live"]
         /\ load' = [load EXCEPT ![t].pc = "unlock_map",
                                 ![t].prev = instances[owner[i]]]
    /\ UNCHANGED <<nextHandle, entries, resources, registered, owner, lock,
                   poisoned, functions, guard, rawConn, query, call, budget>>

\* Mutant: the previous Arc is dropped inside the locked block, so its last
\* reference runs the shutdown there.
UnlockMapLate(t) ==
    /\ load[t].pc = "unlock_map"
    /\ UNCHANGED <<regVars, instances, owner, lock, poisoned, functions, guard,
                   rawConn, query, call, budget>>
    /\ \E p \in OptInstance :
         /\ p = load[t].prev
         /\ \/ /\ p # NoInstance
               /\ load' = [load EXCEPT ![t].pc = "shutdown_prev"]
               /\ ~Referenced(p)'
               /\ status' = [status EXCEPT ![p] = "shutdown"]
               /\ UNCHANGED mapWriter
            \/ /\ load' = [load EXCEPT ![t].pc = "drop_prev"]
               /\ p = NoInstance \/ Referenced(p)'
               /\ mapWriter' = NoThread
               /\ UNCHANGED status

UnlockMap(t) ==
    /\ load[t].pc = "unlock_map"
    /\ mapWriter' = NoThread
    /\ load' = [load EXCEPT ![t].pc = "drop_prev"]
    /\ UNCHANGED <<regVars, instances, status, owner, lock, poisoned,
                   functions, guard, rawConn, query, call, budget>>

\* Mutant: a replaced instance is shut down at once, whoever still uses it.
DropPrevShutsDown(t) ==
    /\ load[t].pc = "drop_prev"
    /\ LET p == load[t].prev IN
         \/ /\ p # NoInstance
            /\ load' = [load EXCEPT ![t].pc = "shutdown_prev"]
            /\ status' = [status EXCEPT ![p] = "shutdown"]
         \/ /\ p = NoInstance
            /\ load' = [load EXCEPT ![t].pc = "link"]
            /\ UNCHANGED status
    /\ UNCHANGED <<regVars, instances, mapWriter, owner, lock, poisoned,
                   functions, guard, rawConn, query, call, budget>>

\* drop(prev_arc).  The last reference runs the guest's shutdown, here.
DropPrev(t) ==
    /\ load[t].pc = "drop_prev"
    /\ UNCHANGED <<regVars, instances, mapWriter, owner, lock, poisoned,
                   functions, guard, rawConn, query, call, budget>>
    /\ \E p \in OptInstance :
         /\ p = load[t].prev
         /\ \/ /\ p # NoInstance
               /\ load' = [load EXCEPT ![t].pc = "shutdown_prev"]
               /\ ~Referenced(p)'
               /\ status' = [status EXCEPT ![p] = "shutdown"]
            \/ /\ load' = [load EXCEPT ![t].pc = "link", ![t].prev = NoInstance]
               /\ p = NoInstance \/ Referenced(p)'
               /\ UNCHANGED status

ShutdownPrevEnds(t) ==
    /\ load[t].pc = "shutdown_prev"
    /\ LoadOnTop(t)
    /\ status' = [status EXCEPT ![load[t].prev] = "gone"]
    /\ load' = [load EXCEPT ![t].pc = "link", ![t].prev = NoInstance]
    /\ UNCHANGED <<regVars, instances, mapWriter, owner, lock, poisoned,
                   functions, guard, rawConn, query, call, budget>>

\* link_extension_instance, under the registry's write lock.
LinkInstance(t) ==
    /\ load[t].pc = "link"
    /\ RegistryWritable
    /\ entries' = Link(entries, owner[load[t].inst], load[t].inst)
    /\ load' = [load EXCEPT ![t].pc = "drop_own"]
    /\ UNCHANGED <<instVars, nextHandle, resources, registered, overtaken,
                   functions, guard, rawConn, query, call, budget>>

\* Each drained registration becomes an entry of the LoadedComponent, with the
\* name it was loaded under and the handle the guest gave it.
Drained(t) == [extension : {owner[load[t].inst]}, handle : load[t].captured]

\* load returns: the sink gets its functions, its frame and its Arc go.  A
\* load that was overtaken by another of the same name holds the last one.
Returned(t) ==
    /\ functions' = functions \cup Drained(t)
    /\ load' = [load EXCEPT ![t] = NotLoading]

DropOwn(t) ==
    /\ load[t].pc = "drop_own"
    /\ UNCHANGED <<regVars, instances, mapWriter, owner, lock, poisoned,
                   guard, rawConn, query, call, budget>>
    /\ \E i \in Instances :
         /\ i = load[t].inst
         /\ \/ /\ load' = [load EXCEPT ![t].pc = "shutdown_own"]
               /\ ~Referenced(i)'
               /\ status' = [status EXCEPT ![i] = "shutdown"]
               /\ UNCHANGED functions
            \/ /\ Returned(t)
               /\ Referenced(i)'
               /\ UNCHANGED status

ShutdownOwnEnds(t) ==
    /\ load[t].pc = "shutdown_own"
    /\ LoadOnTop(t)
    /\ Returned(t)
    /\ status' = [status EXCEPT ![load[t].inst] = "gone"]
    /\ UNCHANGED <<regVars, instances, mapWriter, owner, lock, poisoned,
                   guard, rawConn, query, call, budget>>

-----------------------------------------------------------------------------
(* A dispatch *)

Goto(t, pc) == call' = [call EXCEPT ![t].pc = pc]

\* Mutant: the wrapper of a surface without a QueryReentrancyGuard.
BeginCallUnguarded(t, fn) ==
    /\ call[t].pc = "idle"
    /\ load[t].pc = "idle" \/ query[t] = "running"
    /\ budget.calls > 0
    /\ budget' = [budget EXCEPT !.calls = @ - 1]
    /\ call' = [call EXCEPT ![t] = [pc |-> "resolve", fn |-> fn,
                                    inst |-> NoInstance, saved |-> guard[t]]]
    /\ UNCHANGED <<regVars, instVars, functions, guard, rawConn, query, load>>

\* The wrapper around every dispatch (reg_duckdb.rs) sets the thread's guard
\* and keeps its previous value.  DuckDB calls a function it was given, on a
\* thread of its own or, for a guest's query, on the thread that runs it.
BeginCall(t, fn) ==
    /\ call[t].pc = "idle"
    /\ load[t].pc = "idle" \/ query[t] = "running"
    /\ budget.calls > 0
    /\ budget' = [budget EXCEPT !.calls = @ - 1]
    /\ call' = [call EXCEPT ![t] = [pc |-> "resolve", fn |-> fn,
                                    inst |-> NoInstance, saved |-> guard[t]]]
    /\ guard' = [guard EXCEPT ![t] = TRUE]
    /\ UNCHANGED <<regVars, instVars, functions, rawConn, query, load>>

\* Under the registry's read lock.  No entry is an Err.  An entry whose Weak
\* upgrades gives the instance; otherwise the map is asked by name.
Resolve(t) ==
    /\ call[t].pc = "resolve"
    /\ LET entry == entries[call[t].fn.handle] IN
         \/ entry = NoEntry /\ Goto(t, "return")
         \/ /\ entry # NoEntry
            /\ Referenced(entry.instance)
            /\ call' = [call EXCEPT ![t].pc = "lock",
                                    ![t].inst = entry.instance]
         \/ /\ entry # NoEntry
            /\ ~Referenced(entry.instance)
            /\ Goto(t, "fallback")
    /\ UNCHANGED <<regVars, instVars, functions, guard, rawConn, query, load,
                   budget>>

\* instance_arc: "extension is not loaded" or the current instance.
Fallback(t) ==
    /\ call[t].pc = "fallback"
    /\ mapWriter = NoThread
    /\ LET i == instances[entries[call[t].fn.handle].extension] IN
         \/ i = NoInstance /\ Goto(t, "return")
         \/ /\ i # NoInstance
            /\ call' = [call EXCEPT ![t].pc = "lock", ![t].inst = i]
    /\ UNCHANGED <<regVars, instVars, functions, guard, rawConn, query, load,
                   budget>>

\* instance_arc.lock().expect(..): a poisoned mutex panics, and the panic
\* unwinds through the Arc and the guard to the wrapper's catch.
LockInstance(t) ==
    /\ call[t].pc = "lock"
    /\ LET i == call[t].inst IN
         /\ lock[i] = NoThread
         /\ \/ poisoned[i] /\ Goto(t, "drop") /\ UNCHANGED lock
            \/ /\ ~poisoned[i]
               /\ Goto(t, "guest")
               /\ lock' = [lock EXCEPT ![i] = t]
    /\ UNCHANGED <<regVars, instances, mapWriter, status, owner, poisoned,
                   functions, guard, rawConn, query, load, budget>>

\* Mutant: the mutex guard is leaked.
GuestReturnsLocked(t) ==
    /\ call[t].pc = "guest"
    /\ CallOnTop(t)
    /\ Goto(t, "drop")
    /\ UNCHANGED <<regVars, instVars, functions, guard, rawConn, query, load,
                   budget>>

\* The guest returned a value or an error, or trapped.
GuestReturns(t) ==
    /\ call[t].pc = "guest"
    /\ CallOnTop(t)
    /\ lock' = [lock EXCEPT ![call[t].inst] = NoThread]
    /\ Goto(t, "drop")
    /\ UNCHANGED <<regVars, instances, mapWriter, status, owner, poisoned,
                   functions, guard, rawConn, query, load, budget>>

\* Host code panicked with the mutex held.
HostPanics(t) ==
    /\ call[t].pc = "guest"
    /\ CallOnTop(t)
    /\ budget.panics > 0
    /\ budget' = [budget EXCEPT !.panics = @ - 1]
    /\ lock' = [lock EXCEPT ![call[t].inst] = NoThread]
    /\ poisoned' = [poisoned EXCEPT ![call[t].inst] = TRUE]
    /\ Goto(t, "drop")
    /\ UNCHANGED <<regVars, instances, mapWriter, status, owner, functions,
                   guard, rawConn, query, load>>

\* Mutant: the Arc is leaked, its instance outlives every user.
DropArcLeaks(t) ==
    /\ call[t].pc = "drop"
    /\ Goto(t, "return")
    /\ UNCHANGED <<regVars, instVars, functions, guard, rawConn, query, load,
                   budget>>

\* The dispatch drops its Arc.  If its instance was replaced meanwhile this
\* can be the last one, and the guest's shutdown runs on this thread.
DropArc(t) ==
    /\ call[t].pc = "drop"
    /\ UNCHANGED <<regVars, instances, mapWriter, owner, lock, poisoned,
                   functions, guard, rawConn, query, load, budget>>
    /\ \E i \in Instances :
         /\ i = call[t].inst
         /\ \/ /\ Goto(t, "shutdown")
               /\ ~Referenced(i)'
               /\ status' = [status EXCEPT ![i] = "shutdown"]
            \/ /\ Goto(t, "return")
               /\ Referenced(i)'
               /\ UNCHANGED status

ShutdownEnds(t) ==
    /\ call[t].pc = "shutdown"
    /\ CallOnTop(t)
    /\ status' = [status EXCEPT ![call[t].inst] = "gone"]
    /\ Goto(t, "return")
    /\ UNCHANGED <<regVars, instances, mapWriter, owner, lock, poisoned,
                   functions, guard, rawConn, query, load, budget>>

\* QueryReentrancyGuard::drop restores the value the call found.
EndCall(t) ==
    /\ call[t].pc = "return"
    /\ guard' = [guard EXCEPT ![t] = call[t].saved]
    /\ call' = [call EXCEPT ![t] = NotCalling]
    /\ UNCHANGED <<regVars, instVars, functions, rawConn, query, load, budget>>

-----------------------------------------------------------------------------
(* The specification *)

GuestStep(t) ==
    \E i \in Instances :
        \/ GuestAllocate(t, i)
        \/ \E h \in Handles : GuestRelease(t, i, h) \/ GuestRegister(t, i, h)
        \/ \E n \in RawHandles : GuestRegisterRaw(t, i, n)
        \/ GuestQuery(t, i)

\* What the host goes on to do, and the guests' own returns.
Progress(t) ==
    \/ QueryRuns(t) \/ QueryEnds(t)
    \/ GuestLoadReturns(t) \/ Insert(t) \/ UnlockMap(t) \/ DropPrev(t)
    \/ ShutdownPrevEnds(t) \/ LinkInstance(t) \/ DropOwn(t)
    \/ ShutdownOwnEnds(t)
    \/ Resolve(t) \/ Fallback(t) \/ LockInstance(t) \/ GuestReturns(t)
    \/ DropArc(t) \/ ShutdownEnds(t) \/ EndCall(t)

\* Nothing is under way.  Any other state without a step is a deadlock.
AtRest ==
    /\ \A t \in Threads : load[t].pc = "idle" /\ call[t].pc = "idle"
    /\ UNCHANGED vars

Next ==
    \/ \E t \in Threads :
         \/ Progress(t)
         \/ GuestStep(t)
         \/ GuestLoadFails(t)
         \/ HostPanics(t)
         \/ \E e \in Extensions : BeginLoad(t, e)
         \/ \E fn \in functions : BeginCall(t, fn)
    \/ AtRest

Spec == Init /\ [][Next]_vars

\* The scheduler runs every thread, and guest code returns from each call
\* (the engine sets no fuel and no epoch deadline that would make it).
FairSpec == Spec /\ \A t \in Threads : WF_vars(Progress(t))

-----------------------------------------------------------------------------
(* Properties *)

\* A dispatch runs in an instance of the extension that registered the
\* function (Engine2::dispatch_*: "resolves through the shared callback
\* registry to the owning component instance").
RoutedToOwner ==
    \A t \in Threads :
        call[t].pc \in {"lock", "guest"} =>
            owner[call[t].inst] = call[t].fn.extension

\* An instance a dispatch waits for or runs in is neither half loaded nor
\* shut down, whatever loads replaced it meanwhile (the Arc each holds).
ServedWhileLive ==
    \A t \in Threads :
        call[t].pc \in {"lock", "guest", "drop"} =>
            status[call[t].inst] = "live"

\* The guest's shutdown runs when nobody can reach its instance any more and
\* its thread holds no lock of the engine (load's comment on drop(prev_arc):
\* "runs with NO Engine2 locks held").
ShutdownUnreachable ==
    \A i \in Instances :
        status[i] \in {"shutdown", "gone"} =>
            /\ ~Referenced(i)
            /\ lock[i] = NoThread
            /\ \A t \in Threads :
                 InGuest(t, i) => mapWriter # t /\ \A j \in Instances : lock[j] # t

\* T cannot go on, or its guest cannot get or release a handle, before u gives
\* a lock back: the connection's, an instance's mutex, the registry's or the
\* map's.
WaitsFor(t, u) ==
    \/ query[t] = "waiting" /\ rawConn = u
    \/ call[t].pc = "lock" /\ lock[call[t].inst] = u
    \/ /\ load[t].pc = "link" \/ \E i \in Instances : InGuest(t, i)
       /\ call[u].pc = "fallback"
    \/ (load[t].pc = "insert" \/ call[t].pc = "fallback") /\ mapWriter = u

\* No threads wait for each other in a circle: of any threads, one is not held
\* up by the others, whatever loads, dispatches, queries of guests and
\* shutdowns they are in (NativeServices::query refuses what would close one).
NoCircularWait ==
    \A S \in SUBSET Threads : S # {} =>
        \E t \in S : \A u \in S : ~WaitsFor(t, u)

\* A handle that load gave to DuckDB keeps resolving to its extension.
FunctionsResolve ==
    \A fn \in functions :
        /\ entries[fn.handle] # NoEntry
        /\ entries[fn.handle].extension = fn.extension

\* "handles never rebind" (CallbackRegistry): a handle names the callback it
\* was allocated for until it is released, and nothing afterwards, since no
\* number is given out twice.
HandlesNeverRebind ==
    [][/\ nextHandle <= nextHandle'
       /\ \A h \in Handles :
            h < nextHandle =>
               \/ entries'[h] = NoEntry
               \/ /\ entries[h] # NoEntry
                  /\ entries'[h].extension = entries[h].extension
                  /\ entries'[h].dispatcher = entries[h].dispatcher]_vars

\* With no load under way, a slot that was linked leads to the extension's
\* current instance, however the loads of the name crossed, failed or were
\* late: or else to one that another load replaced before it was linked, and
\* that one serves calls only as long as earlier calls hold it.
LinkedToCurrent ==
    (\A t \in Threads : load[t].pc = "idle") =>
        \A h \in Handles :
            LET i == entries[h].instance
            IN entries[h] # NoEntry /\ i # NoInstance =>
                  \/ instances[entries[h].extension] = i
                  \/ /\ i \in overtaken
                     /\ Referenced(i) => \E t \in Threads : CallHolds(t, i)

\* The engine implements the life of an instance stated in
\* InstanceLifecycle: the mutex serves one thread, and the Arc's count decides
\* when the instance is retired.
Phase ==
    [i \in Instances |->
        CASE status[i] = "live" -> "active"
          [] status[i] = "shutdown" -> "retiring"
          [] status[i] = "gone" -> "retired"
          [] OTHER -> "fresh"]

Lifecycle == INSTANCE InstanceLifecycle
    WITH current <- instances, phase <- Phase, serving <- lock

ImplementsLifecycle == Lifecycle!Spec

\* Every dispatch returns to DuckDB.
CallsReturn ==
    \A t \in Threads : call[t].pc # "idle" ~> call[t].pc = "idle"

\* Every load returns.
LoadsReturn ==
    \A t \in Threads : load[t].pc # "idle" ~> load[t].pc = "idle"

\* An instance that was replaced has its guest's shutdown run to the end.
ReplacedIsShutDown ==
    \A i \in Instances :
        status[i] = "live" /\ instances[owner[i]] # i ~> status[i] = "gone"
=============================================================================
