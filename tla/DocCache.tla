----------------------------- MODULE DocCache -------------------------------
(***************************************************************************)
(* The documentation cache behind ducklink.docs, ducklink.search and       *)
(* ducklink_help (src/reg_duckdb.rs): a snapshot of the session's load     *)
(* records, kept with the load generation it was built against.  A load    *)
(* writes its record and then bumps the generation; a read compares the    *)
(* generations under the cache's mutex and rebuilds when they differ.  The *)
(* rebuild itself reads the records twice, under another mutex, while      *)
(* loads go on.                                                            *)
(*                                                                         *)
(* A record is the number of the load that wrote it, 0 when there is none. *)
(***************************************************************************)
EXTENDS Naturals

CONSTANTS
    Threads,
    NoThread,
    Names,
    NoName,
    NoGeneration, \* the generation of a cache not built yet (None)
    MaxLoads      \* bound on the loads of a behaviour

ASSUME NoThreadAssumption == NoThread \notin Threads
ASSUME NoGenerationAssumption == NoGeneration \notin Nat
ASSUME MaxLoadsAssumption == MaxLoads \in Nat

VARIABLES
    records,      \* loads recorded so far
    loaded,       \* DucklinkRuntime.loaded: the record of each name
    generation,   \* DOC_CACHE_GEN
    cache,        \* DOC_CACHE: a snapshot and its generation
    mutex,        \* holder of DOC_CACHE's mutex
    frame,        \* what each thread is doing
    returned      \* history: the newest record of each name whose load returned

vars == <<records, loaded, generation, cache, mutex, frame, returned>>

\* CachedDocs: which modules are marked loaded, whose documentation is merged.
Snapshot == [names : SUBSET Names, docs : [Names -> Nat]]
NoSnapshot == [names |-> {}, docs |-> [n \in Names |-> 0]]

Cache == [generation : Nat \cup {NoGeneration}, snapshot : Snapshot]

Pc == {"idle", "bump", "wait", "compare", "names", "docs", "store", "return"}
Frame == [pc : Pc, name : Names \cup {NoName}, record : Nat, wanted : [Names -> Nat],
          generation : Nat, snapshot : Snapshot]
Idle == [pc |-> "idle", name |-> NoName, record |-> 0,
         wanted |-> NoSnapshot.docs, generation |-> 0, snapshot |-> NoSnapshot]

TypeOK ==
    /\ records \in Nat
    /\ loaded \in [Names -> Nat]
    /\ generation \in Nat
    /\ cache \in Cache
    /\ mutex \in Threads \cup {NoThread}
    /\ frame \in [Threads -> Frame]
    /\ returned \in [Names -> Nat]

Init ==
    /\ records = 0
    /\ loaded = [n \in Names |-> 0]
    /\ generation = 0
    /\ cache = [generation |-> NoGeneration, snapshot |-> NoSnapshot]
    /\ mutex = NoThread
    /\ frame = [t \in Threads |-> Idle]
    /\ returned = [n \in Names |-> 0]

-----------------------------------------------------------------------------
(* The end of a load *)

\* Mutant: the generation is bumped before the record is written.
RecordBumped(t, n) ==
    /\ frame[t].pc = "idle"
    /\ records < MaxLoads
    /\ records' = records + 1
    /\ generation' = generation + 1
    /\ frame' = [frame EXCEPT ![t].pc = "bump", ![t].name = n,
                              ![t].record = records + 1]
    /\ UNCHANGED <<loaded, cache, mutex, returned>>

\* The record of a re-load replaces the one of the same name.
Record(t, n) ==
    /\ frame[t].pc = "idle"
    /\ records < MaxLoads
    /\ records' = records + 1
    /\ loaded' = [loaded EXCEPT ![n] = records + 1]
    /\ frame' = [frame EXCEPT ![t].pc = "bump", ![t].name = n,
                              ![t].record = records + 1]
    /\ UNCHANGED <<generation, cache, mutex, returned>>

\* Mutant: the load returns without bump_doc_cache_generation.
BumpForgotten(t) ==
    /\ frame[t].pc = "bump"
    /\ frame' = [frame EXCEPT ![t] = Idle]
    /\ returned' = [returned EXCEPT ![frame[t].name] =
                      IF frame[t].record > @ THEN frame[t].record ELSE @]
    /\ UNCHANGED <<records, loaded, generation, cache, mutex>>

\* bump_doc_cache_generation, after which the load returns.
Bump(t) ==
    /\ frame[t].pc = "bump"
    /\ generation' = generation + 1
    /\ frame' = [frame EXCEPT ![t] = Idle]
    /\ returned' = [returned EXCEPT ![frame[t].name] =
                      IF frame[t].record > @ THEN frame[t].record ELSE @]
    /\ UNCHANGED <<records, loaded, cache, mutex>>

-----------------------------------------------------------------------------
(* get_or_build_doc_cache *)

\* A bind of ducklink_docs or ducklink_search, or a row of ducklink_help.
BeginRead(t) ==
    /\ frame[t].pc = "idle"
    /\ frame' = [frame EXCEPT ![t].pc = "wait", ![t].wanted = returned]
    /\ UNCHANGED <<records, loaded, generation, cache, mutex, returned>>

LockCache(t) ==
    /\ frame[t].pc = "wait"
    /\ mutex = NoThread
    /\ mutex' = t
    /\ frame' = [frame EXCEPT ![t].pc = "compare"]
    /\ UNCHANGED <<records, loaded, generation, cache, returned>>

\* A snapshot of the current generation is given out as it is.
Compare(t) ==
    /\ frame[t].pc = "compare"
    /\ \/ /\ cache.generation = generation
          /\ frame' = [frame EXCEPT ![t].pc = "return",
                                    ![t].snapshot = cache.snapshot]
          /\ mutex' = NoThread
       \/ /\ cache.generation # generation
          /\ frame' = [frame EXCEPT ![t].pc = "names",
                                    ![t].generation = generation]
          /\ UNCHANGED mutex
    /\ UNCHANGED <<records, loaded, generation, cache, returned>>

\* build_doc_rows: loaded_names, then snapshot_component_docs.
ReadNames(t) ==
    /\ frame[t].pc = "names"
    /\ frame' = [frame EXCEPT ![t].pc = "docs",
                              ![t].snapshot.names = {n \in Names : loaded[n] # 0}]
    /\ UNCHANGED <<records, loaded, generation, cache, mutex, returned>>

ReadDocs(t) ==
    /\ frame[t].pc = "docs"
    /\ frame' = [frame EXCEPT ![t].pc = "store", ![t].snapshot.docs = loaded]
    /\ UNCHANGED <<records, loaded, generation, cache, mutex, returned>>

\* Mutant: the generation is read again when the snapshot is stored.
StoreNewest(t) ==
    /\ frame[t].pc = "store"
    /\ cache' = [generation |-> generation, snapshot |-> frame[t].snapshot]
    /\ frame' = [frame EXCEPT ![t].pc = "return"]
    /\ mutex' = NoThread
    /\ UNCHANGED <<records, loaded, generation, returned>>

\* Stored with the generation read before the build.
Store(t) ==
    /\ frame[t].pc = "store"
    /\ cache' = [generation |-> frame[t].generation,
                 snapshot |-> frame[t].snapshot]
    /\ frame' = [frame EXCEPT ![t].pc = "return"]
    /\ mutex' = NoThread
    /\ UNCHANGED <<records, loaded, generation, returned>>

EndRead(t) ==
    /\ frame[t].pc = "return"
    /\ frame' = [frame EXCEPT ![t] = Idle]
    /\ UNCHANGED <<records, loaded, generation, cache, mutex, returned>>

-----------------------------------------------------------------------------
(* The specification *)

Next ==
    \E t \in Threads :
        \/ \E n \in Names : Record(t, n)
        \/ Bump(t)
        \/ BeginRead(t) \/ LockCache(t) \/ Compare(t)
        \/ ReadNames(t) \/ ReadDocs(t) \/ Store(t) \/ EndRead(t)

Spec == Init /\ [][Next]_vars

-----------------------------------------------------------------------------
(* Properties *)

\* A snapshot has a load's effects, or those of a later load of the name.
Covers(snapshot, loads) ==
    \A n \in Names :
        loads[n] # 0 => n \in snapshot.names /\ loads[n] <= snapshot.docs[n]

\* "the next doc-view read observes the newly-loaded module's docs plus its
\* loaded=true flag" (bump_doc_cache_generation): a read sees every load that
\* returned before it began.
ReadsSeeReturnedLoads ==
    \A t \in Threads :
        frame[t].pc = "return" => Covers(frame[t].snapshot, frame[t].wanted)

\* With no load between its record and its bump, a cached snapshot that would
\* be given out is what a rebuild would give.
CacheCurrent ==
    (/\ cache.generation = generation
     /\ \A t \in Threads : frame[t].pc # "bump") =>
        /\ cache.snapshot.names = {n \in Names : loaded[n] # 0}
        /\ cache.snapshot.docs = loaded

\* The two halves of a view as AtomicViews has them: the documentation, and
\* the loaded flags (1 for TRUE).  What is visible is what returned or what the
\* newest build read, be it stored yet or not.
Building(pcs) == mutex # NoThread /\ frame[mutex].pc \in pcs
BuiltDocs == IF Building({"store"}) THEN frame[mutex].snapshot.docs
             ELSE cache.snapshot.docs
BuiltNames == IF Building({"docs", "store"}) THEN frame[mutex].snapshot.names
              ELSE cache.snapshot.names

VisibleDoc(n) == IF returned[n] > BuiltDocs[n] THEN returned[n] ELSE BuiltDocs[n]
LoadedFlag(n) == IF loaded[n] # 0 THEN 1 ELSE 0
VisibleFlag(n) == IF returned[n] # 0 \/ n \in BuiltNames THEN 1 ELSE 0

\* A read has its half of the answer once its pc is one of answered.
Phase(t, answered) ==
    CASE frame[t].pc = "idle" -> "idle"
      [] frame[t].pc = "bump" -> "loading"
      [] frame[t].pc \in answered -> "answered"
      [] OTHER -> "reading"
HasDocs == {"store", "return"}
HasNames == HasDocs \cup {"docs"}

LoadOf(t, value) == IF frame[t].pc = "bump" THEN <<frame[t].name, value>> ELSE <<>>
AnswerDoc(t, n) == IF frame[t].pc \in HasDocs THEN frame[t].snapshot.docs[n] ELSE 0
AnswerFlag(t, n) ==
    IF frame[t].pc \in HasNames /\ n \in frame[t].snapshot.names THEN 1 ELSE 0

Docs == INSTANCE AtomicViews WITH
    Values <- 1 .. MaxLoads,
    latest <- loaded,
    visible <- [n \in Names |-> VisibleDoc(n)],
    phase <- [t \in Threads |-> Phase(t, HasDocs)],
    load <- [t \in Threads |-> LoadOf(t, frame[t].record)],
    answer <- [t \in Threads |-> [n \in Names |-> AnswerDoc(t, n)]]

Flags == INSTANCE AtomicViews WITH
    Values <- {1},
    latest <- [n \in Names |-> LoadedFlag(n)],
    visible <- [n \in Names |-> VisibleFlag(n)],
    phase <- [t \in Threads |-> Phase(t, HasNames)],
    load <- [t \in Threads |-> LoadOf(t, 1)],
    answer <- [t \in Threads |-> [n \in Names |-> AnswerFlag(t, n)]]

\* Each half of a view is as good as one read at one instant, though the cache
\* may be built while loads go on: documentation or a loaded flag that one view
\* has shown is in every later one, and a load that returned is in all of them.
ViewsAtomic == Docs!Spec /\ Flags!Spec
=============================================================================
