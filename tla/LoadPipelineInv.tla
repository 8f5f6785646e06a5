-------------------------- MODULE LoadPipelineInv ---------------------------
(***************************************************************************)
(* The inductive invariant of LoadPipeline: what a load that is under way  *)
(* has put on DuckDB so far, and what it will find when it writes its      *)
(* record.                                                                 *)
(***************************************************************************)
EXTENDS LoadPipeline

Loading(t) == frame[t].pc # "idle"

\* A load has a module and a number of its own that tells the module.
FrameInv ==
    \A t \in Threads :
        /\ ~Loading(t) => frame[t] = NotLoading
        /\ Loading(t) =>
             /\ frame[t].module \in Modules
             /\ frame[t].load \in 1 .. loads
             /\ moduleOf[frame[t].load] = frame[t].module

\* What is left to register is of the surface at hand.
TodoInv ==
    \A t \in Threads :
        /\ frame[t].pc = "functions" => frame[t].todo \subseteq Functions
        /\ frame[t].pc = "aggregates" => frame[t].todo \subseteq Aggregates
        /\ frame[t].pc = "additive" => frame[t].todo \subseteq Additive
        /\ frame[t].pc = "publish" => frame[t].todo \subseteq LogStorages
        /\ frame[t].pc = "macros" => frame[t].todo \subseteq Macros

\* The items a load has gone through and will list.
Tried(t) ==
    LET pc == frame[t].pc
        todo == frame[t].todo
    IN {x \in frame[t].declared :
          \/ /\ x \in Functions
             /\ pc \notin {"idle", "engine", "lock"}
             /\ pc = "functions" => x \notin todo
          \/ /\ x \in Aggregates
             /\ pc \notin {"idle", "engine", "lock", "functions"}
             /\ pc = "aggregates" => x \notin todo}

\* A registration that was tried leaves the name there, even if it failed.
TriedInv ==
    /\ \A t \in Threads : \A x \in Tried(t) \ Refused : installed[x] # 0
    /\ \A m \in Modules : records[m].listed \subseteq Items

\* A counted item is served from the load that counted it, for good: only
\* macros are replaced, and those are not counted.
Served(m, items) ==
    \A x \in items :
        /\ x \in Functions \cup Aggregates
        /\ installed[x] # 0
        /\ moduleOf[installed[x]] = m

ServedInv ==
    /\ \A x \in Items : installed[x] <= loads
    /\ \A t \in Threads : Served(frame[t].module, frame[t].registered)
    /\ \A m \in Modules : Served(m, records[m].registered)

\* While loads of a name do not overlap, one load at a time leads from the
\* engine's instance to the record of it.
CurrentInv ==
    \A m \in Modules \ overlapped :
        /\ \A t, u \in Threads :
             frame[t].module = m /\ frame[u].module = m => t = u
        /\ \A t \in Threads : frame[t].module = m =>
             /\ frame[t].pc \in {"engine", "report"} =>
                  records[m].load = current[m]
             /\ frame[t].pc \notin {"engine", "report"} =>
                  current[m] = frame[t].load

\* The registry has an entry of module m for the storage x.
Known(x, m) == \E r \in registry : r.name = x /\ r.module = m

\* A storage that is about to be installed has its entry already, and keeps it:
\* whoever purges the entry puts one of the same module in its place.
StorageInv ==
    \A t \in Threads :
        \A x \in frame[t].published : Known(x, frame[t].module)

\* The connection's mutex is had by the load that registers functions or
\* creates macros, by nobody else, and by no load that goes on to other steps.
Registers(t) == frame[t].pc \in {"functions", "macros"}
ConnectionExact == \A t \in Threads : con = t <=> Registers(t)

LInv ==
    /\ TypeOK
    /\ FrameInv
    /\ TodoInv
    /\ TriedInv
    /\ ServedInv
    /\ CurrentInv
    /\ ListedCallable
    /\ RecordCurrent
    /\ OneHandlePerStorage
    /\ LogContiguous
=============================================================================
