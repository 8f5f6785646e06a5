----------------------------- MODULE EngineInv ------------------------------
(***************************************************************************)
(* The inductive invariant of Engine.  Its parts say which program points  *)
(* go with which shared state; together they make the safety properties    *)
(* of Engine hold after every step.                                        *)
(***************************************************************************)
EXTENDS Engine

\* A load's frame: what each of its program points says of its instance and
\* of the one it replaced.
LoadInv ==
    \A t \in Threads :
        /\ load[t].pc # "idle" => load[t].inst \in Instances
        /\ load[t].pc \in {"guest_load", "insert"} =>
             status[load[t].inst] = "loading"
        /\ load[t].pc \in {"unlock_map", "drop_prev", "shutdown_prev", "link",
                           "drop_own"} =>
             status[load[t].inst] = "live"
        /\ load[t].pc = "shutdown_own" =>
             status[load[t].inst] \in {"shutdown", "gone"}
        /\ load[t].pc = "shutdown_prev" =>
             /\ load[t].prev \in Instances
             /\ status[load[t].prev] \in {"shutdown", "gone"}

\* Two loads never work on the same instance.
LoadsApart ==
    \A t, u \in Threads :
        load[t].pc # "idle" /\ load[u].pc # "idle"
            /\ load[t].inst = load[u].inst => t = u

\* A dispatch's frame, and the thread-local guard it holds to the end.
CallInv ==
    \A t \in Threads :
        /\ call[t].pc # "idle" =>
             /\ call[t].fn \in functions
             /\ guard[t]
             /\ load[t].pc = "idle" \/ query[t] = "running"
        /\ call[t].pc \in {"lock", "guest", "drop", "shutdown"} =>
             call[t].inst \in Instances
        /\ call[t].pc = "shutdown" =>
             status[call[t].inst] \in {"shutdown", "gone"}
        /\ call[t].pc = "fallback" =>
             entries[call[t].fn.handle] # NoEntry

\* A query is made by the guest of a load or of a shutdown, outside dispatches.
QueryInv ==
    \A t \in Threads :
        /\ query[t] # "none" =>
             load[t].pc \in {"guest_load", "shutdown_prev", "shutdown_own"}
        /\ query[t] = "waiting" => call[t].pc = "idle"

\* The Arc: whoever can reach an instance finds it live.
ReferencedLive == \A i \in Instances : Referenced(i) => status[i] = "live"

\* The mutex is held exactly while its guest runs for a dispatch.
LockInv ==
    \A i \in Instances, t \in Threads :
        lock[i] = t <=> call[t].pc = "guest" /\ call[t].inst = i

MapWriterInv ==
    \A t \in Threads : mapWriter = t <=> load[t].pc = "unlock_map"

\* An instance belongs to one extension from the moment it exists.
OwnerInv ==
    /\ \A i \in Instances : status[i] # "unused" => owner[i] \in Extensions
    /\ \A e \in Extensions :
         instances[e] \in Instances => owner[instances[e]] = e

\* Who owns a handle.  What a guest can still release or register is its own
\* and has been given to nobody else, so no guest's release can take away a
\* handle that load has captured or that DuckDB was given.
SlotInv ==
    \A h \in Handles :
        entries[h] # NoEntry =>
            /\ h < nextHandle
            /\ status[entries[h].dispatcher] # "unused"
            /\ owner[entries[h].dispatcher] = entries[h].extension
            /\ entries[h].instance \in Instances =>
                 /\ status[entries[h].instance] # "unused"
                 /\ owner[entries[h].instance] = entries[h].extension

GuestInv ==
    \A i \in Instances :
        /\ \A h \in resources[i] \cup registered[i] :
             entries[h] # NoEntry /\ entries[h].dispatcher = i
        /\ resources[i] \cap registered[i] = {}

CapturedInv ==
    \A t \in Threads :
        /\ load[t].pc \in {"idle", "guest_load"} => load[t].captured = {}
        /\ \A h \in load[t].captured :
             /\ entries[h] # NoEntry
             /\ entries[h].dispatcher = load[t].inst
             /\ h \notin resources[load[t].inst]

FunctionInv ==
    \A fn \in functions :
        /\ entries[fn.handle] # NoEntry
        /\ entries[fn.handle].extension = fn.extension
        /\ \A i \in Instances : fn.handle \notin resources[i]

\* RoutedToOwner, from the moment a dispatch has picked its instance.
RoutingInv ==
    \A t \in Threads :
        call[t].pc \in {"lock", "guest", "drop"} =>
            owner[call[t].inst] = call[t].fn.extension

IInv ==
    /\ TypeOK
    /\ LoadInv
    /\ LoadsApart
    /\ CallInv
    /\ QueryInv
    /\ ReferencedLive
    /\ LockInv
    /\ MapWriterInv
    /\ OwnerInv

\* The connection is held exactly while a query runs on it.
ConnInv == \A t \in Threads : rawConn = t <=> query[t] = "running"

\* The order of the locks, by the one that t asks for: the connection, an
\* instance, the registry, the map; 5 for none.  A thread waits only for one
\* that asks for a later lock, so nobody waits in a circle.
Level(t) ==
    IF query[t] = "waiting" THEN 1
    ELSE IF call[t].pc = "lock" THEN 2
    ELSE IF load[t].pc = "link" \/ \E i \in Instances : InGuest(t, i) THEN 3
    ELSE IF load[t].pc = "insert" \/ call[t].pc = "fallback" THEN 4
    ELSE 5

LocksOrdered ==
    \A t, u \in Threads : WaitsFor(t, u) => Level(t) < Level(u)

\* Holds on top of IInv when no surface takes a guest's number as it is.
RInv ==
    /\ SlotInv
    /\ GuestInv
    /\ CapturedInv
    /\ FunctionInv
    /\ RoutingInv

\* A load that no other overtook links the slots to the current instance.
PublishedInv ==
    \A t \in Threads :
        load[t].pc \in RelinkingPc /\ load[t].inst \notin overtaken =>
            instances[owner[load[t].inst]] = load[t].inst

\* What was overtaken is not published again.
OvertakenInv ==
    \A i \in overtaken :
        /\ status[i] \notin {"unused", "loading"}
        /\ \A e \in Extensions : instances[e] # i

\* Where the Weak of a slot leads: to the current instance of its extension,
\* unless the slot is about to be linked or the last link came too late.
WeakInv ==
    \A h \in Handles :
        entries[h] # NoEntry /\ entries[h].instance # NoInstance =>
            \/ instances[entries[h].extension] = entries[h].instance
            \/ Relinking(entries[h].extension) # {}
            \/ entries[h].instance \in overtaken

\* What re-loads do to the slots, on top of IInv.
SInv == PublishedInv /\ OvertakenInv /\ WeakInv
=============================================================================
