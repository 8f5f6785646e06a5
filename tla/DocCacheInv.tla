---------------------------- MODULE DocCacheInv -----------------------------
(***************************************************************************)
(* The inductive invariant of DocCache.  A snapshot can be out of date in  *)
(* two ways while its generation is current: a load has written its record *)
(* and not bumped the generation yet.  Agrees says that nothing else can.  *)
(***************************************************************************)
EXTENDS DocCache

\* A load of n is between its record and its bump.
Pending(n) == \E t \in Threads : frame[t].pc = "bump" /\ frame[t].name = n

NamesAgree(names) ==
    \A n \in Names :
        /\ ~Pending(n) => (n \in names <=> loaded[n] # 0)
        /\ returned[n] # 0 => n \in names

DocsAgree(docs) ==
    \A n \in Names :
        /\ ~Pending(n) => docs[n] = loaded[n]
        /\ returned[n] <= docs[n]

\* What has returned was recorded, and a record is never undone.
RecordsInv ==
    /\ \A n \in Names : returned[n] <= loaded[n] /\ loaded[n] <= records
    /\ \A t \in Threads :
         /\ frame[t].pc = "bump" =>
              /\ frame[t].name \in Names
              /\ 0 < frame[t].record
              /\ frame[t].record <= loaded[frame[t].name]
         /\ frame[t].pc \notin {"idle", "bump"} =>
              \A n \in Names : frame[t].wanted[n] <= returned[n]

\* The mutex is held from the comparison to the store.
MutexInv ==
    \A t \in Threads :
        frame[t].pc \in {"compare", "names", "docs", "store"} => mutex = t

\* The build in progress agrees with the records unless a load has bumped the
\* generation since it began.
BuildInv ==
    \A t \in Threads :
        /\ frame[t].pc \in {"names", "docs", "store"} =>
             frame[t].generation <= generation
        /\ frame[t].pc \in {"docs", "store"} =>
             /\ frame[t].generation = generation =>
                  NamesAgree(frame[t].snapshot.names)
             /\ \A n \in Names :
                  frame[t].wanted[n] # 0 => n \in frame[t].snapshot.names
        /\ frame[t].pc = "store" =>
             /\ frame[t].generation = generation =>
                  DocsAgree(frame[t].snapshot.docs)
             /\ \A n \in Names :
                  frame[t].wanted[n] <= frame[t].snapshot.docs[n]

CacheInv ==
    cache.generation # NoGeneration =>
        /\ cache.generation \in Nat
        /\ cache.generation <= generation
        /\ cache.generation = generation =>
             /\ NamesAgree(cache.snapshot.names)
             /\ DocsAgree(cache.snapshot.docs)

DInv ==
    /\ TypeOK
    /\ RecordsInv
    /\ MutexInv
    /\ BuildInv
    /\ CacheInv
    /\ ReadsSeeReturnedLoads
=============================================================================
