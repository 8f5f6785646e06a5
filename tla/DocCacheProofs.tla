--------------------------- MODULE DocCacheProofs ---------------------------
(***************************************************************************)
(* Proofs about DocCache, for any threads, any names and any number of     *)
(* loads: DInv is an invariant, a read sees every load that returned       *)
(* before it began, and what the cache gives out is what a rebuild would.  *)
(***************************************************************************)
EXTENDS DocCacheInv, TLAPS

\* The step of one thread: what the others do stays as it is.
OnlyThread(t) ==
    /\ frame' \in [Threads -> Frame]
    /\ \A u \in Threads \ {t} : frame'[u] = frame[u]

\* A thread that does not load makes no load pending, nor ends one.
LEMMA PendingKept ==
    ASSUME NEW t \in Threads, OnlyThread(t),
           frame[t].pc # "bump", frame'[t].pc # "bump", NEW n
    PROVE  Pending(n)' <=> Pending(n)
BY DEF Pending, OnlyThread

-----------------------------------------------------------------------------
(* The initial state *)

LEMMA InitSafe == Init => DInv
<1> SUFFICES ASSUME Init PROVE DInv
  OBVIOUS
<1> USE DEF Init, Idle, NoSnapshot
<1>1. TypeOK
  BY DEF TypeOK, Cache, Snapshot, Frame, Pc
<1>2. RecordsInv
  BY DEF RecordsInv
<1>3. MutexInv /\ BuildInv /\ CacheInv /\ ReadsSeeReturnedLoads
  BY DEF MutexInv, BuildInv, CacheInv, ReadsSeeReturnedLoads
<1> QED
  BY <1>1, <1>2, <1>3 DEF DInv

-----------------------------------------------------------------------------
(* The end of a load *)

LEMMA RecordSafe ==
    ASSUME DInv, NEW t \in Threads, NEW n \in Names, Record(t, n)
    PROVE  DInv'
<1> USE DEF Record
<1>1. TypeOK'
  <2>1. /\ records' \in Nat /\ loaded' \in [Names -> Nat] /\ generation' \in Nat
        /\ cache' \in Cache /\ mutex' \in Threads \cup {NoThread}
        /\ returned' \in [Names -> Nat]
    BY DEF DInv, TypeOK
  <2>2. frame[t] \in Frame /\ records + 1 \in Nat
    BY DEF DInv, TypeOK
  <2>3. [frame[t] EXCEPT !.pc = "bump", !.name = n, !.record = records + 1] \in Frame
    BY <2>2 DEF Frame, Pc
  <2>4. frame' \in [Threads -> Frame]
    BY <2>3 DEF DInv, TypeOK
  <2> QED
    BY <2>1, <2>4 DEF TypeOK
<1>2. /\ OnlyThread(t)
      /\ frame'[t].pc = "bump" /\ frame'[t].name = n
      /\ frame'[t].record = records + 1
  BY <1>1 DEF DInv, TypeOK, OnlyThread, Frame, Pc
<1>3. /\ \A m \in Names : m # n => loaded'[m] = loaded[m]
      /\ loaded'[n] = records + 1 /\ loaded[n] <= loaded'[n]
      /\ \A m \in Names : loaded[m] \in Nat /\ returned[m] \in Nat
      /\ records \in Nat
  BY DEF DInv, TypeOK, RecordsInv
<1>4. /\ Pending(n)'
      /\ \A m \in Names : m # n => (Pending(m)' <=> Pending(m))
  BY <1>2 DEF Pending, OnlyThread
<1>5. RecordsInv'
  <2>1. \A m \in Names : returned'[m] <= loaded'[m] /\ loaded'[m] <= records'
    BY <1>3 DEF DInv, RecordsInv
  <2>2. ASSUME NEW u \in Threads, frame'[u].pc = "bump"
        PROVE  /\ frame'[u].name \in Names /\ 0 < frame'[u].record
               /\ frame'[u].record <= loaded'[frame'[u].name]
    <3>1. CASE u = t
      BY <3>1, <1>2, <1>3
    <3>2. CASE u # t
      <4>1. /\ frame'[u] = frame[u] /\ frame[u].name \in Names
            /\ 0 < frame[u].record
            /\ frame[u].record <= loaded[frame[u].name]
            /\ frame[u].record \in Nat
        BY <3>2, <2>2, <1>2 DEF DInv, TypeOK, Frame, RecordsInv, OnlyThread
      <4> QED
        BY <4>1, <1>3
    <3> QED
      BY <3>1, <3>2
  <2>3. ASSUME NEW u \in Threads, frame'[u].pc \notin {"idle", "bump"}
        PROVE  \A m \in Names : frame'[u].wanted[m] <= returned'[m]
    BY <2>3, <1>2 DEF DInv, RecordsInv, OnlyThread
  <2> QED
    BY <2>1, <2>2, <2>3 DEF RecordsInv
<1>6. MutexInv'
  BY <1>2 DEF DInv, MutexInv, OnlyThread
<1>7. /\ \A s : NamesAgree(s) => NamesAgree(s)'
      /\ \A d : DocsAgree(d) => DocsAgree(d)'
  BY <1>3, <1>4 DEF NamesAgree, DocsAgree
<1>8. BuildInv'
  BY <1>2, <1>7 DEF DInv, BuildInv, OnlyThread
<1>9. CacheInv'
  BY <1>7 DEF DInv, CacheInv
<1>10. ReadsSeeReturnedLoads'
  BY <1>2 DEF DInv, ReadsSeeReturnedLoads, OnlyThread
<1> QED
  BY <1>1, <1>5, <1>6, <1>8, <1>9, <1>10 DEF DInv


LEMMA BumpSafe ==
    ASSUME DInv, NEW t \in Threads, Bump(t)
    PROVE  DInv'
<1> USE DEF Bump
<1> DEFINE n == frame[t].name
           r == frame[t].record
<1>1. /\ n \in Names /\ r \in Nat /\ r <= loaded[n]
      /\ \A m \in Names : loaded[m] \in Nat /\ returned[m] \in Nat
      /\ generation \in Nat
  BY DEF DInv, TypeOK, RecordsInv, Frame
<1>2. /\ \A m \in Names : m # n => returned'[m] = returned[m]
      /\ returned'[n] = IF r > returned[n] THEN r ELSE returned[n]
      /\ returned' \in [Names -> Nat]
  BY <1>1 DEF DInv, TypeOK
<1>3. Idle \in Frame
  BY DEF Idle, Frame, Pc, NoSnapshot, Snapshot
<1>4. /\ OnlyThread(t)
      /\ frame'[t].pc = "idle"
  BY <1>3 DEF DInv, TypeOK, OnlyThread, Idle
<1>5. TypeOK'
  BY <1>2, <1>4, <1>1 DEF DInv, TypeOK, OnlyThread
<1>6. RecordsInv'
  <2>1. \A m \in Names : /\ returned[m] <= returned'[m]
                         /\ returned'[m] <= loaded'[m] /\ loaded'[m] <= records'
    BY <1>1, <1>2 DEF DInv, RecordsInv
  <2>2. ASSUME NEW u \in Threads, frame'[u].pc = "bump"
        PROVE  /\ frame'[u].name \in Names /\ 0 < frame'[u].record
               /\ frame'[u].record <= loaded'[frame'[u].name]
    BY <2>2, <1>4 DEF DInv, RecordsInv, OnlyThread
  <2>3. ASSUME NEW u \in Threads, frame'[u].pc \notin {"idle", "bump"}, NEW m \in Names
        PROVE  frame'[u].wanted[m] <= returned'[m]
    <3>1. u # t /\ frame'[u] = frame[u]
      BY <2>3, <1>4 DEF OnlyThread
    <3>2. frame[u].wanted[m] <= returned[m] /\ frame[u].wanted[m] \in Nat
      BY <3>1, <2>3 DEF DInv, RecordsInv, TypeOK, Frame
    <3> QED
      BY <3>1, <3>2, <2>1, <1>1, <1>2
  <2> QED
    BY <2>1, <2>2, <2>3 DEF RecordsInv
<1>7. MutexInv'
  BY <1>4 DEF DInv, MutexInv, OnlyThread
\* Every snapshot built or stored so far is of an older generation.
<1>8. BuildInv'
  <2>1. ASSUME NEW u \in Threads, u # t,
               frame[u].pc \in {"names", "docs", "store"}
        PROVE  frame[u].generation <= generation' /\ frame[u].generation # generation'
    BY <2>1, <1>1 DEF DInv, BuildInv, TypeOK, Frame
  <2> QED
    BY <2>1, <1>4 DEF DInv, BuildInv, OnlyThread
<1>9. CacheInv'
  BY <1>1 DEF DInv, CacheInv
<1>10. ReadsSeeReturnedLoads'
  BY <1>4 DEF DInv, ReadsSeeReturnedLoads, OnlyThread
<1> QED
  BY <1>5, <1>6, <1>7, <1>8, <1>9, <1>10 DEF DInv

-----------------------------------------------------------------------------
(* get_or_build_doc_cache *)

\* A reader's step leaves the records, and what it wants of them, alone.
LEMMA ReaderSafe ==
    ASSUME DInv, NEW t \in Threads, OnlyThread(t),
           frame[t].pc # "bump", frame'[t].pc # "bump",
           frame'[t].pc # "idle" =>
               \A n \in Names : frame'[t].wanted[n] <= returned[n],
           cache' \in Cache, mutex' \in Threads \cup {NoThread},
           UNCHANGED <<records, loaded, generation, returned>>
    PROVE  TypeOK' /\ RecordsInv'
BY DEF DInv, TypeOK, RecordsInv, OnlyThread

\* The builds of the others, and the cache if it stays, agree as before.
LEMMA OthersSafe ==
    ASSUME DInv, NEW t \in Threads, OnlyThread(t),
           frame[t].pc # "bump", frame'[t].pc # "bump",
           UNCHANGED <<records, loaded, generation, returned>>
    PROVE  /\ \A s : NamesAgree(s) => NamesAgree(s)'
           /\ \A d : DocsAgree(d) => DocsAgree(d)'
           /\ frame'[t].pc \notin {"names", "docs", "store"} => BuildInv'
           /\ cache' = cache => CacheInv'
<1>1. \A n \in Names : Pending(n)' <=> Pending(n)
  BY PendingKept
<1>2. /\ \A s : NamesAgree(s) => NamesAgree(s)'
      /\ \A d : DocsAgree(d) => DocsAgree(d)'
  BY <1>1 DEF NamesAgree, DocsAgree
<1>3. ASSUME frame'[t].pc \notin {"names", "docs", "store"}
      PROVE  BuildInv'
  BY <1>2, <1>3 DEF DInv, BuildInv, OnlyThread
<1>4. cache' = cache => CacheInv'
  BY <1>2 DEF DInv, CacheInv
<1> QED
  BY <1>2, <1>3, <1>4

LEMMA BeginReadSafe ==
    ASSUME DInv, NEW t \in Threads, BeginRead(t)
    PROVE  DInv'
<1> USE DEF BeginRead
<1>1. /\ frame[t] \in Frame /\ returned \in [Names -> Nat]
      /\ \A n \in Names : returned[n] <= returned[n]
  BY DEF DInv, TypeOK
<1>2. [frame[t] EXCEPT !.pc = "wait", !.wanted = returned] \in Frame
  BY <1>1 DEF Frame, Pc
<1>3. OnlyThread(t) /\ frame'[t].pc = "wait" /\ frame'[t].wanted = returned
  BY <1>1, <1>2 DEF DInv, TypeOK, OnlyThread, Frame
<1>4. TypeOK' /\ RecordsInv'
  BY <1>1, <1>3, ReaderSafe DEF DInv, TypeOK
<1>5. BuildInv' /\ CacheInv'
  BY <1>3, OthersSafe
<1>6. MutexInv' /\ ReadsSeeReturnedLoads'
  BY <1>3 DEF DInv, MutexInv, ReadsSeeReturnedLoads, OnlyThread
<1> QED
  BY <1>4, <1>5, <1>6 DEF DInv

LEMMA LockCacheSafe ==
    ASSUME DInv, NEW t \in Threads, LockCache(t)
    PROVE  DInv'
<1> USE DEF LockCache
<1>1. frame[t] \in Frame
  BY DEF DInv, TypeOK
<1>2. [frame[t] EXCEPT !.pc = "compare"] \in Frame
  BY <1>1 DEF Frame, Pc
<1>3. OnlyThread(t) /\ frame'[t].pc = "compare" /\ frame'[t].wanted = frame[t].wanted
  BY <1>1, <1>2 DEF DInv, TypeOK, OnlyThread, Frame
<1>4. TypeOK' /\ RecordsInv'
  BY <1>3, ReaderSafe DEF DInv, TypeOK, RecordsInv
<1>5. BuildInv' /\ CacheInv'
  BY <1>3, OthersSafe
\* The mutex was free: no other thread compares or builds.
<1>6. MutexInv'
  BY <1>3, NoThreadAssumption DEF DInv, MutexInv, OnlyThread
<1>7. ReadsSeeReturnedLoads'
  BY <1>3 DEF DInv, ReadsSeeReturnedLoads, OnlyThread
<1> QED
  BY <1>4, <1>5, <1>6, <1>7 DEF DInv

LEMMA CompareSafe ==
    ASSUME DInv, NEW t \in Threads, Compare(t)
    PROVE  DInv'
<1> USE DEF Compare
<1>1. /\ frame[t] \in Frame /\ cache.snapshot \in Snapshot
      /\ generation \in Nat
      /\ \A n \in Names : frame[t].wanted[n] <= returned[n]
      /\ \A n \in Names : frame[t].wanted[n] \in Nat /\ returned[n] \in Nat
  <2>1. /\ frame[t] \in Frame /\ cache.snapshot \in Snapshot
        /\ generation \in Nat
        /\ \A n \in Names : frame[t].wanted[n] \in Nat /\ returned[n] \in Nat
    BY DEF DInv, TypeOK, Cache, Frame
  <2>2. \A n \in Names : frame[t].wanted[n] <= returned[n]
    BY DEF DInv, RecordsInv
  <2> QED
    BY <2>1, <2>2
<1>2. CASE cache.generation = generation
  <2>1. [frame[t] EXCEPT !.pc = "return", !.snapshot = cache.snapshot] \in Frame
    BY <1>1 DEF Frame, Pc
  <2>2. /\ OnlyThread(t) /\ frame'[t].pc = "return"
        /\ frame'[t].wanted = frame[t].wanted
        /\ frame'[t].snapshot = cache.snapshot
        /\ mutex' = NoThread
    BY <1>1, <1>2, <2>1, ZenonT(30) DEF DInv, TypeOK, OnlyThread, Frame
  <2>3. TypeOK' /\ RecordsInv'
    BY <1>1, <2>2, ReaderSafe DEF DInv, TypeOK
  <2>4. BuildInv' /\ CacheInv'
    BY <2>2, OthersSafe
  <2>5. MutexInv'
    BY <2>2 DEF DInv, MutexInv, OnlyThread
  <2>6. NamesAgree(cache.snapshot.names) /\ DocsAgree(cache.snapshot.docs)
    BY <1>1, <1>2, NoGenerationAssumption DEF DInv, CacheInv
  <2>7. Covers(cache.snapshot, frame[t].wanted)
    <3> SUFFICES ASSUME NEW n \in Names, frame[t].wanted[n] # 0
                 PROVE  /\ n \in cache.snapshot.names
                        /\ frame[t].wanted[n] <= cache.snapshot.docs[n]
      BY DEF Covers
    <3>1. cache.snapshot.docs[n] \in Nat
      BY <1>1 DEF Snapshot
    <3>2. returned[n] # 0 /\ returned[n] <= cache.snapshot.docs[n]
      BY <1>1, <2>6 DEF DocsAgree
    <3> QED
      BY <1>1, <2>6, <3>1, <3>2 DEF NamesAgree
  <2>8. ReadsSeeReturnedLoads'
    BY <2>2, <2>7 DEF DInv, ReadsSeeReturnedLoads, OnlyThread, Covers
  <2> QED
    BY <2>3, <2>4, <2>5, <2>8 DEF DInv
<1>3. CASE cache.generation # generation
  <2>1. [frame[t] EXCEPT !.pc = "names", !.generation = generation] \in Frame
    BY <1>1 DEF Frame, Pc
  <2>2. /\ OnlyThread(t) /\ frame'[t].pc = "names"
        /\ frame'[t].wanted = frame[t].wanted
        /\ frame'[t].generation = generation
        /\ mutex' = mutex
    BY <1>1, <1>3, <2>1, ZenonT(30) DEF DInv, TypeOK, OnlyThread, Frame
  <2>3. TypeOK' /\ RecordsInv'
    BY <1>1, <2>2, ReaderSafe DEF DInv, TypeOK
  <2>4. /\ CacheInv'
        /\ \A s : NamesAgree(s) => NamesAgree(s)'
        /\ \A d : DocsAgree(d) => DocsAgree(d)'
    BY <2>2, OthersSafe
  <2>5. BuildInv'
    BY <1>1, <2>2, <2>4 DEF DInv, BuildInv, OnlyThread
  <2>6. MutexInv' /\ ReadsSeeReturnedLoads'
    BY <2>2 DEF DInv, MutexInv, ReadsSeeReturnedLoads, OnlyThread
  <2> QED
    BY <2>3, <2>4, <2>5, <2>6 DEF DInv
<1> QED
  BY <1>2, <1>3

LEMMA ReadNamesSafe ==
    ASSUME DInv, NEW t \in Threads, ReadNames(t)
    PROVE  DInv'
<1> USE DEF ReadNames
<1> DEFINE S == {n \in Names : loaded[n] # 0}
<1>1. /\ frame[t] \in Frame /\ frame[t].snapshot \in Snapshot
      /\ frame[t].generation <= generation
      /\ \A n \in Names : /\ frame[t].wanted[n] <= returned[n]
                          /\ returned[n] <= loaded[n]
                          /\ frame[t].wanted[n] \in Nat
                          /\ returned[n] \in Nat /\ loaded[n] \in Nat
  BY DEF DInv, TypeOK, Frame, RecordsInv, BuildInv
<1>2. [frame[t] EXCEPT !.pc = "docs", !.snapshot.names = S] \in Frame
  <2>1. [frame[t].snapshot EXCEPT !.names = S] \in Snapshot
    BY <1>1 DEF Snapshot
  <2> QED
    BY <1>1, <2>1 DEF Frame, Pc
<1>3. /\ OnlyThread(t) /\ frame'[t].pc = "docs"
      /\ frame'[t].wanted = frame[t].wanted
      /\ frame'[t].generation = frame[t].generation
      /\ frame'[t].snapshot.names = S
  BY <1>1, <1>2 DEF DInv, TypeOK, OnlyThread, Frame, Snapshot
<1>4. TypeOK' /\ RecordsInv'
  BY <1>1, <1>3, ReaderSafe DEF DInv, TypeOK
<1>5. /\ CacheInv'
      /\ \A s : NamesAgree(s) => NamesAgree(s)'
      /\ \A d : DocsAgree(d) => DocsAgree(d)'
  BY <1>3, OthersSafe
<1>6. NamesAgree(S)
  BY <1>1 DEF NamesAgree
<1>7. BuildInv'
  BY <1>1, <1>3, <1>5, <1>6 DEF DInv, BuildInv, OnlyThread
<1>8. MutexInv' /\ ReadsSeeReturnedLoads'
  BY <1>3 DEF DInv, MutexInv, ReadsSeeReturnedLoads, OnlyThread
<1> QED
  BY <1>4, <1>5, <1>7, <1>8 DEF DInv

LEMMA ReadDocsSafe ==
    ASSUME DInv, NEW t \in Threads, ReadDocs(t)
    PROVE  DInv'
<1> USE DEF ReadDocs
<1>1. /\ frame[t] \in Frame /\ frame[t].snapshot \in Snapshot
      /\ frame[t].generation <= generation
      /\ loaded \in [Names -> Nat]
      /\ \A n \in Names : /\ frame[t].wanted[n] <= returned[n]
                          /\ returned[n] <= loaded[n]
                          /\ frame[t].wanted[n] \in Nat
                          /\ returned[n] \in Nat /\ loaded[n] \in Nat
  BY DEF DInv, TypeOK, Frame, RecordsInv, BuildInv
<1>2. [frame[t] EXCEPT !.pc = "store", !.snapshot.docs = loaded] \in Frame
  <2>1. [frame[t].snapshot EXCEPT !.docs = loaded] \in Snapshot
    BY <1>1 DEF Snapshot
  <2> QED
    BY <1>1, <2>1 DEF Frame, Pc
<1>3. /\ OnlyThread(t) /\ frame'[t].pc = "store"
      /\ frame'[t].wanted = frame[t].wanted
      /\ frame'[t].generation = frame[t].generation
      /\ frame'[t].snapshot.names = frame[t].snapshot.names
      /\ frame'[t].snapshot.docs = loaded
  BY <1>1, <1>2 DEF DInv, TypeOK, OnlyThread, Frame, Snapshot
<1>4. TypeOK' /\ RecordsInv'
  BY <1>1, <1>3, ReaderSafe DEF DInv, TypeOK
<1>5. /\ CacheInv'
      /\ \A s : NamesAgree(s) => NamesAgree(s)'
      /\ \A d : DocsAgree(d) => DocsAgree(d)'
  BY <1>3, OthersSafe
<1>6. DocsAgree(loaded) /\ \A n \in Names : frame[t].wanted[n] <= loaded[n]
  BY <1>1 DEF DocsAgree
<1>7. BuildInv'
  BY <1>1, <1>3, <1>5, <1>6 DEF DInv, BuildInv, OnlyThread
<1>8. MutexInv' /\ ReadsSeeReturnedLoads'
  BY <1>3 DEF DInv, MutexInv, ReadsSeeReturnedLoads, OnlyThread
<1> QED
  BY <1>4, <1>5, <1>7, <1>8 DEF DInv

LEMMA StoreSafe ==
    ASSUME DInv, NEW t \in Threads, Store(t)
    PROVE  DInv'
<1> USE DEF Store
<1>1. /\ frame[t] \in Frame /\ frame[t].snapshot \in Snapshot
      /\ frame[t].generation \in Nat /\ frame[t].generation <= generation
      /\ \A n \in Names : frame[t].wanted[n] <= returned[n]
  BY DEF DInv, TypeOK, Frame, RecordsInv, BuildInv
<1>2. [frame[t] EXCEPT !.pc = "return"] \in Frame
  BY <1>1 DEF Frame, Pc
<1>3. /\ OnlyThread(t) /\ frame'[t].pc = "return"
      /\ frame'[t].wanted = frame[t].wanted
      /\ frame'[t].snapshot = frame[t].snapshot
  BY <1>1, <1>2 DEF DInv, TypeOK, OnlyThread, Frame
<1>4. TypeOK' /\ RecordsInv'
  BY <1>1, <1>3, ReaderSafe DEF DInv, TypeOK, Cache
<1>5. /\ BuildInv'
      /\ \A s : NamesAgree(s) => NamesAgree(s)'
      /\ \A d : DocsAgree(d) => DocsAgree(d)'
  BY <1>3, OthersSafe
<1>6. CacheInv'
  BY <1>1, <1>5 DEF DInv, BuildInv, CacheInv
<1>7. MutexInv'
  BY <1>3 DEF DInv, MutexInv, OnlyThread
<1>8. ReadsSeeReturnedLoads'
  BY <1>3 DEF DInv, BuildInv, ReadsSeeReturnedLoads, Covers, OnlyThread
<1> QED
  BY <1>4, <1>5, <1>6, <1>7, <1>8 DEF DInv

LEMMA EndReadSafe ==
    ASSUME DInv, NEW t \in Threads, EndRead(t)
    PROVE  DInv'
<1> USE DEF EndRead
<1>1. Idle \in Frame
  BY DEF Idle, Frame, Pc, NoSnapshot, Snapshot
<1>2. OnlyThread(t) /\ frame'[t].pc = "idle"
  BY <1>1 DEF DInv, TypeOK, OnlyThread, Idle
<1>3. TypeOK' /\ RecordsInv'
  BY <1>2, ReaderSafe DEF DInv, TypeOK
<1>4. BuildInv' /\ CacheInv'
  BY <1>2, OthersSafe
<1>5. MutexInv' /\ ReadsSeeReturnedLoads'
  BY <1>2 DEF DInv, MutexInv, ReadsSeeReturnedLoads, OnlyThread
<1> QED
  BY <1>3, <1>4, <1>5 DEF DInv

-----------------------------------------------------------------------------
(* The theorems *)

LEMMA NextSafe == DInv /\ [Next]_vars => DInv'
<1> SUFFICES ASSUME DInv, [Next]_vars PROVE DInv'
  OBVIOUS
<1>1. CASE UNCHANGED vars
  BY <1>1 DEF vars, DInv, TypeOK, RecordsInv, MutexInv, BuildInv, CacheInv,
              ReadsSeeReturnedLoads, Covers, NamesAgree, DocsAgree, Pending
<1>2. CASE Next
  BY <1>2, RecordSafe, BumpSafe, BeginReadSafe, LockCacheSafe, CompareSafe,
     ReadNamesSafe, ReadDocsSafe, StoreSafe, EndReadSafe DEF Next
<1> QED
  BY <1>1, <1>2

THEOREM DInvariant == Spec => []DInv
BY InitSafe, NextSafe, PTL DEF Spec

\* Type correctness, for any threads, names and number of loads.
THEOREM DocsTypeCorrect == Spec => []TypeOK
<1>1. DInv => TypeOK
  BY DEF DInv
<1> QED
  BY <1>1, DInvariant, PTL

\* A read of the documentation that begins after a load returned has that
\* load's loaded flag, and its documentation or that of a later load of the
\* name, although a build reads the records twice while loads go on.
THEOREM ReadsFresh == Spec => []ReadsSeeReturnedLoads
<1>1. DInv => ReadsSeeReturnedLoads
  BY DEF DInv
<1> QED
  BY <1>1, DInvariant, PTL

\* Between loads, what a hit gives out is what a rebuild would give.
THEOREM CacheFresh == Spec => []CacheCurrent
<1>1. DInv => CacheCurrent
  <2> SUFFICES ASSUME DInv, cache.generation = generation,
                      \A t \in Threads : frame[t].pc # "bump"
               PROVE  /\ cache.snapshot.names = {n \in Names : loaded[n] # 0}
                      /\ cache.snapshot.docs = loaded
    BY DEF CacheCurrent
  <2>1. /\ cache.snapshot.names \in SUBSET Names
        /\ cache.snapshot.docs \in [Names -> Nat]
        /\ loaded \in [Names -> Nat] /\ generation \in Nat
    BY DEF DInv, TypeOK, Cache, Snapshot
  <2>2. /\ NamesAgree(cache.snapshot.names) /\ DocsAgree(cache.snapshot.docs)
        /\ \A n : ~Pending(n)
    BY <2>1, NoGenerationAssumption DEF DInv, CacheInv, Pending
  <2> QED
    BY <2>1, <2>2 DEF NamesAgree, DocsAgree
<1> QED
  BY <1>1, DInvariant, PTL

-----------------------------------------------------------------------------
(* Both halves of a view implement AtomicViews *)

\* What a step of t can change of the phases, loads and answers.
LEMMA OneDocs ==
    ASSUME NEW t \in Threads, \A u \in Threads \ {t} : frame'[u] = frame[u]
    PROVE  /\ [u \in Threads |-> Phase(u, HasDocs)]'
                = [[u \in Threads |-> Phase(u, HasDocs)]
                     EXCEPT ![t] = Phase(t, HasDocs)']
           /\ [u \in Threads |-> LoadOf(u, frame[u].record)]'
                = [[u \in Threads |-> LoadOf(u, frame[u].record)]
                     EXCEPT ![t] = LoadOf(t, frame[t].record)']
           /\ [u \in Threads |-> [n \in Names |-> AnswerDoc(u, n)]]'
                = [[u \in Threads |-> [n \in Names |-> AnswerDoc(u, n)]]
                     EXCEPT ![t] = [n \in Names |-> AnswerDoc(t, n)']]
<1>1. \A u \in Threads \ {t} :
        /\ Phase(u, HasDocs)' = Phase(u, HasDocs)
        /\ LoadOf(u, frame[u].record)' = LoadOf(u, frame[u].record)
        /\ \A n \in Names : AnswerDoc(u, n)' = AnswerDoc(u, n)
  BY DEF Phase, LoadOf, AnswerDoc, HasDocs
<1>2. [u \in Threads |-> Phase(u, HasDocs)]'
        = [[u \in Threads |-> Phase(u, HasDocs)]
             EXCEPT ![t] = Phase(t, HasDocs)']
  BY <1>1
<1>3. [u \in Threads |-> LoadOf(u, frame[u].record)]'
        = [[u \in Threads |-> LoadOf(u, frame[u].record)]
             EXCEPT ![t] = LoadOf(t, frame[t].record)']
  BY <1>1
<1>4. [u \in Threads |-> [n \in Names |-> AnswerDoc(u, n)]]'
        = [[u \in Threads |-> [n \in Names |-> AnswerDoc(u, n)]]
             EXCEPT ![t] = [n \in Names |-> AnswerDoc(t, n)']]
  <2>1. \A u \in Threads \ {t} :
          [n \in Names |-> AnswerDoc(u, n)'] = [n \in Names |-> AnswerDoc(u, n)]
    BY <1>1
  <2> QED
    BY <2>1
<1> QED
  BY <1>2, <1>3, <1>4

LEMMA AnswersKept ==
    ASSUME NEW t \in Threads, \A u \in Threads \ {t} : frame'[u] = frame[u],
           \A n \in Names : AnswerDoc(t, n)' = AnswerDoc(t, n)
    PROVE  UNCHANGED [u \in Threads |-> [n \in Names |-> AnswerDoc(u, n)]]
<1>1. [n \in Names |-> AnswerDoc(t, n)'] = [n \in Names |-> AnswerDoc(t, n)]
  OBVIOUS
<1> QED
  BY <1>1, OneDocs, ZenonT(30)

\* A step that neither begins nor ends a build leaves what was built.
LEMMA BuiltKept ==
    ASSUME DInv, NEW t \in Threads, OnlyThread(t), UNCHANGED <<cache, mutex>>
    PROVE  /\ frame[t].pc # "store" /\ frame'[t].pc # "store"
                => BuiltDocs' = BuiltDocs
           /\ frame[t].pc \notin {"docs", "store"}
                /\ frame'[t].pc \notin {"docs", "store"}
                => BuiltNames' = BuiltNames
BY DEF DInv, TypeOK, OnlyThread, BuiltDocs, BuiltNames, Building

LEMMA BuiltTyped ==
    ASSUME DInv
    PROVE  \A n \in Names : BuiltDocs[n] \in Nat /\ returned[n] \in Nat
<1>1. cache.snapshot.docs \in [Names -> Nat]
  BY DEF DInv, TypeOK, Cache, Snapshot
<1>2. \A t \in Threads : frame[t].snapshot.docs \in [Names -> Nat]
  BY DEF DInv, TypeOK, Frame, Snapshot
<1> QED
  BY <1>1, <1>2, NoThreadAssumption DEF DInv, TypeOK, BuiltDocs, Building

\* A hit gives out what is visible.
LEMMA HitVisible ==
    ASSUME DInv, cache.generation = generation,
           BuiltDocs = cache.snapshot.docs, BuiltNames = cache.snapshot.names
    PROVE  \A n \in Names :
             /\ VisibleDoc(n) = cache.snapshot.docs[n]
             /\ VisibleFlag(n) = IF n \in cache.snapshot.names THEN 1 ELSE 0
<1>1. NamesAgree(cache.snapshot.names) /\ DocsAgree(cache.snapshot.docs)
  BY NoGenerationAssumption DEF DInv, TypeOK, CacheInv
<1>2. \A n \in Names : BuiltDocs[n] \in Nat /\ returned[n] \in Nat
  BY BuiltTyped
<1> QED
  BY <1>1, <1>2 DEF NamesAgree, DocsAgree, VisibleDoc, VisibleFlag

\* Steps the register of the documentation cannot see.
LEMMA DocsStutter ==
    ASSUME NEW t \in Threads, \A u \in Threads \ {t} : frame'[u] = frame[u],
           UNCHANGED <<loaded, returned>>, BuiltDocs' = BuiltDocs,
           Phase(t, HasDocs)' = Phase(t, HasDocs),
           LoadOf(t, frame[t].record)' = LoadOf(t, frame[t].record),
           \A n \in Names : AnswerDoc(t, n)' = AnswerDoc(t, n)
    PROVE  UNCHANGED Docs!vars
<1>1. UNCHANGED [n \in Names |-> VisibleDoc(n)]
  BY DEF VisibleDoc
<1>2. UNCHANGED [u \in Threads |-> Phase(u, HasDocs)]
  BY OneDocs
<1>3. UNCHANGED [u \in Threads |-> LoadOf(u, frame[u].record)]
  BY OneDocs
<1>4. UNCHANGED [u \in Threads |-> [n \in Names |-> AnswerDoc(u, n)]]
  BY AnswersKept
<1> QED
  BY <1>1, <1>2, <1>3, <1>4 DEF Docs!vars

\* The step in which a read finds the documentation it answers with.
LEMMA DocsAnswer ==
    ASSUME NEW t \in Threads, \A u \in Threads \ {t} : frame'[u] = frame[u],
           UNCHANGED <<loaded, returned>>,
           frame[t].pc \in {"compare", "docs"},
           frame'[t].pc \in HasDocs,
           NEW appearing \in SUBSET Names,
           \A n \in Names :
             /\ VisibleDoc(n)' = IF n \in appearing THEN loaded[n]
                                 ELSE VisibleDoc(n)
             /\ frame'[t].snapshot.docs[n] = VisibleDoc(n)'
    PROVE  Docs!Answer(t)
<1>1. [n \in Names |-> VisibleDoc(n)]'
        = [n \in Names |-> IF n \in appearing THEN loaded[n]
                           ELSE [m \in Names |-> VisibleDoc(m)][n]]
  OBVIOUS
<1>2. /\ Phase(t, HasDocs) = "reading" /\ Phase(t, HasDocs)' = "answered"
      /\ LoadOf(t, frame[t].record)' = LoadOf(t, frame[t].record)
  BY DEF Phase, HasDocs, LoadOf
<1>3. [n \in Names |-> AnswerDoc(t, n)'] = [n \in Names |-> VisibleDoc(n)]'
  BY DEF AnswerDoc
<1>4. [u \in Threads |-> [n \in Names |-> AnswerDoc(u, n)]]'
        = [[u \in Threads |-> [n \in Names |-> AnswerDoc(u, n)]]
             EXCEPT ![t] = [n \in Names |-> VisibleDoc(n)]']
  BY <1>3, OneDocs
<1>5. [u \in Threads |-> Phase(u, HasDocs)]'
        = [[u \in Threads |-> Phase(u, HasDocs)] EXCEPT ![t] = "answered"]
  BY <1>2, OneDocs
<1>6. UNCHANGED [u \in Threads |-> LoadOf(u, frame[u].record)]
  BY <1>2, OneDocs
<1> QED
  BY <1>1, <1>2, <1>4, <1>5, <1>6 DEF Docs!Answer

LEMMA RecordDocs ==
    ASSUME DInv, DInv', NEW t \in Threads, NEW n \in Names, Record(t, n)
    PROVE  Docs!BeginLoad(t, n, records + 1) /\ records + 1 \in 1 .. MaxLoads
<1>1. /\ records \in Nat /\ records < MaxLoads /\ MaxLoads \in Nat
      /\ loaded \in [Names -> Nat] /\ loaded[n] <= records
      /\ frame \in [Threads -> Frame] /\ frame' \in [Threads -> Frame]
  BY MaxLoadsAssumption DEF Record, DInv, TypeOK, RecordsInv
<1>2. /\ OnlyThread(t)
      /\ frame[t].pc = "idle" /\ frame'[t].pc = "bump"
      /\ frame'[t].name = n /\ frame'[t].record = records + 1
  BY <1>1 DEF OnlyThread, Record, Frame
<1>3. UNCHANGED [m \in Names |-> VisibleDoc(m)]
  BY <1>2, BuiltKept DEF Record, VisibleDoc
<1>4. /\ Phase(t, HasDocs) = "idle" /\ Phase(t, HasDocs)' = "loading"
      /\ LoadOf(t, frame[t].record)' = <<n, records + 1>>
      /\ \A m \in Names : AnswerDoc(t, m)' = AnswerDoc(t, m)
  BY <1>2 DEF Phase, LoadOf, AnswerDoc, HasDocs
<1>5. [u \in Threads |-> Phase(u, HasDocs)]'
        = [[u \in Threads |-> Phase(u, HasDocs)] EXCEPT ![t] = "loading"]
  BY <1>2, <1>4, OneDocs DEF OnlyThread
<1>6. [u \in Threads |-> LoadOf(u, frame[u].record)]'
        = [[u \in Threads |-> LoadOf(u, frame[u].record)]
             EXCEPT ![t] = <<n, records + 1>>]
  BY <1>2, <1>4, OneDocs DEF OnlyThread
<1>7. UNCHANGED [u \in Threads |-> [m \in Names |-> AnswerDoc(u, m)]]
  BY <1>2, <1>4, AnswersKept DEF OnlyThread
<1>8. records + 1 >= loaded[n] /\ loaded' = [loaded EXCEPT ![n] = records + 1]
  BY <1>1 DEF Record
<1>9. Docs!BeginLoad(t, n, records + 1)
  BY <1>3, <1>4, <1>5, <1>6, <1>7, <1>8 DEF Docs!BeginLoad
<1> QED
  BY <1>1, <1>9

LEMMA BumpDocs ==
    ASSUME DInv, DInv', NEW t \in Threads, Bump(t)
    PROVE  Docs!EndLoad(t)
<1> DEFINE name == frame[t].name
           record == frame[t].record
<1>1. /\ frame \in [Threads -> Frame] /\ frame' \in [Threads -> Frame]
      /\ frame[t].pc = "bump" /\ name \in Names /\ record \in Nat
      /\ returned \in [Names -> Nat]
  BY DEF Bump, DInv, TypeOK, Frame, RecordsInv
<1>2. OnlyThread(t) /\ frame'[t] = Idle
  BY <1>1 DEF OnlyThread, Bump
<1>3. BuiltDocs' = BuiltDocs
  BY <1>1, <1>2, BuiltKept DEF Bump, Idle
<1>4. returned' = [returned EXCEPT ![name] = IF record > returned[name]
                                             THEN record ELSE returned[name]]
  BY DEF Bump
<1>5. \A n \in Names :
        VisibleDoc(n)' = IF n = name /\ record > VisibleDoc(n) THEN record
                         ELSE VisibleDoc(n)
  <2> SUFFICES ASSUME NEW n \in Names
               PROVE  VisibleDoc(n)' = IF n = name /\ record > VisibleDoc(n)
                                       THEN record ELSE VisibleDoc(n)
    OBVIOUS
  <2>1. BuiltDocs[n] \in Nat /\ returned[n] \in Nat
    BY BuiltTyped
  <2>2. returned'[n] = IF n = name /\ record > returned[n] THEN record
                       ELSE returned[n]
    BY <1>1, <1>4
  <2> HIDE DEF name, record
  <2> QED
    BY <1>1, <1>3, <2>1, <2>2 DEF VisibleDoc
<1>6. /\ Phase(t, HasDocs) = "loading" /\ Phase(t, HasDocs)' = "idle"
      /\ LoadOf(t, frame[t].record) = <<name, record>>
      /\ LoadOf(t, frame[t].record)' = <<>>
      /\ \A n \in Names : AnswerDoc(t, n)' = AnswerDoc(t, n)
  BY <1>1, <1>2 DEF Phase, LoadOf, AnswerDoc, HasDocs, Idle
<1>7. [u \in Threads |-> Phase(u, HasDocs)]'
        = [[u \in Threads |-> Phase(u, HasDocs)] EXCEPT ![t] = "idle"]
  BY <1>2, <1>6, OneDocs DEF OnlyThread
<1>8. [u \in Threads |-> LoadOf(u, frame[u].record)]'
        = [[u \in Threads |-> LoadOf(u, frame[u].record)] EXCEPT ![t] = <<>>]
  BY <1>2, <1>6, OneDocs DEF OnlyThread
<1>9. UNCHANGED [u \in Threads |-> [n \in Names |-> AnswerDoc(u, n)]]
  BY <1>2, <1>6, AnswersKept DEF OnlyThread
<1>10. [n \in Names |-> VisibleDoc(n)]'
         = [n \in Names |-> IF n = <<name, record>>[1]
                              /\ <<name, record>>[2] > [m \in Names |-> VisibleDoc(m)][n]
                            THEN <<name, record>>[2]
                            ELSE [m \in Names |-> VisibleDoc(m)][n]]
  BY <1>5
<1> QED
  BY <1>6, <1>7, <1>8, <1>9, <1>10 DEF Docs!EndLoad, Docs!NoLoad, Bump

LEMMA BeginReadDocs ==
    ASSUME DInv, DInv', NEW t \in Threads, BeginRead(t)
    PROVE  Docs!BeginRead(t)
<1>1. frame \in [Threads -> Frame] /\ frame' \in [Threads -> Frame]
  BY DEF DInv, TypeOK
<1>2. OnlyThread(t) /\ frame[t].pc = "idle" /\ frame'[t].pc = "wait"
  BY <1>1 DEF OnlyThread, BeginRead, Frame
<1>3. UNCHANGED [n \in Names |-> VisibleDoc(n)]
  BY <1>2, BuiltKept DEF BeginRead, VisibleDoc
<1>4. /\ Phase(t, HasDocs) = "idle" /\ Phase(t, HasDocs)' = "reading"
      /\ LoadOf(t, frame[t].record)' = LoadOf(t, frame[t].record)
      /\ \A n \in Names : AnswerDoc(t, n)' = AnswerDoc(t, n)
  BY <1>2 DEF Phase, LoadOf, AnswerDoc, HasDocs
<1>5. [u \in Threads |-> Phase(u, HasDocs)]'
        = [[u \in Threads |-> Phase(u, HasDocs)] EXCEPT ![t] = "reading"]
  BY <1>2, <1>4, OneDocs DEF OnlyThread
<1>6. UNCHANGED [u \in Threads |-> LoadOf(u, frame[u].record)]
  BY <1>2, <1>4, OneDocs DEF OnlyThread
<1>7. UNCHANGED [u \in Threads |-> [n \in Names |-> AnswerDoc(u, n)]]
  BY <1>2, <1>4, AnswersKept DEF OnlyThread
<1> QED
  BY <1>3, <1>4, <1>5, <1>6, <1>7 DEF Docs!BeginRead, BeginRead

LEMMA EndReadDocs ==
    ASSUME DInv, DInv', NEW t \in Threads, EndRead(t)
    PROVE  Docs!EndRead(t)
<1>1. frame \in [Threads -> Frame] /\ frame' \in [Threads -> Frame]
  BY DEF DInv, TypeOK
<1>2. OnlyThread(t) /\ frame[t].pc = "return" /\ frame'[t] = Idle
  BY <1>1 DEF OnlyThread, EndRead
<1>3. UNCHANGED [n \in Names |-> VisibleDoc(n)]
  BY <1>2, BuiltKept DEF EndRead, VisibleDoc, Idle
<1>4. /\ Phase(t, HasDocs) = "answered" /\ Phase(t, HasDocs)' = "idle"
      /\ LoadOf(t, frame[t].record)' = LoadOf(t, frame[t].record)
      /\ \A n \in Names : AnswerDoc(t, n)' = 0
  BY <1>2 DEF Phase, LoadOf, AnswerDoc, HasDocs, Idle
<1>5. [u \in Threads |-> Phase(u, HasDocs)]'
        = [[u \in Threads |-> Phase(u, HasDocs)] EXCEPT ![t] = "idle"]
  BY <1>2, <1>4, OneDocs DEF OnlyThread
<1>6. UNCHANGED [u \in Threads |-> LoadOf(u, frame[u].record)]
  BY <1>2, <1>4, OneDocs DEF OnlyThread
<1>7. [u \in Threads |-> [n \in Names |-> AnswerDoc(u, n)]]'
        = [[u \in Threads |-> [n \in Names |-> AnswerDoc(u, n)]]
             EXCEPT ![t] = [n \in Names |-> 0]]
  <2>1. [n \in Names |-> AnswerDoc(t, n)'] = [n \in Names |-> 0]
    BY <1>4
  <2> QED
    BY <1>2, <2>1, OneDocs DEF OnlyThread
<1> QED
  BY <1>3, <1>4, <1>5, <1>6, <1>7 DEF Docs!EndRead, Docs!Nothing, EndRead

LEMMA LockCacheDocs ==
    ASSUME DInv, DInv', NEW t \in Threads, LockCache(t)
    PROVE  UNCHANGED Docs!vars
<1>1. frame \in [Threads -> Frame] /\ frame' \in [Threads -> Frame]
  BY DEF DInv, TypeOK
<1>2. OnlyThread(t) /\ frame[t].pc = "wait" /\ frame'[t].pc = "compare"
  BY <1>1 DEF OnlyThread, LockCache, Frame
<1>3. BuiltDocs' = BuiltDocs
  BY <1>2 DEF LockCache, BuiltDocs, Building
<1>4. /\ Phase(t, HasDocs)' = Phase(t, HasDocs)
      /\ LoadOf(t, frame[t].record)' = LoadOf(t, frame[t].record)
      /\ \A n \in Names : AnswerDoc(t, n)' = AnswerDoc(t, n)
  BY <1>2 DEF Phase, LoadOf, AnswerDoc, HasDocs
<1> QED
  BY <1>2, <1>3, <1>4, DocsStutter DEF LockCache, OnlyThread

\* A hit answers with what is visible; a miss answers nothing yet.
LEMMA CompareDocs ==
    ASSUME DInv, DInv', NEW t \in Threads, Compare(t)
    PROVE  Docs!Answer(t) \/ UNCHANGED Docs!vars
<1>1. /\ frame \in [Threads -> Frame] /\ frame' \in [Threads -> Frame]
      /\ frame[t].pc = "compare" /\ mutex = t
      /\ UNCHANGED <<loaded, returned, cache, generation>>
  BY DEF DInv, TypeOK, MutexInv, Compare
<1>2. CASE cache.generation = generation
  <2>1. /\ OnlyThread(t) /\ frame'[t].pc = "return"
        /\ frame'[t].snapshot = cache.snapshot /\ mutex' = NoThread
    BY <1>1, <1>2 DEF OnlyThread, Compare, Frame
  <2>2. /\ BuiltDocs = cache.snapshot.docs /\ BuiltNames = cache.snapshot.names
        /\ BuiltDocs' = BuiltDocs
    BY <1>1, <2>1 DEF BuiltDocs, BuiltNames, Building
  <2>3. \A n \in Names : /\ VisibleDoc(n) = cache.snapshot.docs[n]
                         /\ VisibleDoc(n)' = VisibleDoc(n)
    BY <1>1, <1>2, <2>2, HitVisible DEF VisibleDoc
  <2> DEFINE appearing == {n \in Names : FALSE}
  <2>4. /\ appearing \in SUBSET Names
        /\ \A n \in Names :
             /\ VisibleDoc(n)' = IF n \in appearing THEN loaded[n]
                                 ELSE VisibleDoc(n)
             /\ frame'[t].snapshot.docs[n] = VisibleDoc(n)'
    BY <2>1, <2>3
  <2> HIDE DEF appearing
  <2> QED
    BY <1>1, <2>1, <2>4, DocsAnswer DEF OnlyThread, HasDocs
<1>3. CASE cache.generation # generation
  <2>1. OnlyThread(t) /\ frame'[t].pc = "names" /\ mutex' = mutex
    BY <1>1, <1>3 DEF OnlyThread, Compare, Frame
  <2>2. BuiltDocs' = BuiltDocs
    BY <1>1, <2>1, BuiltKept
  <2>3. /\ Phase(t, HasDocs)' = Phase(t, HasDocs)
        /\ LoadOf(t, frame[t].record)' = LoadOf(t, frame[t].record)
        /\ \A n \in Names : AnswerDoc(t, n)' = AnswerDoc(t, n)
    BY <1>1, <2>1 DEF Phase, LoadOf, AnswerDoc, HasDocs
  <2> QED
    BY <1>1, <2>1, <2>2, <2>3, DocsStutter DEF OnlyThread
<1> QED
  BY <1>2, <1>3

LEMMA ReadNamesDocs ==
    ASSUME DInv, DInv', NEW t \in Threads, ReadNames(t)
    PROVE  UNCHANGED Docs!vars
<1>1. frame \in [Threads -> Frame] /\ frame' \in [Threads -> Frame]
  BY DEF DInv, TypeOK
<1>2. OnlyThread(t) /\ frame[t].pc = "names" /\ frame'[t].pc = "docs"
  BY <1>1, ZenonT(30) DEF OnlyThread, ReadNames, Frame
<1>3. BuiltDocs' = BuiltDocs
  BY <1>2, BuiltKept DEF ReadNames
<1>4. /\ Phase(t, HasDocs)' = Phase(t, HasDocs)
      /\ LoadOf(t, frame[t].record)' = LoadOf(t, frame[t].record)
      /\ \A n \in Names : AnswerDoc(t, n)' = AnswerDoc(t, n)
  BY <1>2 DEF Phase, LoadOf, AnswerDoc, HasDocs
<1> QED
  BY <1>2, <1>3, <1>4, DocsStutter DEF ReadNames, OnlyThread

\* A build makes every record visible that is written by now.
LEMMA ReadDocsDocs ==
    ASSUME DInv, DInv', NEW t \in Threads, ReadDocs(t)
    PROVE  Docs!Answer(t)
<1>1. /\ frame \in [Threads -> Frame] /\ frame' \in [Threads -> Frame]
      /\ frame[t].pc = "docs" /\ mutex = t
      /\ UNCHANGED <<loaded, returned, cache, mutex>>
      /\ \A n \in Names : /\ returned[n] \in Nat /\ loaded[n] \in Nat
                          /\ returned[n] <= loaded[n]
  BY DEF DInv, TypeOK, MutexInv, RecordsInv, ReadDocs
<1>2. /\ OnlyThread(t) /\ frame'[t].pc = "store"
      /\ frame'[t].snapshot.docs = loaded
  BY <1>1 DEF OnlyThread, ReadDocs, Frame, Snapshot
<1>3. BuiltDocs' = loaded
  BY <1>1, <1>2, NoThreadAssumption DEF BuiltDocs, Building
<1>4. \A n \in Names : VisibleDoc(n)' = loaded[n]
  BY <1>1, <1>3 DEF VisibleDoc
<1>5. \A n \in Names :
        /\ VisibleDoc(n)' = IF n \in Names THEN loaded[n] ELSE VisibleDoc(n)
        /\ frame'[t].snapshot.docs[n] = VisibleDoc(n)'
  BY <1>2, <1>4
<1> QED
  BY <1>1, <1>2, <1>5, DocsAnswer DEF OnlyThread, HasDocs

LEMMA StoreDocs ==
    ASSUME DInv, DInv', NEW t \in Threads, Store(t)
    PROVE  UNCHANGED Docs!vars
<1>1. /\ frame \in [Threads -> Frame] /\ frame' \in [Threads -> Frame]
      /\ frame[t].pc = "store" /\ mutex = t
  BY DEF DInv, TypeOK, MutexInv, Store
<1>2. /\ OnlyThread(t) /\ frame'[t].pc = "return"
      /\ frame'[t].snapshot = frame[t].snapshot
      /\ mutex' = NoThread /\ cache'.snapshot = frame[t].snapshot
  BY <1>1 DEF OnlyThread, Store, Frame
<1>3. BuiltDocs' = BuiltDocs
  BY <1>1, <1>2, NoThreadAssumption DEF BuiltDocs, Building
<1>4. /\ Phase(t, HasDocs)' = Phase(t, HasDocs)
      /\ LoadOf(t, frame[t].record)' = LoadOf(t, frame[t].record)
      /\ \A n \in Names : AnswerDoc(t, n)' = AnswerDoc(t, n)
  BY <1>1, <1>2 DEF Phase, LoadOf, AnswerDoc, HasDocs
<1> QED
  BY <1>2, <1>3, <1>4, DocsStutter DEF Store, OnlyThread

LEMMA NextDocs ==
    ASSUME DInv, DInv', [Next]_vars
    PROVE  [Docs!Next]_(Docs!vars)
<1>1. ASSUME NEW t \in Threads, NEW n \in Names, Record(t, n)
      PROVE  Docs!Next
  BY <1>1, RecordDocs DEF Docs!Next
<1>2. ASSUME NEW t \in Threads,
             Bump(t) \/ BeginRead(t) \/ ReadDocs(t) \/ EndRead(t)
      PROVE  Docs!Next
  BY <1>2, BumpDocs, BeginReadDocs, ReadDocsDocs, EndReadDocs DEF Docs!Next
<1>3. ASSUME NEW t \in Threads, Compare(t)
      PROVE  Docs!Next \/ UNCHANGED Docs!vars
  BY <1>3, CompareDocs DEF Docs!Next
<1>4. ASSUME NEW t \in Threads, LockCache(t) \/ ReadNames(t) \/ Store(t)
      PROVE  UNCHANGED Docs!vars
  BY <1>4, LockCacheDocs, ReadNamesDocs, StoreDocs
<1>5. CASE UNCHANGED vars
  <2>1. UNCHANGED <<loaded, returned, cache, mutex, frame>>
    BY <1>5 DEF vars
  <2>2. UNCHANGED [n \in Names |-> VisibleDoc(n)]
    BY <2>1 DEF VisibleDoc, BuiltDocs, Building
  <2>3. UNCHANGED [u \in Threads |-> Phase(u, HasDocs)]
    BY <2>1 DEF Phase, HasDocs
  <2>4. UNCHANGED [u \in Threads |-> LoadOf(u, frame[u].record)]
    BY <2>1 DEF LoadOf
  <2>5. UNCHANGED [u \in Threads |-> [n \in Names |-> AnswerDoc(u, n)]]
    BY <2>1 DEF AnswerDoc, HasDocs
  <2> QED
    BY <2>1, <2>2, <2>3, <2>4, <2>5 DEF Docs!vars
<1> QED
  BY <1>1, <1>2, <1>3, <1>4, <1>5 DEF Next

\* The same for the loaded flags, whose answer is read one step earlier.
LEMMA OneFlags ==
    ASSUME NEW t \in Threads, \A u \in Threads \ {t} : frame'[u] = frame[u]
    PROVE  /\ [u \in Threads |-> Phase(u, HasNames)]'
                = [[u \in Threads |-> Phase(u, HasNames)]
                     EXCEPT ![t] = Phase(t, HasNames)']
           /\ [u \in Threads |-> LoadOf(u, 1)]'
                = [[u \in Threads |-> LoadOf(u, 1)]
                     EXCEPT ![t] = LoadOf(t, 1)']
           /\ [u \in Threads |-> [n \in Names |-> AnswerFlag(u, n)]]'
                = [[u \in Threads |-> [n \in Names |-> AnswerFlag(u, n)]]
                     EXCEPT ![t] = [n \in Names |-> AnswerFlag(t, n)']]
<1>1. \A u \in Threads \ {t} :
        /\ Phase(u, HasNames)' = Phase(u, HasNames)
        /\ LoadOf(u, 1)' = LoadOf(u, 1)
        /\ \A n \in Names : AnswerFlag(u, n)' = AnswerFlag(u, n)
  BY DEF Phase, LoadOf, AnswerFlag, HasNames, HasDocs
<1>2. [u \in Threads |-> Phase(u, HasNames)]'
        = [[u \in Threads |-> Phase(u, HasNames)]
             EXCEPT ![t] = Phase(t, HasNames)']
  BY <1>1
<1>3. [u \in Threads |-> LoadOf(u, 1)]'
        = [[u \in Threads |-> LoadOf(u, 1)]
             EXCEPT ![t] = LoadOf(t, 1)']
  BY <1>1
<1>4. [u \in Threads |-> [n \in Names |-> AnswerFlag(u, n)]]'
        = [[u \in Threads |-> [n \in Names |-> AnswerFlag(u, n)]]
             EXCEPT ![t] = [n \in Names |-> AnswerFlag(t, n)']]
  <2>1. \A u \in Threads \ {t} :
          [n \in Names |-> AnswerFlag(u, n)'] = [n \in Names |-> AnswerFlag(u, n)]
    BY <1>1
  <2> QED
    BY <2>1
<1> QED
  BY <1>2, <1>3, <1>4

LEMMA FlagsKept ==
    ASSUME NEW t \in Threads, \A u \in Threads \ {t} : frame'[u] = frame[u],
           \A n \in Names : AnswerFlag(t, n)' = AnswerFlag(t, n)
    PROVE  UNCHANGED [u \in Threads |-> [n \in Names |-> AnswerFlag(u, n)]]
<1>1. [n \in Names |-> AnswerFlag(t, n)'] = [n \in Names |-> AnswerFlag(t, n)]
  OBVIOUS
<1> QED
  BY <1>1, OneFlags

\* Steps the register of the flags cannot see.
LEMMA FlagsStutter ==
    ASSUME NEW t \in Threads, \A u \in Threads \ {t} : frame'[u] = frame[u],
           UNCHANGED <<loaded, returned>>, BuiltNames' = BuiltNames,
           Phase(t, HasNames)' = Phase(t, HasNames),
           LoadOf(t, 1)' = LoadOf(t, 1),
           \A n \in Names : AnswerFlag(t, n)' = AnswerFlag(t, n)
    PROVE  UNCHANGED Flags!vars
<1>1. /\ UNCHANGED [n \in Names |-> VisibleFlag(n)]
      /\ UNCHANGED [n \in Names |-> LoadedFlag(n)]
  BY DEF VisibleFlag, LoadedFlag
<1>2. UNCHANGED [u \in Threads |-> Phase(u, HasNames)]
  BY OneFlags
<1>3. UNCHANGED [u \in Threads |-> LoadOf(u, 1)]
  BY OneFlags
<1>4. UNCHANGED [u \in Threads |-> [n \in Names |-> AnswerFlag(u, n)]]
  BY FlagsKept
<1> QED
  BY <1>1, <1>2, <1>3, <1>4 DEF Flags!vars

\* The step in which a read finds the flags it answers with.
LEMMA FlagsAnswer ==
    ASSUME NEW t \in Threads, \A u \in Threads \ {t} : frame'[u] = frame[u],
           UNCHANGED <<loaded, returned>>,
           frame[t].pc \in {"compare", "names"},
           frame'[t].pc \in HasNames,
           NEW appearing \in SUBSET Names,
           \A n \in Names :
             /\ VisibleFlag(n)' = IF n \in appearing THEN LoadedFlag(n)
                                  ELSE VisibleFlag(n)
             /\ VisibleFlag(n)' = IF n \in frame'[t].snapshot.names THEN 1 ELSE 0
    PROVE  Flags!Answer(t)
<1>1. [n \in Names |-> VisibleFlag(n)]'
        = [n \in Names |-> IF n \in appearing
                           THEN [m \in Names |-> LoadedFlag(m)][n]
                           ELSE [m \in Names |-> VisibleFlag(m)][n]]
  OBVIOUS
<1>2. /\ Phase(t, HasNames) = "reading" /\ Phase(t, HasNames)' = "answered"
      /\ LoadOf(t, 1)' = LoadOf(t, 1)
  BY DEF Phase, HasNames, HasDocs, LoadOf
<1>3. [n \in Names |-> AnswerFlag(t, n)'] = [n \in Names |-> VisibleFlag(n)]'
  BY DEF AnswerFlag
<1>4. [u \in Threads |-> [n \in Names |-> AnswerFlag(u, n)]]'
        = [[u \in Threads |-> [n \in Names |-> AnswerFlag(u, n)]]
             EXCEPT ![t] = [n \in Names |-> VisibleFlag(n)]']
  BY <1>3, OneFlags
<1>5. [u \in Threads |-> Phase(u, HasNames)]'
        = [[u \in Threads |-> Phase(u, HasNames)] EXCEPT ![t] = "answered"]
  BY <1>2, OneFlags
<1>6. UNCHANGED [u \in Threads |-> LoadOf(u, 1)]
  BY <1>2, OneFlags
<1>7. UNCHANGED [n \in Names |-> LoadedFlag(n)]
  BY DEF LoadedFlag
<1> QED
  BY <1>1, <1>2, <1>4, <1>5, <1>6, <1>7 DEF Flags!Answer

LEMMA RecordFlags ==
    ASSUME DInv, DInv', NEW t \in Threads, NEW n \in Names, Record(t, n)
    PROVE  Flags!BeginLoad(t, n, 1)
<1>1. /\ records \in Nat /\ records < MaxLoads /\ MaxLoads \in Nat
      /\ loaded \in [Names -> Nat] /\ loaded[n] <= records
      /\ frame \in [Threads -> Frame] /\ frame' \in [Threads -> Frame]
  BY MaxLoadsAssumption DEF Record, DInv, TypeOK, RecordsInv
<1>2. /\ OnlyThread(t)
      /\ frame[t].pc = "idle" /\ frame'[t].pc = "bump"
      /\ frame'[t].name = n /\ frame'[t].record = records + 1
  BY <1>1 DEF OnlyThread, Record, Frame
<1>3. UNCHANGED [m \in Names |-> VisibleFlag(m)]
  BY <1>2, BuiltKept DEF Record, VisibleFlag
<1>4. /\ Phase(t, HasNames) = "idle" /\ Phase(t, HasNames)' = "loading"
      /\ LoadOf(t, 1)' = <<n, 1>>
      /\ \A m \in Names : AnswerFlag(t, m)' = AnswerFlag(t, m)
  BY <1>2 DEF Phase, LoadOf, AnswerFlag, HasNames, HasDocs
<1>5. [u \in Threads |-> Phase(u, HasNames)]'
        = [[u \in Threads |-> Phase(u, HasNames)] EXCEPT ![t] = "loading"]
  BY <1>2, <1>4, OneFlags DEF OnlyThread
<1>6. [u \in Threads |-> LoadOf(u, 1)]'
        = [[u \in Threads |-> LoadOf(u, 1)]
             EXCEPT ![t] = <<n, 1>>]
  BY <1>2, <1>4, OneFlags DEF OnlyThread
<1>7. UNCHANGED [u \in Threads |-> [m \in Names |-> AnswerFlag(u, m)]]
  BY <1>2, <1>4, FlagsKept DEF OnlyThread
<1>8. /\ 1 >= LoadedFlag(n)
      /\ [m \in Names |-> LoadedFlag(m)]'
           = [[m \in Names |-> LoadedFlag(m)] EXCEPT ![n] = 1]
  <2>1. \A m \in Names : loaded'[m] = IF m = n THEN records + 1 ELSE loaded[m]
    BY <1>1 DEF Record
  <2>2. /\ \A m \in Names : LoadedFlag(m)' = IF m = n THEN 1 ELSE LoadedFlag(m)
        /\ 1 >= LoadedFlag(n)
    BY <1>1, <2>1 DEF LoadedFlag
  <2> QED
    BY <2>2
<1> QED
  BY <1>3, <1>4, <1>5, <1>6, <1>7, <1>8 DEF Flags!BeginLoad

LEMMA BumpFlags ==
    ASSUME DInv, DInv', NEW t \in Threads, Bump(t)
    PROVE  Flags!EndLoad(t)
<1> DEFINE name == frame[t].name
           record == frame[t].record
<1>1. /\ frame \in [Threads -> Frame] /\ frame' \in [Threads -> Frame]
      /\ frame[t].pc = "bump" /\ name \in Names /\ record \in Nat
      /\ 0 < record
      /\ returned \in [Names -> Nat]
  BY DEF Bump, DInv, TypeOK, Frame, RecordsInv
<1>2. OnlyThread(t) /\ frame'[t] = Idle
  BY <1>1 DEF OnlyThread, Bump
<1>3. BuiltNames' = BuiltNames
  BY <1>1, <1>2, BuiltKept DEF Bump, Idle
<1>4. returned' = [returned EXCEPT ![name] = IF record > returned[name]
                                             THEN record ELSE returned[name]]
  BY DEF Bump
<1>5. \A n \in Names :
        VisibleFlag(n)' = IF n = name /\ 1 > VisibleFlag(n) THEN 1
                          ELSE VisibleFlag(n)
  <2> SUFFICES ASSUME NEW n \in Names
               PROVE  VisibleFlag(n)' = IF n = name /\ 1 > VisibleFlag(n)
                                        THEN 1 ELSE VisibleFlag(n)
    OBVIOUS
  <2>1. returned[n] \in Nat
    BY <1>1
  <2>2. returned'[n] = IF n = name /\ record > returned[n] THEN record
                       ELSE returned[n]
    BY <1>1, <1>4
  <2> HIDE DEF name, record
  <2> QED
    BY <1>1, <1>3, <2>1, <2>2 DEF VisibleFlag
<1>6. /\ Phase(t, HasNames) = "loading" /\ Phase(t, HasNames)' = "idle"
      /\ LoadOf(t, 1) = <<name, 1>>
      /\ LoadOf(t, 1)' = <<>>
      /\ \A n \in Names : AnswerFlag(t, n)' = AnswerFlag(t, n)
  BY <1>1, <1>2 DEF Phase, LoadOf, AnswerFlag, HasNames, HasDocs, Idle
<1>7. [u \in Threads |-> Phase(u, HasNames)]'
        = [[u \in Threads |-> Phase(u, HasNames)] EXCEPT ![t] = "idle"]
  BY <1>2, <1>6, OneFlags DEF OnlyThread
<1>8. [u \in Threads |-> LoadOf(u, 1)]'
        = [[u \in Threads |-> LoadOf(u, 1)] EXCEPT ![t] = <<>>]
  BY <1>2, <1>6, OneFlags DEF OnlyThread
<1>9. UNCHANGED [u \in Threads |-> [n \in Names |-> AnswerFlag(u, n)]]
  BY <1>2, <1>6, FlagsKept DEF OnlyThread
<1>10. UNCHANGED [n \in Names |-> LoadedFlag(n)]
  BY DEF Bump, LoadedFlag
<1>11. [n \in Names |-> VisibleFlag(n)]'
         = [n \in Names |-> IF n = <<name, 1>>[1]
                              /\ <<name, 1>>[2] > [m \in Names |-> VisibleFlag(m)][n]
                            THEN <<name, 1>>[2]
                            ELSE [m \in Names |-> VisibleFlag(m)][n]]
  BY <1>5
<1> QED
  BY <1>6, <1>7, <1>8, <1>9, <1>10, <1>11
     DEF Flags!EndLoad, Flags!NoLoad, Bump

LEMMA BeginReadFlags ==
    ASSUME DInv, DInv', NEW t \in Threads, BeginRead(t)
    PROVE  Flags!BeginRead(t)
<1>1. frame \in [Threads -> Frame] /\ frame' \in [Threads -> Frame]
  BY DEF DInv, TypeOK
<1>2. OnlyThread(t) /\ frame[t].pc = "idle" /\ frame'[t].pc = "wait"
  BY <1>1 DEF OnlyThread, BeginRead, Frame
<1>3. /\ UNCHANGED [n \in Names |-> VisibleFlag(n)]
      /\ UNCHANGED [n \in Names |-> LoadedFlag(n)]
  BY <1>2, BuiltKept DEF BeginRead, VisibleFlag, LoadedFlag
<1>4. /\ Phase(t, HasNames) = "idle" /\ Phase(t, HasNames)' = "reading"
      /\ LoadOf(t, 1)' = LoadOf(t, 1)
      /\ \A n \in Names : AnswerFlag(t, n)' = AnswerFlag(t, n)
  BY <1>2 DEF Phase, LoadOf, AnswerFlag, HasNames, HasDocs
<1>5. [u \in Threads |-> Phase(u, HasNames)]'
        = [[u \in Threads |-> Phase(u, HasNames)] EXCEPT ![t] = "reading"]
  BY <1>2, <1>4, OneFlags DEF OnlyThread
<1>6. UNCHANGED [u \in Threads |-> LoadOf(u, 1)]
  BY <1>2, <1>4, OneFlags DEF OnlyThread
<1>7. UNCHANGED [u \in Threads |-> [n \in Names |-> AnswerFlag(u, n)]]
  BY <1>2, <1>4, FlagsKept DEF OnlyThread
<1> QED
  BY <1>3, <1>4, <1>5, <1>6, <1>7 DEF Flags!BeginRead, BeginRead

LEMMA EndReadFlags ==
    ASSUME DInv, DInv', NEW t \in Threads, EndRead(t)
    PROVE  Flags!EndRead(t)
<1>1. frame \in [Threads -> Frame] /\ frame' \in [Threads -> Frame]
  BY DEF DInv, TypeOK
<1>2. OnlyThread(t) /\ frame[t].pc = "return" /\ frame'[t] = Idle
  BY <1>1 DEF OnlyThread, EndRead
<1>3. /\ UNCHANGED [n \in Names |-> VisibleFlag(n)]
      /\ UNCHANGED [n \in Names |-> LoadedFlag(n)]
  BY <1>2, BuiltKept DEF EndRead, VisibleFlag, LoadedFlag, Idle
<1>4. /\ Phase(t, HasNames) = "answered" /\ Phase(t, HasNames)' = "idle"
      /\ LoadOf(t, 1)' = LoadOf(t, 1)
      /\ \A n \in Names : AnswerFlag(t, n)' = 0
  BY <1>2 DEF Phase, LoadOf, AnswerFlag, HasNames, HasDocs, Idle
<1>5. [u \in Threads |-> Phase(u, HasNames)]'
        = [[u \in Threads |-> Phase(u, HasNames)] EXCEPT ![t] = "idle"]
  BY <1>2, <1>4, OneFlags DEF OnlyThread
<1>6. UNCHANGED [u \in Threads |-> LoadOf(u, 1)]
  BY <1>2, <1>4, OneFlags DEF OnlyThread
<1>7. [u \in Threads |-> [n \in Names |-> AnswerFlag(u, n)]]'
        = [[u \in Threads |-> [n \in Names |-> AnswerFlag(u, n)]]
             EXCEPT ![t] = [n \in Names |-> 0]]
  <2>1. [n \in Names |-> AnswerFlag(t, n)'] = [n \in Names |-> 0]
    BY <1>4
  <2> QED
    BY <1>2, <2>1, OneFlags DEF OnlyThread
<1> QED
  BY <1>3, <1>4, <1>5, <1>6, <1>7 DEF Flags!EndRead, Flags!Nothing, EndRead

LEMMA LockCacheFlags ==
    ASSUME DInv, DInv', NEW t \in Threads, LockCache(t)
    PROVE  UNCHANGED Flags!vars
<1>1. frame \in [Threads -> Frame] /\ frame' \in [Threads -> Frame]
  BY DEF DInv, TypeOK
<1>2. OnlyThread(t) /\ frame[t].pc = "wait" /\ frame'[t].pc = "compare"
  BY <1>1 DEF OnlyThread, LockCache, Frame
<1>3. BuiltNames' = BuiltNames
  BY <1>2 DEF LockCache, BuiltNames, Building
<1>4. /\ Phase(t, HasNames)' = Phase(t, HasNames)
      /\ LoadOf(t, 1)' = LoadOf(t, 1)
      /\ \A n \in Names : AnswerFlag(t, n)' = AnswerFlag(t, n)
  BY <1>2 DEF Phase, LoadOf, AnswerFlag, HasNames, HasDocs
<1> QED
  BY <1>2, <1>3, <1>4, FlagsStutter DEF LockCache, OnlyThread

\* A hit answers with what is visible; a miss answers nothing yet.
LEMMA CompareFlags ==
    ASSUME DInv, DInv', NEW t \in Threads, Compare(t)
    PROVE  Flags!Answer(t) \/ UNCHANGED Flags!vars
<1>1. /\ frame \in [Threads -> Frame] /\ frame' \in [Threads -> Frame]
      /\ frame[t].pc = "compare" /\ mutex = t
      /\ UNCHANGED <<loaded, returned, cache, generation>>
  BY DEF DInv, TypeOK, MutexInv, Compare
<1>2. CASE cache.generation = generation
  <2>1. /\ OnlyThread(t) /\ frame'[t].pc = "return"
        /\ frame'[t].snapshot = cache.snapshot /\ mutex' = NoThread
    BY <1>1, <1>2 DEF OnlyThread, Compare, Frame
  <2>2. /\ BuiltDocs = cache.snapshot.docs /\ BuiltNames = cache.snapshot.names
        /\ BuiltNames' = BuiltNames
    BY <1>1, <2>1 DEF BuiltDocs, BuiltNames, Building
  <2>3. \A n \in Names : /\ VisibleFlag(n) = IF n \in cache.snapshot.names THEN 1 ELSE 0
                         /\ VisibleFlag(n)' = VisibleFlag(n)
    BY <1>1, <1>2, <2>2, HitVisible DEF VisibleFlag
  <2> DEFINE appearing == {n \in Names : FALSE}
  <2>4. /\ appearing \in SUBSET Names
        /\ \A n \in Names :
             /\ VisibleFlag(n)' = IF n \in appearing THEN LoadedFlag(n)
                                  ELSE VisibleFlag(n)
             /\ VisibleFlag(n)' = IF n \in frame'[t].snapshot.names THEN 1 ELSE 0
    BY <2>1, <2>3
  <2> HIDE DEF appearing
  <2> QED
    BY <1>1, <2>1, <2>4, FlagsAnswer DEF OnlyThread, HasNames, HasDocs
<1>3. CASE cache.generation # generation
  <2>1. OnlyThread(t) /\ frame'[t].pc = "names" /\ mutex' = mutex
    BY <1>1, <1>3 DEF OnlyThread, Compare, Frame
  <2>2. BuiltNames' = BuiltNames
    BY <1>1, <2>1, BuiltKept
  <2>3. /\ Phase(t, HasNames)' = Phase(t, HasNames)
        /\ LoadOf(t, 1)' = LoadOf(t, 1)
        /\ \A n \in Names : AnswerFlag(t, n)' = AnswerFlag(t, n)
    BY <1>1, <2>1 DEF Phase, LoadOf, AnswerFlag, HasNames, HasDocs
  <2> QED
    BY <1>1, <2>1, <2>2, <2>3, FlagsStutter DEF OnlyThread
<1> QED
  BY <1>2, <1>3

\* The names of a build: every load that wrote its record is flagged.
LEMMA ReadNamesFlags ==
    ASSUME DInv, DInv', NEW t \in Threads, ReadNames(t)
    PROVE  Flags!Answer(t)
<1>1. /\ frame \in [Threads -> Frame] /\ frame' \in [Threads -> Frame]
      /\ frame[t].pc = "names" /\ mutex = t
      /\ UNCHANGED <<loaded, returned, cache, mutex>>
      /\ \A n \in Names : /\ returned[n] \in Nat /\ loaded[n] \in Nat
                          /\ returned[n] <= loaded[n]
  BY DEF DInv, TypeOK, MutexInv, RecordsInv, ReadNames
<1>2. /\ OnlyThread(t) /\ frame'[t].pc = "docs"
      /\ frame'[t].snapshot.names = {n \in Names : loaded[n] # 0}
  <2> DEFINE flagged == {n \in Names : loaded[n] # 0}
  <2>1. frame' = [frame EXCEPT ![t].pc = "docs", ![t].snapshot.names = flagged]
    BY DEF ReadNames
  <2>2. frame[t] \in Frame /\ frame[t].snapshot \in Snapshot
    BY <1>1 DEF Frame
  <2> HIDE DEF flagged
  <2>3. /\ OnlyThread(t) /\ frame'[t].pc = "docs"
        /\ frame'[t].snapshot.names = flagged
    BY <1>1, <2>1, <2>2 DEF OnlyThread, Frame, Snapshot
  <2> QED
    BY <2>3 DEF flagged
<1>3. BuiltNames' = {n \in Names : loaded[n] # 0}
  BY <1>1, <1>2, NoThreadAssumption DEF BuiltNames, Building
<1>4. \A n \in Names : VisibleFlag(n)' = LoadedFlag(n)
  BY <1>1, <1>3 DEF VisibleFlag, LoadedFlag
<1>5. \A n \in Names :
        /\ VisibleFlag(n)' = IF n \in Names THEN LoadedFlag(n) ELSE VisibleFlag(n)
        /\ VisibleFlag(n)' = IF n \in frame'[t].snapshot.names THEN 1 ELSE 0
  BY <1>2, <1>4 DEF LoadedFlag
<1> QED
  BY <1>1, <1>2, <1>5, FlagsAnswer DEF OnlyThread, HasNames, HasDocs

LEMMA ReadDocsFlags ==
    ASSUME DInv, DInv', NEW t \in Threads, ReadDocs(t)
    PROVE  UNCHANGED Flags!vars
<1>1. /\ frame \in [Threads -> Frame] /\ frame' \in [Threads -> Frame]
      /\ frame[t].pc = "docs" /\ mutex = t
  BY DEF DInv, TypeOK, MutexInv, ReadDocs
<1>2. /\ OnlyThread(t) /\ frame'[t].pc = "store"
      /\ frame'[t].snapshot.names = frame[t].snapshot.names
  BY <1>1 DEF OnlyThread, ReadDocs, Frame, Snapshot
<1>3. BuiltNames' = BuiltNames
  BY <1>1, <1>2, NoThreadAssumption DEF ReadDocs, BuiltNames, Building
<1>4. /\ Phase(t, HasNames)' = Phase(t, HasNames)
      /\ LoadOf(t, 1)' = LoadOf(t, 1)
      /\ \A n \in Names : AnswerFlag(t, n)' = AnswerFlag(t, n)
  BY <1>1, <1>2 DEF Phase, LoadOf, AnswerFlag, HasNames, HasDocs
<1> QED
  BY <1>2, <1>3, <1>4, FlagsStutter DEF ReadDocs, OnlyThread

LEMMA StoreFlags ==
    ASSUME DInv, DInv', NEW t \in Threads, Store(t)
    PROVE  UNCHANGED Flags!vars
<1>1. /\ frame \in [Threads -> Frame] /\ frame' \in [Threads -> Frame]
      /\ frame[t].pc = "store" /\ mutex = t
  BY DEF DInv, TypeOK, MutexInv, Store
<1>2. /\ OnlyThread(t) /\ frame'[t].pc = "return"
      /\ frame'[t].snapshot = frame[t].snapshot
      /\ mutex' = NoThread /\ cache'.snapshot = frame[t].snapshot
  BY <1>1 DEF OnlyThread, Store, Frame
<1>3. BuiltNames' = BuiltNames
  BY <1>1, <1>2, NoThreadAssumption DEF BuiltNames, Building
<1>4. /\ Phase(t, HasNames)' = Phase(t, HasNames)
      /\ LoadOf(t, 1)' = LoadOf(t, 1)
      /\ \A n \in Names : AnswerFlag(t, n)' = AnswerFlag(t, n)
  BY <1>1, <1>2 DEF Phase, LoadOf, AnswerFlag, HasNames, HasDocs
<1> QED
  BY <1>2, <1>3, <1>4, FlagsStutter DEF Store, OnlyThread

LEMMA NextFlags ==
    ASSUME DInv, DInv', [Next]_vars
    PROVE  [Flags!Next]_(Flags!vars)
<1>1. ASSUME NEW t \in Threads, NEW n \in Names, Record(t, n)
      PROVE  Flags!Next
  BY <1>1, RecordFlags DEF Flags!Next
<1>2. ASSUME NEW t \in Threads,
             Bump(t) \/ BeginRead(t) \/ ReadNames(t) \/ EndRead(t)
      PROVE  Flags!Next
  BY <1>2, BumpFlags, BeginReadFlags, ReadNamesFlags, EndReadFlags DEF Flags!Next
<1>3. ASSUME NEW t \in Threads, Compare(t)
      PROVE  Flags!Next \/ UNCHANGED Flags!vars
  BY <1>3, CompareFlags DEF Flags!Next
<1>4. ASSUME NEW t \in Threads, LockCache(t) \/ ReadDocs(t) \/ Store(t)
      PROVE  UNCHANGED Flags!vars
  BY <1>4, LockCacheFlags, ReadDocsFlags, StoreFlags
<1>5. CASE UNCHANGED vars
  <2>1. UNCHANGED <<loaded, returned, cache, mutex, frame>>
    BY <1>5 DEF vars
  <2>2. /\ UNCHANGED [n \in Names |-> VisibleFlag(n)]
        /\ UNCHANGED [n \in Names |-> LoadedFlag(n)]
    BY <2>1 DEF VisibleFlag, LoadedFlag, BuiltNames, Building
  <2>3. UNCHANGED [u \in Threads |-> Phase(u, HasNames)]
    BY <2>1 DEF Phase, HasNames, HasDocs
  <2>4. UNCHANGED [u \in Threads |-> LoadOf(u, 1)]
    BY <2>1 DEF LoadOf
  <2>5. UNCHANGED [u \in Threads |-> [n \in Names |-> AnswerFlag(u, n)]]
    BY <2>1 DEF AnswerFlag, HasDocs
  <2> QED
    BY <2>1, <2>2, <2>3, <2>4, <2>5 DEF Flags!vars
<1> QED
  BY <1>1, <1>2, <1>3, <1>4, <1>5 DEF Next

\* Loads and reads of the views, however their steps interleave: the
\* documentation that views show is as in an atomic register written by the
\* loads, and so are the loaded flags.
THEOREM ViewsAreAtomic == Spec => ViewsAtomic
<1>1. Init => Docs!Init /\ Flags!Init
  <2> SUFFICES ASSUME Init PROVE Docs!Init /\ Flags!Init
    OBVIOUS
  <2>1. /\ loaded = [n \in Names |-> 0]
        /\ \A n \in Names : /\ VisibleDoc(n) = 0 /\ VisibleFlag(n) = 0
                            /\ LoadedFlag(n) = 0
    BY DEF Init, VisibleDoc, VisibleFlag, LoadedFlag, BuiltDocs, BuiltNames,
           Building, NoSnapshot
  <2>2. \A t \in Threads :
          /\ Phase(t, HasDocs) = "idle" /\ Phase(t, HasNames) = "idle"
          /\ LoadOf(t, frame[t].record) = <<>> /\ LoadOf(t, 1) = <<>>
          /\ \A n \in Names : AnswerDoc(t, n) = 0 /\ AnswerFlag(t, n) = 0
    BY DEF Init, Idle, Phase, LoadOf, AnswerDoc, AnswerFlag, HasNames, HasDocs
  <2>3. Docs!Init
    BY <2>1, <2>2 DEF Docs!Init, Docs!Nothing, Docs!NoLoad
  <2>4. Flags!Init
    BY <2>1, <2>2 DEF Flags!Init, Flags!Nothing, Flags!NoLoad
  <2> QED
    BY <2>3, <2>4
<1>2. DInv /\ DInv' /\ [Next]_vars =>
        [Docs!Next]_(Docs!vars) /\ [Flags!Next]_(Flags!vars)
  BY NextDocs, NextFlags
<1> QED
  BY <1>1, <1>2, DInvariant, PTL
     DEF Spec, ViewsAtomic, Docs!Spec, Flags!Spec
=============================================================================
