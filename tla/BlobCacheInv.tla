---------------------------- MODULE BlobCacheInv ----------------------------
(***************************************************************************)
(* The inductive invariants of BlobCache.  CInv holds for any number of    *)
(* processes; WInv adds what is true only while one process at a time uses *)
(* the cache directory, where DOWNLOAD_LOCK excludes every other writer.   *)
(***************************************************************************)
EXTENDS BlobCache

\* The OnceLock: its initialiser runs in one worker, before there is a value.
PopulatingInv ==
    /\ \A p \in Processes : populating[p] # NoWorker => catalog[p] = NoCatalog
    /\ \A t \in Threads : job[t].pc = "fetch" => populating[t[1]] = t[2]

\* A request has a path from its lookup on.
PathInv ==
    \A t \in Threads :
        job[t].pc \in {"check", "lock", "read"} \cup UnderLock =>
            Path(t) \in Paths

\* The digest a request goes on with is its catalog's.
DigestInv ==
    \A t \in Threads :
        job[t].digest # NoDigest =>
            /\ job[t].pc \notin {"idle", "catalog", "fetch"}
            /\ job[t].name \in Names
            /\ catalog[t[1]] # NoCatalog
            /\ job[t].digest = catalog[t[1]][job[t].name]

\* Only a verified body is written.
BodyInv ==
    /\ \A t \in Threads :
         job[t].pc \in {"create", "write"} => job[t].body = "right"
    /\ \A f \in Files, b \in Blocks : data[f][b] # "wrong"

CInv ==
    /\ TypeOK
    /\ PopulatingInv
    /\ PathInv
    /\ DigestInv
    /\ BodyInv

\* Nothing is written before a file is open.
FreshInv ==
    \A t \in Threads :
        job[t].pc \notin {"write", "read"} => job[t].written = 0

\* DOWNLOAD_LOCK is held from its acquisition to the return.
LockInv ==
    \A t \in Threads : job[t].pc \in UnderLock => lock[t[1]] = t[2]

\* Who has the DOWNLOAD_LOCK of a process, or runs its OnceLock's initialiser,
\* is at a step that gives it back: no return and no error keeps it, and two
\* threads of a process never have it.
LocksExact ==
    \A t \in Threads :
        /\ lock[t[1]] = t[2] <=> job[t].pc \in UnderLock
        /\ populating[t[1]] = t[2] <=> job[t].pc = "fetch"

\* The file a thread writes is the one the partial path still names, and the
\* blocks it has written are there.
WriteInv ==
    \A t \in Threads :
        job[t].pc = "write" =>
            /\ job[t].file \in Files
            /\ partial[Path(t)] = job[t].file
            /\ \A b \in Blocks :
                 b <= job[t].written => data[job[t].file][b] = "right"

\* No file has two names, except that equal cached ones do no harm.
NamesInv ==
    \A x, y \in Paths :
        partial[x] # NoFile =>
            /\ partial[x] = partial[y] => x = y
            /\ cached[y] # partial[x]

CachedInv ==
    /\ \A x \in Paths : cached[x] # NoFile => data[cached[x]] = Whole
    /\ \A t \in Threads : job[t].pc = "read" => cached[Path(t)] # NoFile

WInv ==
    /\ CInv
    /\ FreshInv
    /\ LockInv
    /\ WriteInv
    /\ NamesInv
    /\ CachedInv
    /\ FetchedOnce
=============================================================================
