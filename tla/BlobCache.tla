----------------------------- MODULE BlobCache ------------------------------
(***************************************************************************)
(* The catalog and the blob cache (src/catalog.rs): a name is looked up in *)
(* the catalog the process fetched once, and the blob with the digest the  *)
(* catalog gives is taken from the on-disk cache or downloaded, verified   *)
(* and published there.  resolve_name_to_blob and resolve_name_to_native   *)
(* have this same shape, and a name here is a name asked of one of them.   *)
(*                                                                         *)
(* The cache directory belongs to the user, so several processes share it. *)
(* The catalog's OnceLock and DOWNLOAD_LOCK are per process.  The file     *)
(* system is modelled by its inodes: a path names a file, an open file     *)
(* stays the same one when the path is renamed.                            *)
(***************************************************************************)
EXTENDS Naturals

CONSTANTS
    Processes,    \* processes that share the cache directory
    Workers,      \* the threads of each process
    NoWorker,
    Names,
    NoName,       \* what the prewarm thread asks for
    Digests,
    NoDigest,     \* a name the catalog lacks, or refuses for this host
    NoCatalog,
    Files,        \* inodes
    NoFile,
    NBlocks,      \* blocks of a blob
    MaxRequests,  \* bound on the requests of a behaviour
    MaxCrashes    \* bound on the process crashes of a behaviour

ASSUME NoWorkerAssumption == NoWorker \notin Workers
ASSUME NoNameAssumption == NoName \notin Names
ASSUME NoDigestAssumption == NoDigest \notin Digests
ASSUME NoFileAssumption == NoFile \notin Files
ASSUME NBlocksAssumption == NBlocks \in Nat \ {0}
ASSUME BoundsAssumption == MaxRequests \in Nat /\ MaxCrashes \in Nat

Threads == Processes \X Workers
Blocks == 1 .. NBlocks

\* blob_cache_path, native_cache_path: keyed by digest, then by name.
Paths == Digests \X Names

\* What resolve_digest or select_native_provider answers for each name; which
\* answers a live catalog gives is up to the server.
Catalogs == [Names -> Digests \cup {NoDigest}]

ASSUME NoCatalogAssumption == NoCatalog \notin Catalogs

\* A block of a file is a hole or holds bytes; these are the ones the path's
\* digest stands for, or others.
Bytes == {"right", "wrong"}
Empty == [b \in Blocks |-> "hole"]
Whole == [b \in Blocks |-> "right"]

VARIABLES
    catalog,      \* CATALOG of each process
    populating,   \* the worker that runs its OnceLock's initialiser
    lock,         \* holder of each process's DOWNLOAD_LOCK
    cached,       \* the file at each cache path
    partial,      \* the file at its "<name>.wasm.partial"
    data,         \* the contents of each file
    job,          \* each thread's call
    left          \* requests and crashes left in this behaviour

files == <<cached, partial, data>>
vars == <<catalog, populating, lock, cached, partial, data, job, left>>

UnderLock == {"recheck", "download", "verify", "create", "write"}
Pc == {"idle", "catalog", "fetch", "check", "lock", "read"} \cup UnderLock
Job == [pc : Pc, name : Names \cup {NoName}, digest : Digests \cup {NoDigest},
        body : Bytes, file : Files \cup {NoFile}, written : 0 .. NBlocks]
Idle == [pc |-> "idle", name |-> NoName, digest |-> NoDigest, body |-> "wrong",
         file |-> NoFile, written |-> 0]

TypeOK ==
    /\ catalog \in [Processes -> Catalogs \cup {NoCatalog}]
    /\ populating \in [Processes -> Workers \cup {NoWorker}]
    /\ lock \in [Processes -> Workers \cup {NoWorker}]
    /\ cached \in [Paths -> Files \cup {NoFile}]
    /\ partial \in [Paths -> Files \cup {NoFile}]
    /\ data \in [Files -> [Blocks -> Bytes \cup {"hole"}]]
    /\ job \in [Threads -> Job]
    /\ left \in [requests : 0 .. MaxRequests, crashes : 0 .. MaxCrashes]

Init ==
    /\ catalog = [p \in Processes |-> NoCatalog]
    /\ populating = [p \in Processes |-> NoWorker]
    /\ lock = [p \in Processes |-> NoWorker]
    /\ cached = [x \in Paths |-> NoFile]
    /\ partial = [x \in Paths |-> NoFile]
    /\ data = [f \in Files |-> Empty]
    /\ job = [t \in Threads |-> Idle]
    /\ left = [requests |-> MaxRequests, crashes |-> MaxCrashes]

Path(t) == <<job[t].digest, job[t].name>>
Goto(t, pc) == job' = [job EXCEPT ![t].pc = pc]

\* The function returns, with an Err or to a caller that needs no file; a
\* worker that holds DOWNLOAD_LOCK drops its guard.
Return(t) == job' = [job EXCEPT ![t] = Idle]
Unlock(t) == lock' = [lock EXCEPT ![t[1]] = NoWorker]

-----------------------------------------------------------------------------
(* The catalog *)

\* resolve_name_to_blob, resolve_name_to_native.
Request(t, n) ==
    /\ job[t].pc = "idle"
    /\ left.requests > 0
    /\ left' = [left EXCEPT !.requests = @ - 1]
    /\ job' = [job EXCEPT ![t].pc = "catalog", ![t].name = n]
    /\ UNCHANGED <<catalog, populating, lock, files>>

\* prewarm_catalog, in the thread it spawns when Engine2::new finds no
\* catalog yet.
Prewarm(t) ==
    /\ job[t].pc = "idle"
    /\ catalog[t[1]] = NoCatalog
    /\ left.requests > 0
    /\ left' = [left EXCEPT !.requests = @ - 1]
    /\ Goto(t, "catalog")
    /\ UNCHANGED <<catalog, populating, lock, files>>

\* Mutant: get, then populate and set, instead of get_or_init.
PopulateUnsynchronised(t) ==
    /\ job[t].pc = "catalog"
    /\ catalog[t[1]] = NoCatalog
    /\ populating' = [populating EXCEPT ![t[1]] = t[2]]
    /\ Goto(t, "fetch")
    /\ UNCHANGED <<catalog, lock, files, left>>

\* get_or_init: one caller runs populate_catalog, the others wait for it.
Populate(t) ==
    /\ job[t].pc = "catalog"
    /\ catalog[t[1]] = NoCatalog
    /\ populating[t[1]] = NoWorker
    /\ populating' = [populating EXCEPT ![t[1]] = t[2]]
    /\ Goto(t, "fetch")
    /\ UNCHANGED <<catalog, lock, files, left>>

\* The live catalog, or the bundled one when it cannot be had in time.
Populated(t) ==
    /\ job[t].pc = "fetch"
    /\ \E c \in Catalogs : catalog' = [catalog EXCEPT ![t[1]] = c]
    /\ populating' = [populating EXCEPT ![t[1]] = NoWorker]
    /\ Goto(t, "catalog")
    /\ UNCHANGED <<lock, files, left>>

\* An unknown name, or one without a provider for this host, is an Err.
Lookup(t) ==
    /\ job[t].pc = "catalog"
    /\ catalog[t[1]] # NoCatalog
    /\ \/ job[t].name = NoName /\ Return(t)
       \/ /\ job[t].name # NoName
          /\ LET d == catalog[t[1]][job[t].name] IN
               \/ d = NoDigest /\ Return(t)
               \/ /\ d # NoDigest
                  /\ job' = [job EXCEPT ![t].pc = "check", ![t].digest = d]
    /\ UNCHANGED <<catalog, populating, lock, files, left>>

-----------------------------------------------------------------------------
(* The cache *)

\* A hit trusts the digest-keyed path.
Check(t) ==
    /\ job[t].pc = "check"
    /\ Goto(t, IF cached[Path(t)] # NoFile THEN "read" ELSE "lock")
    /\ UNCHANGED <<catalog, populating, lock, files, left>>

LockDownloads(t) ==
    /\ job[t].pc = "lock"
    /\ lock[t[1]] = NoWorker
    /\ lock' = [lock EXCEPT ![t[1]] = t[2]]
    /\ Goto(t, "recheck")
    /\ UNCHANGED <<catalog, populating, files, left>>

\* Mutant: no second look after the lock was taken.
RecheckDropped(t) ==
    /\ job[t].pc = "recheck"
    /\ Goto(t, "download")
    /\ UNCHANGED <<catalog, populating, lock, files, left>>

Recheck(t) ==
    /\ job[t].pc = "recheck"
    /\ \/ cached[Path(t)] # NoFile /\ Goto(t, "read") /\ Unlock(t)
       \/ cached[Path(t)] = NoFile /\ Goto(t, "download") /\ UNCHANGED lock
    /\ UNCHANGED <<catalog, populating, files, left>>

\* The server sends some body.  An HTTP error, the 60 s timeout and a build
\* without the network feature are an Err.
Download(t) ==
    /\ job[t].pc = "download"
    /\ \/ /\ \E body \in Bytes :
               job' = [job EXCEPT ![t].pc = "verify", ![t].body = body]
          /\ UNCHANGED lock
       \/ Return(t) /\ Unlock(t)
    /\ UNCHANGED <<catalog, populating, files, left>>

\* Mutants: the digests are not compared; a mismatch returns with the lock.
VerifyNothing(t) ==
    /\ job[t].pc = "verify"
    /\ Goto(t, "create")
    /\ UNCHANGED <<catalog, populating, lock, files, left>>
VerifyKeepsLock(t) ==
    /\ job[t].pc = "verify"
    /\ \/ job[t].body = "right" /\ Goto(t, "create")
       \/ job[t].body # "right" /\ Return(t)
    /\ UNCHANGED <<catalog, populating, lock, files, left>>

\* sha256 of the body against the catalog's digest.
Verify(t) ==
    /\ job[t].pc = "verify"
    /\ \/ job[t].body = "right" /\ Goto(t, "create") /\ UNCHANGED lock
       \/ job[t].body # "right" /\ Return(t) /\ Unlock(t)
    /\ UNCHANGED <<catalog, populating, files, left>>

\* Mutant: the blob is written in place, not beside the cache path.
CreateInPlace(t) ==
    /\ job[t].pc = "create"
    /\ \E f \in Files :
         /\ cached' = [cached EXCEPT ![Path(t)] = f]
         /\ data' = [data EXCEPT ![f] = Empty]
         /\ job' = [job EXCEPT ![t].pc = "write", ![t].file = f]
    /\ UNCHANGED <<catalog, populating, lock, partial, left>>

\* A file no path names and no thread has open.
Unused(f) ==
    /\ \A x \in Paths : cached[x] # f /\ partial[x] # f
    /\ \A t \in Threads : job[t].file # f

\* fs::write opens the partial file, truncated when it is there already.
Create(t) ==
    /\ job[t].pc = "create"
    /\ \E f \in Files :
         /\ \/ partial[Path(t)] = NoFile /\ Unused(f)
            \/ partial[Path(t)] = f
         /\ partial' = [partial EXCEPT ![Path(t)] = f]
         /\ data' = [data EXCEPT ![f] = Empty]
         /\ job' = [job EXCEPT ![t].pc = "write", ![t].file = f]
    /\ UNCHANGED <<catalog, populating, lock, cached, left>>

WriteBlock(t) ==
    /\ job[t].pc = "write"
    /\ job[t].written # NBlocks
    /\ job' = [job EXCEPT ![t].written = @ + 1]
    /\ data' = [data EXCEPT
                  ![job[t].file][job[t].written + 1] = job[t].body]
    /\ UNCHANGED <<catalog, populating, lock, cached, partial, left>>

\* The rename takes whatever file the partial path names by then.
Rename(t) ==
    /\ job[t].pc = "write"
    /\ job[t].written = NBlocks
    /\ \/ /\ partial[Path(t)] # NoFile
          /\ cached' = [cached EXCEPT ![Path(t)] = partial[Path(t)]]
          /\ partial' = [partial EXCEPT ![Path(t)] = NoFile]
          /\ job' = [job EXCEPT ![t].pc = "read", ![t].file = NoFile]
       \/ /\ partial[Path(t)] = NoFile
          /\ Return(t)
          /\ UNCHANGED <<cached, partial>>
    /\ Unlock(t)
    /\ UNCHANGED <<catalog, populating, data, left>>

\* create_dir_all, the write or the rename fails; the partial file stays.
WriteFails(t) ==
    /\ job[t].pc \in {"create", "write"}
    /\ Return(t)
    /\ Unlock(t)
    /\ UNCHANGED <<catalog, populating, files, left>>

\* The caller hands the path to the engine, or to DuckDB's LOAD.
ReadBlob(t) ==
    /\ job[t].pc = "read"
    /\ Return(t)
    /\ UNCHANGED <<catalog, populating, lock, files, left>>

\* A process dies and starts again: its memory and locks go, the files stay.
Crash(p) ==
    /\ left.crashes > 0
    /\ left' = [left EXCEPT !.crashes = @ - 1]
    /\ catalog' = [catalog EXCEPT ![p] = NoCatalog]
    /\ populating' = [populating EXCEPT ![p] = NoWorker]
    /\ lock' = [lock EXCEPT ![p] = NoWorker]
    /\ job' = [t \in Threads |-> IF t[1] = p THEN Idle ELSE job[t]]
    /\ UNCHANGED files

-----------------------------------------------------------------------------
(* The specification *)

Progress(t) ==
    \/ Populate(t) \/ Populated(t) \/ Lookup(t)
    \/ Check(t) \/ LockDownloads(t) \/ Recheck(t) \/ Download(t) \/ Verify(t)
    \/ Create(t) \/ WriteBlock(t) \/ Rename(t) \/ WriteFails(t) \/ ReadBlob(t)

\* Nothing is under way.  Any other state without a step is a deadlock.
AtRest == (\A t \in Threads : job[t].pc = "idle") /\ UNCHANGED vars

Next ==
    \/ \E t \in Threads :
         \/ Progress(t)
         \/ Prewarm(t)
         \/ \E n \in Names : Request(t, n)
    \/ \E p \in Processes : Crash(p)
    \/ AtRest

Spec == Init /\ [][Next]_vars

\* Threads run, and a download ends: its client has a timeout.
FairSpec == Spec /\ \A t \in Threads : WF_vars(Progress(t))

-----------------------------------------------------------------------------
(* Properties *)

\* "a concurrent reader never sees a half-written blob" (write_cache), nor one
\* that a crash or a failed write left behind.
ReadersSeeWhole ==
    \A t \in Threads :
        job[t].pc = "read" => cached[Path(t)] \in Files
                                /\ data[cached[Path(t)]] = Whole

\* "fail loudly, never cache it" (resolve_name_to_blob): no file under a cache
\* path holds a block of a body that did not have the path's digest.
OnlyVerified ==
    \A x \in Paths :
        cached[x] # NoFile =>
            \A b \in Blocks : data[cached[x]][b] # "wrong"

\* "two concurrent ducklink_load of the same name don't both fetch + write"
\* (DOWNLOAD_LOCK): what is downloaded or written is not cached already.
FetchedOnce ==
    \A t \in Threads :
        job[t].pc \in {"download", "verify", "create", "write"} =>
            cached[Path(t)] = NoFile

\* "resolved to a single fetch (never two)" (prewarm_catalog), and a request
\* goes on with the digest of the one catalog its process has.
OneCatalog ==
    \A t \in Threads :
        /\ job[t].pc = "fetch" =>
             /\ catalog[t[1]] = NoCatalog
             /\ \A u \in Threads :
                  u[1] = t[1] /\ job[u].pc = "fetch" => u = t
        /\ job[t].digest # NoDigest =>
             /\ catalog[t[1]] # NoCatalog
             /\ job[t].digest = catalog[t[1]][job[t].name]

\* What a caller of resolve_name_to_blob can tell: its blob is asked for, found
\* or fetched, held.  A blob is stored when its path leads to all of it, and
\* being fetched from the decision under DOWNLOAD_LOCK to the rename.
NoPath == <<NoDigest, NoName>>
Wanted(t) == IF job[t].digest = NoDigest THEN NoPath ELSE Path(t)
WholeBlobs == {x \in Paths : cached[x] # NoFile /\ data[cached[x]] = Whole}
Fetching(t) == job[t].pc \in {"download", "verify", "create", "write"}
Holding(t) == job[t].pc = "read"

Store == INSTANCE BlobStore WITH
    Callers <- Threads,
    stored <- WholeBlobs,
    wants <- [t \in Threads |-> Wanted(t)],
    fetching <- {t \in Threads : Fetching(t)},
    holds <- {t \in Threads : Holding(t)}

\* The files, the lock and the threads' steps implement the store: a step makes
\* at most one of its moves, and none of them loses a blob or fetches it again.
ImplementsStore == Store!Spec

\* Every request returns, whoever holds the lock or fetches the catalog.
RequestsReturn ==
    \A t \in Threads : job[t].pc # "idle" ~> job[t].pc = "idle"
=============================================================================
