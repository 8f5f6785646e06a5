-------------------------- MODULE BlobCacheProofs ---------------------------
(***************************************************************************)
(* Theorems about BlobCache, for every set of workers, names, digests and  *)
(* inodes.  CInv is inductive whatever the processes are; WInv when there  *)
(* is one, and only then: two processes write the same partial path.  The  *)
(* refinement of BlobStore follows from WInv.                              *)
(***************************************************************************)
EXTENDS BlobCacheInv, TLAPS

-----------------------------------------------------------------------------
(* What an action does to the job of its thread, field by field *)

JobStep(t, pc, name, digest, body, file, written) ==
    /\ job' \in [Threads -> Job]
    /\ job'[t].pc = pc
    /\ job'[t].name = name
    /\ job'[t].digest = digest
    /\ job'[t].body = body
    /\ job'[t].file = file
    /\ job'[t].written = written
    /\ \A u \in Threads \ {t} : job'[u] = job[u]

LEMMA JobGoto ==
  ASSUME TypeOK, NEW t \in Threads, NEW pc \in Pc, Goto(t, pc)
  PROVE  JobStep(t, pc, job[t].name, job[t].digest, job[t].body, job[t].file,
                 job[t].written)
BY DEF TypeOK, Job, JobStep, Goto

LEMMA JobNamed ==
  ASSUME TypeOK, NEW t \in Threads, NEW pc \in Pc, NEW n \in Names,
         job' = [job EXCEPT ![t].pc = pc, ![t].name = n]
  PROVE  JobStep(t, pc, n, job[t].digest, job[t].body, job[t].file,
                 job[t].written)
BY DEF TypeOK, Job, JobStep

LEMMA JobLookedUp ==
  ASSUME TypeOK, NEW t \in Threads, NEW pc \in Pc, NEW d \in Digests,
         job' = [job EXCEPT ![t].pc = pc, ![t].digest = d]
  PROVE  JobStep(t, pc, job[t].name, d, job[t].body, job[t].file,
                 job[t].written)
BY DEF TypeOK, Job, JobStep

LEMMA JobDownloaded ==
  ASSUME TypeOK, NEW t \in Threads, NEW pc \in Pc, NEW body \in Bytes,
         job' = [job EXCEPT ![t].pc = pc, ![t].body = body]
  PROVE  JobStep(t, pc, job[t].name, job[t].digest, body, job[t].file,
                 job[t].written)
BY DEF TypeOK, Job, JobStep

LEMMA JobOpened ==
  ASSUME TypeOK, NEW t \in Threads, NEW pc \in Pc, NEW f \in Files \cup {NoFile},
         job' = [job EXCEPT ![t].pc = pc, ![t].file = f]
  PROVE  JobStep(t, pc, job[t].name, job[t].digest, job[t].body, f,
                 job[t].written)
BY DEF TypeOK, Job, JobStep

LEMMA JobWritten ==
  ASSUME TypeOK, NEW t \in Threads, job[t].written # NBlocks,
         job' = [job EXCEPT ![t].written = @ + 1]
  PROVE  /\ JobStep(t, job[t].pc, job[t].name, job[t].digest, job[t].body,
                    job[t].file, job[t].written + 1)
         /\ job[t].written + 1 \in Blocks
<1>1. job[t] \in Job
  BY DEF TypeOK
<1>2. /\ job[t].written \in 0 .. NBlocks
      /\ job[t].written + 1 \in 0 .. NBlocks
      /\ job[t].written + 1 \in Blocks
  BY <1>1, NBlocksAssumption DEF Job, Blocks
<1>3. QED
  BY <1>1, <1>2 DEF TypeOK, Job, JobStep

LEMMA JobReturns ==
  ASSUME TypeOK, NEW t \in Threads, Return(t)
  PROVE  JobStep(t, "idle", NoName, NoDigest, "wrong", NoFile, 0)
<1>1. Idle \in Job
  BY NBlocksAssumption DEF Idle, Job, Pc, Bytes
<1>2. QED
  BY <1>1 DEF TypeOK, JobStep, Return, Idle

LEMMA ThreadParts ==
  ASSUME NEW t \in Threads
  PROVE  t[1] \in Processes /\ t[2] \in Workers /\ t = <<t[1], t[2]>>
BY DEF Threads

\* In one process, threads are told apart by their worker.
LEMMA SameThread ==
  ASSUME NEW t \in Threads, NEW u \in Threads, t[1] = u[1], t[2] = u[2]
  PROVE  t = u
BY ThreadParts

LEMMA PathParts ==
  ASSUME NEW t \in Threads, Path(t) \in Paths
  PROVE  job[t].digest \in Digests /\ job[t].name \in Names
BY DEF Path, Paths

-----------------------------------------------------------------------------
(* CInv is inductive, one lemma per action *)

LEMMA InitCInv == Init => CInv
<1> SUFFICES ASSUME Init PROVE CInv
  OBVIOUS
<1> USE DEF Init
<1>1. Idle \in Job
  BY NBlocksAssumption DEF Idle, Job, Pc, Bytes
<1>2. TypeOK
  BY <1>1, BoundsAssumption DEF TypeOK, Empty
<1>3. \A t \in Threads : /\ job[t].pc = "idle"
                         /\ job[t].digest = NoDigest
  BY DEF Idle
<1>4. PopulatingInv /\ PathInv /\ DigestInv /\ BodyInv
  BY <1>3 DEF PopulatingInv, PathInv, DigestInv, BodyInv, Empty, UnderLock
<1>5. QED
  BY <1>2, <1>4 DEF CInv

LEMMA RequestCInv ==
  ASSUME CInv, NEW t \in Threads, NEW n \in Names, Request(t, n)
  PROVE  CInv'
<1> USE DEF CInv
<1>1. JobStep(t, "catalog", n, job[t].digest, job[t].body, job[t].file,
              job[t].written)
  BY JobNamed DEF Request, Pc
<1>2. left' \in [requests : 0 .. MaxRequests, crashes : 0 .. MaxCrashes]
  BY BoundsAssumption DEF TypeOK, Request
<1>3. TypeOK'
  BY <1>1, <1>2 DEF TypeOK, JobStep, Request, files
<1>4. PopulatingInv'
  BY <1>1 DEF PopulatingInv, JobStep, Request
<1>5. PathInv'
  BY <1>1 DEF PathInv, Path, JobStep, UnderLock
<1>6. DigestInv'
  BY <1>1 DEF DigestInv, JobStep, Request
<1>7. BodyInv'
  BY <1>1 DEF BodyInv, JobStep, Request, files
<1>8. QED
  BY <1>3, <1>4, <1>5, <1>6, <1>7

LEMMA PrewarmCInv ==
  ASSUME CInv, NEW t \in Threads, Prewarm(t)
  PROVE  CInv'
<1> USE DEF CInv
<1>1. JobStep(t, "catalog", job[t].name, job[t].digest, job[t].body,
              job[t].file, job[t].written)
  BY JobGoto DEF Prewarm, Pc
<1>2. left' \in [requests : 0 .. MaxRequests, crashes : 0 .. MaxCrashes]
  BY BoundsAssumption DEF TypeOK, Prewarm
<1>3. TypeOK'
  BY <1>1, <1>2 DEF TypeOK, JobStep, Prewarm, files
<1>4. PopulatingInv'
  BY <1>1 DEF PopulatingInv, JobStep, Prewarm
<1>5. PathInv'
  BY <1>1 DEF PathInv, Path, JobStep, UnderLock
<1>6. DigestInv'
  BY <1>1 DEF DigestInv, JobStep, Prewarm
<1>7. BodyInv'
  BY <1>1 DEF BodyInv, JobStep, Prewarm, files
<1>8. QED
  BY <1>3, <1>4, <1>5, <1>6, <1>7

LEMMA PopulateCInv ==
  ASSUME CInv, NEW t \in Threads, Populate(t)
  PROVE  CInv'
<1> USE DEF CInv
<1>1. JobStep(t, "fetch", job[t].name, job[t].digest, job[t].body,
              job[t].file, job[t].written)
  BY JobGoto DEF Populate, Pc
<1>2. TypeOK'
  BY <1>1, ThreadParts DEF TypeOK, JobStep, Populate, files
<1>3. PopulatingInv'
  <2>1. \A p \in Processes : populating'[p] # NoWorker => catalog'[p] = NoCatalog
    BY DEF PopulatingInv, Populate, TypeOK
  <2>2. ASSUME NEW u \in Threads, job'[u].pc = "fetch"
        PROVE  populating'[u[1]] = u[2]
    BY <1>1, <2>2, ThreadParts, NoWorkerAssumption
    DEF PopulatingInv, Populate, TypeOK, JobStep
  <2>3. QED
    BY <2>1, <2>2 DEF PopulatingInv
<1>4. PathInv'
  BY <1>1 DEF PathInv, Path, JobStep, UnderLock
<1>5. DigestInv'
  BY <1>1 DEF DigestInv, JobStep, Populate
<1>6. BodyInv'
  BY <1>1 DEF BodyInv, JobStep, Populate, files
<1>7. QED
  BY <1>2, <1>3, <1>4, <1>5, <1>6

LEMMA PopulatedCInv ==
  ASSUME CInv, NEW t \in Threads, Populated(t)
  PROVE  CInv'
<1> USE DEF CInv
<1>1. JobStep(t, "catalog", job[t].name, job[t].digest, job[t].body,
              job[t].file, job[t].written)
  BY JobGoto DEF Populated, Pc
<1>2. catalog[t[1]] = NoCatalog
  BY ThreadParts, NoWorkerAssumption DEF PopulatingInv, Populated
<1>3. PICK c \in Catalogs : catalog' = [catalog EXCEPT ![t[1]] = c]
  BY DEF Populated
<1>4. TypeOK'
  BY <1>1, <1>3, ThreadParts DEF TypeOK, JobStep, Populated, files
<1>5. PopulatingInv'
  <2>1. \A p \in Processes : populating'[p] # NoWorker => catalog'[p] = NoCatalog
    BY <1>3 DEF PopulatingInv, Populated, TypeOK
  <2>2. ASSUME NEW u \in Threads, job'[u].pc = "fetch"
        PROVE  populating'[u[1]] = u[2]
    <3>1. u # t /\ job[u].pc = "fetch"
      BY <1>1, <2>2 DEF JobStep
    <3>2. u[1] # t[1]
      BY <3>1, SameThread DEF PopulatingInv, Populated
    <3>3. QED
      BY <3>1, <3>2, ThreadParts DEF PopulatingInv, Populated, TypeOK
  <2>3. QED
    BY <2>1, <2>2 DEF PopulatingInv
<1>6. PathInv'
  BY <1>1 DEF PathInv, Path, JobStep, UnderLock
<1>7. DigestInv'
  <2>1. SUFFICES ASSUME NEW u \in Threads, job'[u].digest # NoDigest
                 PROVE  /\ job'[u].pc \notin {"idle", "catalog", "fetch"}
                        /\ job'[u].name \in Names
                        /\ catalog'[u[1]] # NoCatalog
                        /\ job'[u].digest = catalog'[u[1]][job'[u].name]
    BY DEF DigestInv
  <2>2. u # t /\ job'[u] = job[u]
    BY <1>1, <2>1 DEF DigestInv, JobStep, Populated
  <2>3. u[1] # t[1]
    BY <1>2, <2>1, <2>2 DEF DigestInv
  <2>4. QED
    BY <1>3, <2>1, <2>2, <2>3, ThreadParts DEF DigestInv, TypeOK
<1>8. BodyInv'
  BY <1>1 DEF BodyInv, JobStep, Populated, files
<1>9. QED
  BY <1>4, <1>5, <1>6, <1>7, <1>8

\* A step of t that leaves the catalog alone keeps CInv when t's own job does.
LEMMA JobStepCInv ==
  ASSUME CInv, TypeOK', NEW t \in Threads, NEW pc, NEW name, NEW digest,
         NEW body, NEW file, NEW written,
         JobStep(t, pc, name, digest, body, file, written),
         UNCHANGED <<catalog, populating>>,
         pc # "fetch",
         pc \in {"check", "lock", "read"} \cup UnderLock =>
             <<digest, name>> \in Paths,
         digest # NoDigest =>
             /\ pc \notin {"idle", "catalog", "fetch"}
             /\ name \in Names
             /\ catalog[t[1]] # NoCatalog
             /\ digest = catalog[t[1]][name],
         pc \in {"create", "write"} => body = "right",
         \A f \in Files, b \in Blocks : data'[f][b] # "wrong"
  PROVE  CInv'
<1> USE DEF CInv
<1>1. PopulatingInv'
  BY DEF PopulatingInv, JobStep
<1>2. PathInv'
  BY DEF PathInv, Path, JobStep
<1>3. DigestInv'
  BY DEF DigestInv, JobStep
<1>4. BodyInv'
  BY DEF BodyInv, JobStep
<1>5. QED
  BY <1>1, <1>2, <1>3, <1>4

LEMMA LookupCInv ==
  ASSUME CInv, NEW t \in Threads, Lookup(t)
  PROVE  CInv'
<1> USE DEF CInv
<1>1. \A f \in Files, b \in Blocks : data'[f][b] # "wrong"
  BY DEF BodyInv, Lookup, files
<1>2. CASE Return(t)
  <2>1. JobStep(t, "idle", NoName, NoDigest, "wrong", NoFile, 0)
    BY <1>2, JobReturns
  <2>2. TypeOK'
    BY <2>1 DEF TypeOK, JobStep, Lookup, files
  <2>3. QED
    BY <1>1, <2>1, <2>2, JobStepCInv DEF Lookup, UnderLock
<1>3. CASE /\ job[t].name # NoName
           /\ catalog[t[1]][job[t].name] # NoDigest
           /\ job' = [job EXCEPT ![t].pc = "check",
                                 ![t].digest = catalog[t[1]][job[t].name]]
  <2> DEFINE d == catalog[t[1]][job[t].name]
  <2>1. job[t].name \in Names
    BY <1>3 DEF TypeOK, Job
  <2>2. d \in Digests
    BY <1>3, <2>1, ThreadParts DEF TypeOK, Lookup, Catalogs
  <2>3. JobStep(t, "check", job[t].name, d, job[t].body, job[t].file,
                job[t].written)
    BY <1>3, <2>2, JobLookedUp DEF Pc
  <2>4. TypeOK'
    BY <2>3 DEF TypeOK, JobStep, Lookup, files
  <2>5. <<d, job[t].name>> \in Paths
    BY <2>1, <2>2 DEF Paths
  <2>6. catalog[t[1]] # NoCatalog /\ UNCHANGED <<catalog, populating>>
    BY DEF Lookup
  <2>7. PopulatingInv' /\ PathInv'
    BY <2>3, <2>5, <2>6 DEF PopulatingInv, PathInv, Path, JobStep
  <2>8. DigestInv'
    BY <2>1, <2>3, <2>6 DEF DigestInv, JobStep
  <2>9. BodyInv'
    BY <1>1, <2>3 DEF BodyInv, JobStep
  <2>10. QED
    BY <2>4, <2>7, <2>8, <2>9
<1>4. QED
  BY <1>2, <1>3 DEF Lookup

LEMMA CheckCInv ==
  ASSUME CInv, NEW t \in Threads, Check(t)
  PROVE  CInv'
<1> USE DEF CInv
<1> DEFINE pc == IF cached[Path(t)] # NoFile THEN "read" ELSE "lock"
<1>1. JobStep(t, pc, job[t].name, job[t].digest, job[t].body, job[t].file,
              job[t].written)
  BY JobGoto DEF Check, Pc
<1>2. TypeOK'
  BY <1>1 DEF TypeOK, JobStep, Check, files
<1>3. QED
  BY <1>1, <1>2, JobStepCInv
  DEF Check, files, PathInv, Path, DigestInv, BodyInv, UnderLock

LEMMA LockDownloadsCInv ==
  ASSUME CInv, NEW t \in Threads, LockDownloads(t)
  PROVE  CInv'
<1> USE DEF CInv
<1>1. JobStep(t, "recheck", job[t].name, job[t].digest, job[t].body,
              job[t].file, job[t].written)
  BY JobGoto DEF LockDownloads, Pc, UnderLock
<1>2. TypeOK'
  BY <1>1, ThreadParts DEF TypeOK, JobStep, LockDownloads, files
<1>3. QED
  BY <1>1, <1>2, JobStepCInv
  DEF LockDownloads, files, PathInv, Path, DigestInv, BodyInv, UnderLock

LEMMA RecheckCInv ==
  ASSUME CInv, NEW t \in Threads, Recheck(t)
  PROVE  CInv'
<1> USE DEF CInv
<1>1. PICK pc \in {"read", "download"} : Goto(t, pc)
  BY DEF Recheck
<1>2. JobStep(t, pc, job[t].name, job[t].digest, job[t].body, job[t].file,
              job[t].written)
  BY <1>1, JobGoto DEF Pc, UnderLock
<1>3. TypeOK'
  BY <1>2, ThreadParts DEF TypeOK, JobStep, Recheck, Unlock, files
<1>4. QED
  BY <1>2, <1>3, JobStepCInv
  DEF Recheck, files, PathInv, Path, DigestInv, BodyInv, UnderLock

\* A step that ends in Return(t), with the lock released or not held.
LEMMA ReturnCInv ==
  ASSUME CInv, NEW t \in Threads, Return(t), Unlock(t) \/ UNCHANGED lock,
         UNCHANGED <<catalog, populating, files, left>>
  PROVE  CInv'
<1> USE DEF CInv
<1>1. JobStep(t, "idle", NoName, NoDigest, "wrong", NoFile, 0)
  BY JobReturns
<1>2. TypeOK'
  BY <1>1, ThreadParts DEF TypeOK, JobStep, Unlock, files
<1>3. QED
  BY <1>1, <1>2, JobStepCInv DEF files, BodyInv, UnderLock

LEMMA DownloadCInv ==
  ASSUME CInv, NEW t \in Threads, Download(t)
  PROVE  CInv'
<1> USE DEF CInv
<1>1. CASE /\ \E body \in Bytes :
                job' = [job EXCEPT ![t].pc = "verify", ![t].body = body]
           /\ UNCHANGED lock
  <2>1. PICK body \in Bytes :
              job' = [job EXCEPT ![t].pc = "verify", ![t].body = body]
    BY <1>1
  <2>2. JobStep(t, "verify", job[t].name, job[t].digest, body, job[t].file,
                job[t].written)
    BY <2>1, JobDownloaded DEF Pc, UnderLock
  <2>3. TypeOK'
    BY <1>1, <2>2 DEF TypeOK, JobStep, Download, files
  <2>4. /\ UNCHANGED <<catalog, populating, data>>
        /\ job[t].pc = "download"
    BY DEF Download, files
  <2>5. PopulatingInv' /\ PathInv'
    BY <2>2, <2>4 DEF PopulatingInv, PathInv, Path, JobStep, UnderLock
  <2>6. DigestInv' /\ BodyInv'
    BY <2>2, <2>4 DEF DigestInv, BodyInv, JobStep
  <2>7. QED
    BY <2>3, <2>5, <2>6
<1>2. QED
  BY <1>1, ReturnCInv DEF Download

LEMMA VerifyCInv ==
  ASSUME CInv, NEW t \in Threads, Verify(t)
  PROVE  CInv'
<1> USE DEF CInv
<1>1. CASE job[t].body = "right" /\ Goto(t, "create") /\ UNCHANGED lock
  <2>1. JobStep(t, "create", job[t].name, job[t].digest, "right", job[t].file,
                job[t].written)
    BY <1>1, JobGoto DEF Pc, UnderLock
  <2>2. /\ UNCHANGED <<catalog, populating, files, left>>
        /\ job[t].pc = "verify"
    BY DEF Verify
  <2>3. TypeOK'
    BY <1>1, <2>1, <2>2 DEF TypeOK, JobStep, files
  <2>4. PopulatingInv' /\ PathInv'
    BY <2>1, <2>2 DEF PopulatingInv, PathInv, Path, JobStep, UnderLock
  <2>5. DigestInv' /\ BodyInv'
    BY <2>1, <2>2 DEF DigestInv, BodyInv, JobStep, files
  <2>6. QED
    BY <2>3, <2>4, <2>5
<1>2. QED
  BY <1>1, ReturnCInv DEF Verify

LEMMA CreateCInv ==
  ASSUME CInv, NEW t \in Threads, Create(t)
  PROVE  CInv'
<1> USE DEF CInv
<1>1. PICK f \in Files :
         /\ partial' = [partial EXCEPT ![Path(t)] = f]
         /\ data' = [data EXCEPT ![f] = Empty]
         /\ job' = [job EXCEPT ![t].pc = "write", ![t].file = f]
  BY DEF Create
<1>2. JobStep(t, "write", job[t].name, job[t].digest, job[t].body, f,
              job[t].written)
  BY <1>1, JobOpened DEF Pc, UnderLock
<1>3. /\ UNCHANGED <<catalog, populating, lock, cached, left>>
      /\ job[t].pc = "create"
  BY DEF Create
<1>4. TypeOK'
  <2>1. data' \in [Files -> [Blocks -> Bytes \cup {"hole"}]]
    BY <1>1 DEF TypeOK, Empty
  <2>2. QED
    BY <1>1, <1>2, <1>3, <2>1 DEF TypeOK, JobStep
<1>5. PopulatingInv' /\ PathInv'
  BY <1>2, <1>3 DEF PopulatingInv, PathInv, Path, JobStep, UnderLock
<1>6. DigestInv'
  BY <1>2, <1>3 DEF DigestInv, JobStep
<1>7. BodyInv'
  BY <1>1, <1>2, <1>3 DEF BodyInv, JobStep, Empty, TypeOK
<1>8. QED
  BY <1>4, <1>5, <1>6, <1>7

\* What a WriteBlock step does to the contents of the files.
LEMMA WriteBlockData ==
  ASSUME CInv, NEW t \in Threads, WriteBlock(t)
  PROVE  /\ data' \in [Files -> [Blocks -> Bytes \cup {"hole"}]]
         /\ \A f \in Files, b \in Blocks :
              data'[f][b] =
                IF f = job[t].file /\ b = job[t].written + 1 THEN "right"
                                                             ELSE data[f][b]
<1> USE DEF CInv
<1>1. job[t].written + 1 \in Blocks
  BY JobWritten DEF WriteBlock
<1>2. job[t].body = "right"
  BY DEF WriteBlock, BodyInv
<1>3. data' = [data EXCEPT ![job[t].file] =
                 [@ EXCEPT ![job[t].written + 1] = "right"]]
  BY <1>2 DEF WriteBlock
<1>4. "right" \in Bytes
  BY DEF Bytes
<1>5. QED
  BY <1>1, <1>3, <1>4 DEF TypeOK

LEMMA WriteBlockCInv ==
  ASSUME CInv, NEW t \in Threads, WriteBlock(t)
  PROVE  CInv'
<1> USE DEF CInv
<1>1. JobStep(t, job[t].pc, job[t].name, job[t].digest, job[t].body,
              job[t].file, job[t].written + 1)
  BY JobWritten DEF WriteBlock
<1>2. /\ UNCHANGED <<catalog, populating, lock, cached, partial, left>>
      /\ job[t].pc = "write"
  BY DEF WriteBlock
<1>3. TypeOK'
  BY <1>1, <1>2, WriteBlockData DEF TypeOK, JobStep
<1>4. PopulatingInv' /\ PathInv'
  BY <1>1, <1>2 DEF PopulatingInv, PathInv, Path, JobStep, UnderLock
<1>5. DigestInv'
  BY <1>1, <1>2 DEF DigestInv, JobStep
<1>6. BodyInv'
  BY <1>1, <1>2, WriteBlockData DEF BodyInv, JobStep
<1>7. QED
  BY <1>3, <1>4, <1>5, <1>6

LEMMA RenameCInv ==
  ASSUME CInv, NEW t \in Threads, Rename(t)
  PROVE  CInv'
<1> USE DEF CInv
<1>0. /\ UNCHANGED <<catalog, populating, data, left>>
      /\ lock' \in [Processes -> Workers \cup {NoWorker}]
      /\ job[t].pc = "write"
  BY ThreadParts DEF Rename, Unlock, TypeOK
<1>1. CASE /\ cached' = [cached EXCEPT ![Path(t)] = partial[Path(t)]]
           /\ partial' = [partial EXCEPT ![Path(t)] = NoFile]
           /\ job' = [job EXCEPT ![t].pc = "read", ![t].file = NoFile]
  <2>1. JobStep(t, "read", job[t].name, job[t].digest, job[t].body, NoFile,
                job[t].written)
    BY <1>1, JobOpened DEF Pc
  <2>2. Path(t) \in Paths
    BY <1>0 DEF PathInv, UnderLock
  <2>3. TypeOK'
    BY <1>0, <1>1, <2>1, <2>2 DEF TypeOK, JobStep
  <2>4. PopulatingInv' /\ PathInv'
    BY <1>0, <2>1, <2>2 DEF PopulatingInv, PathInv, Path, JobStep, UnderLock
  <2>5. DigestInv' /\ BodyInv'
    BY <1>0, <2>1 DEF DigestInv, BodyInv, JobStep
  <2>6. QED
    BY <2>3, <2>4, <2>5
<1>2. CASE Return(t) /\ UNCHANGED <<cached, partial>>
  BY <1>0, <1>2, ReturnCInv DEF Rename, files
<1>3. QED
  BY <1>1, <1>2 DEF Rename

LEMMA CrashCInv ==
  ASSUME CInv, NEW p \in Processes, Crash(p)
  PROVE  CInv'
<1> USE DEF CInv
<1>1. \A t \in Threads : job'[t] = IF t[1] = p THEN Idle ELSE job[t]
  BY DEF Crash
<1>2. Idle \in Job
  BY NBlocksAssumption DEF Idle, Job, Pc, Bytes
<1>3. left' \in [requests : 0 .. MaxRequests, crashes : 0 .. MaxCrashes]
  BY BoundsAssumption DEF TypeOK, Crash
<1>4. job' \in [Threads -> Job]
  BY <1>1, <1>2 DEF TypeOK, Crash
<1>5. TypeOK'
  BY <1>3, <1>4 DEF TypeOK, Crash, files
<1>6. PopulatingInv'
  BY <1>1, ThreadParts DEF PopulatingInv, Crash, Idle, TypeOK
<1>7. PathInv'
  BY <1>1 DEF PathInv, Path, Idle, UnderLock
<1>8. DigestInv'
  BY <1>1, ThreadParts DEF DigestInv, Crash, Idle, TypeOK
<1>9. BodyInv'
  BY <1>1 DEF BodyInv, Crash, Idle, files
<1>10. QED
  BY <1>5, <1>6, <1>7, <1>8, <1>9

LEMMA StutterCInv == CInv /\ UNCHANGED vars => CInv'
BY DEF CInv, vars, files, TypeOK, PopulatingInv, PathInv, Path, DigestInv,
       BodyInv

LEMMA NextCInv == CInv /\ [Next]_vars => CInv'
<1> SUFFICES ASSUME CInv, [Next]_vars PROVE CInv'
  OBVIOUS
<1>1. ASSUME NEW t \in Threads, Progress(t) PROVE CInv'
  BY <1>1, PopulateCInv, PopulatedCInv, LookupCInv, CheckCInv,
     LockDownloadsCInv, RecheckCInv, DownloadCInv, VerifyCInv, CreateCInv,
     WriteBlockCInv, RenameCInv, ReturnCInv
  DEF Progress, WriteFails, ReadBlob
<1>2. ASSUME NEW t \in Threads, Prewarm(t) PROVE CInv'
  BY <1>2, PrewarmCInv
<1>3. ASSUME NEW t \in Threads, NEW n \in Names, Request(t, n) PROVE CInv'
  BY <1>3, RequestCInv
<1>4. ASSUME NEW p \in Processes, Crash(p) PROVE CInv'
  BY <1>4, CrashCInv
<1>5. CASE AtRest
  BY <1>5, StutterCInv DEF AtRest
<1>6. CASE UNCHANGED vars
  BY <1>6, StutterCInv
<1>7. QED
  BY <1>1, <1>2, <1>3, <1>4, <1>5, <1>6 DEF Next

\* The inductive invariant of any number of processes.
THEOREM CInvariant == Spec => []CInv
<1>1. Init => CInv
  BY InitCInv
<1>2. CInv /\ [Next]_vars => CInv'
  BY NextCInv
<1>3. QED
  BY <1>1, <1>2, PTL DEF Spec

\* The values keep their types (the declarations of catalog.rs).
THEOREM CacheTypeCorrect == Spec => []TypeOK
<1>1. CInv => TypeOK
  BY DEF CInv
<1>2. QED
  BY <1>1, CInvariant, PTL

\* Whatever processes write to a cache directory at once, and wherever they
\* crash, no byte of an unverified body gets under a cache path.
THEOREM VerifiedOnly == Spec => []OnlyVerified
<1>1. CInv => OnlyVerified
  BY DEF CInv, BodyInv, OnlyVerified, TypeOK
<1>2. QED
  BY <1>1, CInvariant, PTL

\* A process populates its catalog once, and every request in it goes on with
\* that catalog's digest.
THEOREM CatalogOnce == Spec => []OneCatalog
<1>1. CInv => OneCatalog
  <2> SUFFICES ASSUME CInv PROVE OneCatalog
    OBVIOUS
  <2>1. ASSUME NEW t \in Threads, job[t].pc = "fetch"
        PROVE  /\ catalog[t[1]] = NoCatalog
               /\ \A u \in Threads :
                    u[1] = t[1] /\ job[u].pc = "fetch" => u = t
    <3>1. populating[t[1]] = t[2]
      BY <2>1 DEF CInv, PopulatingInv
    <3>2. catalog[t[1]] = NoCatalog
      BY <3>1, ThreadParts, NoWorkerAssumption DEF CInv, PopulatingInv
    <3>3. ASSUME NEW u \in Threads, u[1] = t[1], job[u].pc = "fetch"
          PROVE  u = t
      BY <3>1, <3>3, SameThread DEF CInv, PopulatingInv
    <3>4. QED
      BY <3>2, <3>3
  <2>2. QED
    BY <2>1 DEF CInv, DigestInv, OneCatalog
<1>2. QED
  BY <1>1, CInvariant, PTL

-----------------------------------------------------------------------------
(* The locks *)

\* A thread takes a lock, gives it back, or keeps what it has.
LEMMA LocksStep ==
  ASSUME LocksExact, CInv, NEW t \in Threads,
         \A u \in Threads \ {t} : job'[u].pc = job[u].pc,
         \/ UNCHANGED lock /\ (job'[t].pc \in UnderLock) = (job[t].pc \in UnderLock)
         \/ /\ lock' = [lock EXCEPT ![t[1]] = NoWorker]
            /\ job[t].pc \in UnderLock /\ job'[t].pc \notin UnderLock
         \/ /\ lock' = [lock EXCEPT ![t[1]] = t[2]]
            /\ lock[t[1]] = NoWorker /\ job'[t].pc \in UnderLock,
         \/ UNCHANGED populating /\ (job'[t].pc = "fetch") = (job[t].pc = "fetch")
         \/ /\ populating' = [populating EXCEPT ![t[1]] = NoWorker]
            /\ job[t].pc = "fetch" /\ job'[t].pc # "fetch"
         \/ /\ populating' = [populating EXCEPT ![t[1]] = t[2]]
            /\ populating[t[1]] = NoWorker /\ job'[t].pc = "fetch"
  PROVE  LocksExact'
<1>1. /\ t[1] \in Processes /\ t[2] \in Workers
      /\ lock \in [Processes -> Workers \cup {NoWorker}]
      /\ populating \in [Processes -> Workers \cup {NoWorker}]
  BY ThreadParts DEF CInv, TypeOK
<1>2. /\ lock'[t[1]] = t[2] <=> job'[t].pc \in UnderLock
      /\ populating'[t[1]] = t[2] <=> job'[t].pc = "fetch"
  BY <1>1, NoWorkerAssumption DEF LocksExact
<1>3. ASSUME NEW u \in Threads \ {t}
      PROVE  /\ lock'[u[1]] = u[2] <=> job'[u].pc \in UnderLock
             /\ populating'[u[1]] = u[2] <=> job'[u].pc = "fetch"
  <2>1. u[1] \in Processes /\ u[2] \in Workers
    BY ThreadParts
  <2>2. CASE u[1] # t[1]
    BY <2>2, <2>1, <1>1 DEF LocksExact
  <2>3. CASE u[1] = t[1]
    <3>1. u[2] # t[2]
      BY <2>3, SameThread
    <3>2. lock'[u[1]] = u[2] <=> lock[u[1]] = u[2]
      BY <2>1, <2>3, <3>1, <1>1, NoWorkerAssumption DEF LocksExact
    <3>3. populating'[u[1]] = u[2] <=> populating[u[1]] = u[2]
      BY <2>1, <2>3, <3>1, <1>1, NoWorkerAssumption DEF LocksExact
    <3> QED
      BY <3>2, <3>3 DEF LocksExact
  <2> QED
    BY <2>2, <2>3
<1> QED
  BY <1>2, <1>3 DEF LocksExact

LEMMA NextLocks ==
  ASSUME CInv, LocksExact, [Next]_vars
  PROVE  LocksExact'
<1> USE DEF UnderLock
<1>0. /\ TypeOK
      /\ \A t \in Threads : job[t] \in Job
  BY DEF CInv, TypeOK
<1>1. CASE UNCHANGED vars \/ AtRest
  BY <1>1 DEF vars, AtRest, LocksExact
<1>2. ASSUME NEW p \in Processes, Crash(p) PROVE LocksExact'
  <2> SUFFICES ASSUME NEW t \in Threads
               PROVE  /\ lock'[t[1]] = t[2] <=> job'[t].pc \in UnderLock
                      /\ populating'[t[1]] = t[2] <=> job'[t].pc = "fetch"
    BY DEF LocksExact
  <2>1. t[1] \in Processes /\ t[2] \in Workers
    BY ThreadParts
  <2>2. CASE t[1] = p
    BY <1>2, <2>1, <2>2, NoWorkerAssumption DEF Crash, CInv, TypeOK, Idle
  <2>3. CASE t[1] # p
    BY <1>2, <2>1, <2>3 DEF Crash, CInv, TypeOK, LocksExact
  <2> QED
    BY <2>2, <2>3
<1>3. ASSUME NEW t \in Threads, NEW pc \in Pc, Goto(t, pc)
      PROVE  job'[t].pc = pc /\ \A u \in Threads \ {t} : job'[u].pc = job[u].pc
  BY <1>0, <1>3, JobGoto DEF JobStep
<1>4. ASSUME NEW t \in Threads, Return(t)
      PROVE  /\ job'[t].pc = "idle"
             /\ \A u \in Threads \ {t} : job'[u].pc = job[u].pc
  BY <1>0, <1>4, JobReturns DEF JobStep
<1>5. ASSUME NEW t \in Threads, NEW n \in Names, Request(t, n)
      PROVE  LocksExact'
  <2>1. /\ job'[t].pc = "catalog" /\ job[t].pc = "idle"
        /\ \A u \in Threads \ {t} : job'[u].pc = job[u].pc
        /\ UNCHANGED <<lock, populating>>
    BY <1>0, <1>5, JobNamed DEF JobStep, Request, Pc
  <2> QED
    BY <2>1, LocksStep
<1>6. ASSUME NEW t \in Threads, Prewarm(t) PROVE LocksExact'
  <2>1. /\ job'[t].pc = "catalog" /\ job[t].pc = "idle"
        /\ \A u \in Threads \ {t} : job'[u].pc = job[u].pc
        /\ UNCHANGED <<lock, populating>>
    BY <1>3, <1>6 DEF Prewarm, Pc
  <2> QED
    BY <2>1, LocksStep
<1>7. ASSUME NEW t \in Threads, Populate(t) \/ Populated(t) PROVE LocksExact'
  <2>1. CASE Populate(t)
    <3>1. /\ job'[t].pc = "fetch" /\ job[t].pc = "catalog"
          /\ \A u \in Threads \ {t} : job'[u].pc = job[u].pc
      BY <1>3, <2>1 DEF Populate, Pc
    <3>2. /\ UNCHANGED lock /\ populating[t[1]] = NoWorker
          /\ populating' = [populating EXCEPT ![t[1]] = t[2]]
      BY <2>1 DEF Populate
    <3>3. (job'[t].pc \in UnderLock) = (job[t].pc \in UnderLock)
      BY <3>1
    <3> QED
      BY <3>1, <3>2, <3>3, LocksStep
  <2>2. CASE Populated(t)
    <3>1. /\ job'[t].pc = "catalog" /\ job[t].pc = "fetch"
          /\ \A u \in Threads \ {t} : job'[u].pc = job[u].pc
      BY <1>3, <2>2 DEF Populated, Pc
    <3>2. /\ UNCHANGED lock
          /\ populating' = [populating EXCEPT ![t[1]] = NoWorker]
      BY <2>2 DEF Populated
    <3>3. (job'[t].pc \in UnderLock) = (job[t].pc \in UnderLock)
      BY <3>1
    <3> QED
      BY <3>1, <3>2, <3>3, LocksStep
  <2> QED
    BY <1>7, <2>1, <2>2
<1>8. ASSUME NEW t \in Threads, Lookup(t) PROVE LocksExact'
  <2>1. /\ job[t].pc = "catalog" /\ UNCHANGED <<lock, populating>>
    BY <1>8 DEF Lookup
  <2>2. CASE Return(t)
    BY <1>4, <2>1, <2>2, LocksStep
  <2>3. CASE ~Return(t)
    <3>1. PICK d : job' = [job EXCEPT ![t].pc = "check", ![t].digest = d]
      BY <1>8, <2>3 DEF Lookup
    <3>2. /\ job'[t].pc = "check"
          /\ \A u \in Threads \ {t} : job'[u].pc = job[u].pc
      BY <1>0, <3>1 DEF TypeOK, Job
    <3> QED
      BY <2>1, <3>2, LocksStep
  <2> QED
    BY <2>2, <2>3
<1>9. ASSUME NEW t \in Threads, Check(t) \/ ReadBlob(t) PROVE LocksExact'
  <2>1. /\ job[t].pc \in {"check", "read"}
        /\ job'[t].pc \in {"read", "lock", "idle"}
        /\ \A u \in Threads \ {t} : job'[u].pc = job[u].pc
        /\ UNCHANGED <<lock, populating>>
    BY <1>3, <1>4, <1>9 DEF Check, ReadBlob, Pc
  <2> QED
    BY <2>1, LocksStep
<1>10. ASSUME NEW t \in Threads, LockDownloads(t) PROVE LocksExact'
  <2>1. /\ job'[t].pc = "recheck" /\ job[t].pc = "lock"
        /\ \A u \in Threads \ {t} : job'[u].pc = job[u].pc
    BY <1>3, <1>10 DEF LockDownloads, Pc
  <2>2. /\ UNCHANGED populating /\ lock[t[1]] = NoWorker
        /\ lock' = [lock EXCEPT ![t[1]] = t[2]]
    BY <1>10 DEF LockDownloads
  <2> QED
    BY <2>1, <2>2, LocksStep
<1>11. ASSUME NEW t \in Threads, job[t].pc \in UnderLock,
              UNCHANGED populating,
              \A u \in Threads \ {t} : job'[u].pc = job[u].pc,
              \/ UNCHANGED lock /\ job'[t].pc \in UnderLock
              \/ Unlock(t) /\ job'[t].pc \in {"idle", "read"}
       PROVE  LocksExact'
  BY <1>11, LocksStep DEF Unlock
<1>12. ASSUME NEW t \in Threads, Recheck(t) \/ Verify(t) PROVE LocksExact'
  BY <1>3, <1>4, <1>11, <1>12 DEF Recheck, Verify, Pc
<1>13. ASSUME NEW t \in Threads, Download(t) PROVE LocksExact'
  <2>1. CASE Return(t) /\ Unlock(t)
    BY <1>4, <1>11, <1>13, <2>1 DEF Download
  <2>2. ASSUME NEW body \in Bytes, UNCHANGED lock,
               job' = [job EXCEPT ![t].pc = "verify", ![t].body = body]
        PROVE  LocksExact'
    <3>1. /\ job'[t].pc = "verify"
          /\ \A u \in Threads \ {t} : job'[u].pc = job[u].pc
      BY <1>0, <2>2, JobDownloaded DEF JobStep, Pc
    <3> QED
      BY <1>11, <1>13, <2>2, <3>1 DEF Download
  <2> QED
    BY <1>13, <2>1, <2>2 DEF Download
<1>14. ASSUME NEW t \in Threads, Create(t) PROVE LocksExact'
  <2>1. PICK f \in Files :
          job' = [job EXCEPT ![t].pc = "write", ![t].file = f]
    BY <1>14 DEF Create
  <2>2. /\ job'[t].pc = "write"
        /\ \A u \in Threads \ {t} : job'[u].pc = job[u].pc
    BY <1>0, <2>1, JobOpened DEF JobStep, Pc
  <2> QED
    BY <1>11, <1>14, <2>2 DEF Create
<1>15. ASSUME NEW t \in Threads, WriteBlock(t) PROVE LocksExact'
  <2>1. /\ job'[t].pc = "write"
        /\ \A u \in Threads \ {t} : job'[u].pc = job[u].pc
    BY <1>0, <1>15, JobWritten DEF JobStep, WriteBlock
  <2> QED
    BY <1>11, <1>15, <2>1 DEF WriteBlock
<1>16. ASSUME NEW t \in Threads, Rename(t) PROVE LocksExact'
  <2>1. CASE job' = [job EXCEPT ![t].pc = "read", ![t].file = NoFile]
    <3>1. /\ job'[t].pc = "read"
          /\ \A u \in Threads \ {t} : job'[u].pc = job[u].pc
      BY <1>0, <2>1, JobOpened DEF JobStep, Pc
    <3> QED
      BY <1>11, <1>16, <3>1 DEF Rename
  <2>2. CASE Return(t)
    BY <1>4, <1>11, <1>16, <2>2 DEF Rename
  <2> QED
    BY <1>16, <2>1, <2>2 DEF Rename
<1>17. ASSUME NEW t \in Threads, WriteFails(t) PROVE LocksExact'
  BY <1>4, <1>11, <1>17 DEF WriteFails
<1> QED
  BY <1>1, <1>2, <1>5, <1>6, <1>7, <1>8, <1>9, <1>10, <1>12, <1>13, <1>14,
     <1>15, <1>16, <1>17 DEF Next, Progress

\* DOWNLOAD_LOCK and the catalog's OnceLock are had by one thread of a process
\* at most, and given back on every path, errors included: whoever waits for
\* one waits for a thread that has a step to make, which is why requests
\* return.
THEOREM LocksAreGivenBack == Spec => []LocksExact
<1>1. Init => LocksExact
  BY ThreadParts, NoWorkerAssumption DEF Init, Idle, LocksExact, UnderLock
<1>2. Spec => []CInv
  BY CInvariant
<1> QED
  BY <1>1, <1>2, NextLocks, PTL DEF Spec

-----------------------------------------------------------------------------
(* WInv is inductive when there is one process *)

OneProcess == \A p, q \in Processes : p = q

\* A thread that holds DOWNLOAD_LOCK is the only one past its acquisition.
LEMMA AloneUnderLock ==
  ASSUME OneProcess, CInv, LockInv, NEW t \in Threads, lock[t[1]] = t[2],
         NEW u \in Threads, job[u].pc \in UnderLock
  PROVE  u = t
BY SameThread, ThreadParts DEF OneProcess, LockInv

LEMMA InitWInv == Init => WInv
<1> SUFFICES ASSUME Init PROVE WInv
  OBVIOUS
<1>1. \A t \in Threads : job[t] = Idle
  BY DEF Init
<1>2. FreshInv /\ LockInv /\ WriteInv /\ FetchedOnce
  BY <1>1 DEF FreshInv, LockInv, WriteInv, FetchedOnce, Idle, UnderLock
<1>3. NamesInv /\ CachedInv
  BY <1>1 DEF Init, NamesInv, CachedInv, Idle
<1>4. QED
  BY <1>2, <1>3, InitCInv DEF WInv

\* A step outside the lock that leaves the files alone.
Quiet(t) ==
    /\ UNCHANGED <<lock, cached, partial, data>>
    /\ \A u \in Threads \ {t} : job'[u] = job[u]
    /\ job'[t].pc \notin UnderLock
    /\ job'[t].pc # "read" => job'[t].written = 0
    /\ job'[t].pc = "read" => cached[Path(t)'] # NoFile

LEMMA QuietWInv ==
  ASSUME WInv, CInv', NEW t \in Threads, Quiet(t)
  PROVE  WInv'
<1> USE DEF WInv
<1>1. FreshInv'
  BY DEF FreshInv, Quiet
<1>2. LockInv'
  BY DEF LockInv, Quiet
<1>3. WriteInv'
  BY DEF WriteInv, Quiet, Path, UnderLock
<1>4. NamesInv'
  BY DEF NamesInv, Quiet
<1>5. CachedInv'
  BY DEF CachedInv, Quiet, Path
<1>6. FetchedOnce'
  BY DEF FetchedOnce, Quiet, Path, UnderLock
<1>7. QED
  BY <1>1, <1>2, <1>3, <1>4, <1>5, <1>6

LEMMA CatalogWInv ==
  ASSUME WInv, CInv', NEW t \in Threads,
         \/ \E n \in Names : Request(t, n)
         \/ Prewarm(t) \/ Populate(t) \/ Populated(t) \/ Lookup(t)
  PROVE  WInv'
<1> USE DEF WInv, CInv
<1>1. job[t].pc \in {"idle", "catalog", "fetch"} /\ job[t].written = 0
  BY DEF FreshInv, Request, Prewarm, Populate, Populated, Lookup
<1>2. UNCHANGED <<lock, cached, partial, data>>
  BY DEF Request, Prewarm, Populate, Populated, Lookup, files
<1>3. /\ job'[t].pc \in {"idle", "catalog", "fetch", "check"}
      /\ job'[t].written = 0
      /\ \A u \in Threads \ {t} : job'[u] = job[u]
  <2>1. ASSUME NEW n \in Names, Request(t, n)
        PROVE  JobStep(t, "catalog", n, job[t].digest, job[t].body,
                       job[t].file, job[t].written)
    BY <2>1, JobNamed DEF Request, Pc
  <2>2. CASE Prewarm(t) \/ Populate(t) \/ Populated(t)
    BY <1>1, <2>2 DEF Prewarm, Populate, Populated, Goto, TypeOK, Job
  <2>3. CASE Lookup(t)
    BY <1>1, <2>3 DEF Lookup, Return, Idle, TypeOK, Job
  <2>4. QED
    BY <1>1, <2>1, <2>2, <2>3 DEF JobStep
<1>4. QED
  BY <1>2, <1>3, QuietWInv DEF Quiet, UnderLock

LEMMA CheckWInv ==
  ASSUME WInv, CInv', NEW t \in Threads, Check(t)
  PROVE  WInv'
<1> USE DEF WInv, CInv
<1> DEFINE pc == IF cached[Path(t)] # NoFile THEN "read" ELSE "lock"
<1>1. JobStep(t, pc, job[t].name, job[t].digest, job[t].body, job[t].file,
              job[t].written)
  BY JobGoto DEF Check, Pc
<1>2. Path(t)' = Path(t) /\ job[t].written = 0
  BY <1>1 DEF Path, JobStep, FreshInv, Check
<1>3. Quiet(t)
  BY <1>1, <1>2 DEF Quiet, JobStep, Check, files, UnderLock
<1>4. QED
  BY <1>3, QuietWInv

LEMMA ReadBlobWInv ==
  ASSUME WInv, CInv', NEW t \in Threads, ReadBlob(t)
  PROVE  WInv'
<1> USE DEF WInv, CInv
<1>1. JobStep(t, "idle", NoName, NoDigest, "wrong", NoFile, 0)
  BY JobReturns DEF ReadBlob
<1>2. Quiet(t)
  BY <1>1 DEF Quiet, JobStep, ReadBlob, files, UnderLock
<1>3. QED
  BY <1>2, QuietWInv

LEMMA LockDownloadsWInv ==
  ASSUME OneProcess, WInv, CInv', NEW t \in Threads, LockDownloads(t)
  PROVE  WInv'
<1> USE DEF WInv, CInv
<1>1. JobStep(t, "recheck", job[t].name, job[t].digest, job[t].body,
              job[t].file, job[t].written)
  BY JobGoto DEF LockDownloads, Pc, UnderLock
<1>2. /\ UNCHANGED <<cached, partial, data>>
      /\ lock[t[1]] = NoWorker /\ lock'[t[1]] = t[2]
      /\ job[t].pc = "lock"
  BY ThreadParts DEF LockDownloads, files, TypeOK
<1>3. \A u \in Threads : job[u].pc \notin UnderLock
  BY <1>2, ThreadParts, NoWorkerAssumption DEF LockInv, OneProcess
<1>4. LockInv'
  BY <1>1, <1>2, <1>3 DEF LockInv, JobStep
<1>5. FreshInv' /\ WriteInv'
  BY <1>1, <1>2, <1>3 DEF FreshInv, WriteInv, JobStep, UnderLock
<1>6. NamesInv' /\ CachedInv'
  BY <1>1, <1>2 DEF NamesInv, CachedInv, Path, JobStep
<1>7. FetchedOnce'
  BY <1>1, <1>2, <1>3 DEF FetchedOnce, JobStep, UnderLock
<1>8. QED
  BY <1>4, <1>5, <1>6, <1>7

\* A step from under the lock that ends in a return and leaves the files.
LEMMA ReturnUnlockedWInv ==
  ASSUME OneProcess, WInv, CInv', NEW t \in Threads, Return(t), Unlock(t),
         job[t].pc \in UnderLock, UNCHANGED files
  PROVE  WInv'
<1> USE DEF WInv, CInv
<1>1. JobStep(t, "idle", NoName, NoDigest, "wrong", NoFile, 0)
  BY JobReturns
<1>2. \A u \in Threads : job'[u].pc \notin UnderLock
  BY <1>1, AloneUnderLock DEF JobStep, LockInv, UnderLock
<1>3. LockInv' /\ WriteInv' /\ FetchedOnce'
  BY <1>2 DEF LockInv, WriteInv, FetchedOnce, UnderLock
<1>4. FreshInv'
  BY <1>1 DEF FreshInv, JobStep
<1>5. NamesInv' /\ CachedInv'
  BY <1>1 DEF NamesInv, CachedInv, Path, JobStep, files
<1>6. QED
  BY <1>3, <1>4, <1>5

LEMMA RecheckWInv ==
  ASSUME OneProcess, WInv, CInv', NEW t \in Threads, Recheck(t)
  PROVE  WInv'
<1> USE DEF WInv, CInv
<1>1. UNCHANGED <<cached, partial, data>> /\ job[t].pc = "recheck"
  BY DEF Recheck, files
<1>2. \A u \in Threads \ {t} : job[u].pc \notin UnderLock
  BY <1>1, AloneUnderLock DEF LockInv, UnderLock
<1>3. CASE cached[Path(t)] # NoFile /\ Goto(t, "read") /\ Unlock(t)
  <2>1. JobStep(t, "read", job[t].name, job[t].digest, job[t].body,
                job[t].file, job[t].written)
    BY <1>3, JobGoto DEF Pc
  <2>2. LockInv' /\ WriteInv' /\ FetchedOnce'
    BY <1>2, <2>1 DEF LockInv, WriteInv, FetchedOnce, JobStep, UnderLock
  <2>3. FreshInv' /\ NamesInv'
    BY <1>1, <2>1 DEF FreshInv, NamesInv, JobStep
  <2>4. CachedInv'
    BY <1>1, <1>3, <2>1 DEF CachedInv, Path, JobStep
  <2>5. QED
    BY <2>2, <2>3, <2>4
<1>4. CASE cached[Path(t)] = NoFile /\ Goto(t, "download") /\ UNCHANGED lock
  <2>1. JobStep(t, "download", job[t].name, job[t].digest, job[t].body,
                job[t].file, job[t].written)
    BY <1>4, JobGoto DEF Pc, UnderLock
  <2>2. LockInv'
    BY <1>1, <1>4, <2>1 DEF LockInv, JobStep, UnderLock
  <2>3. FreshInv' /\ WriteInv' /\ NamesInv'
    BY <1>1, <1>2, <2>1 DEF FreshInv, WriteInv, NamesInv, JobStep, UnderLock
  <2>4. CachedInv'
    BY <1>1, <2>1 DEF CachedInv, Path, JobStep
  <2>5. FetchedOnce'
    BY <1>1, <1>2, <1>4, <2>1 DEF FetchedOnce, Path, JobStep, UnderLock
  <2>6. QED
    BY <2>2, <2>3, <2>4, <2>5
<1>5. QED
  BY <1>3, <1>4 DEF Recheck

\* t goes on under the lock towards the write, with the files as they are.
Proceeds(t, pc) ==
    /\ UNCHANGED <<lock, cached, partial, data>>
    /\ job[t].pc \in {"download", "verify"}
    /\ pc \in {"verify", "create"}
    /\ \E body \in Bytes :
         JobStep(t, pc, job[t].name, job[t].digest, body, job[t].file,
                 job[t].written)

LEMMA ProceedsWInv ==
  ASSUME WInv, CInv', NEW t \in Threads, NEW pc, Proceeds(t, pc)
  PROVE  WInv'
<1> USE DEF WInv
<1>1. /\ Path(t)' = Path(t)
      /\ job'[t].pc = pc /\ pc \in {"verify", "create"}
      /\ job'[t].written = job[t].written
      /\ \A u \in Threads \ {t} : job'[u] = job[u]
  BY DEF Proceeds, JobStep, Path
<1>2. /\ UNCHANGED <<lock, cached, partial, data>>
      /\ job[t].pc \in {"download", "verify"}
  BY DEF Proceeds
<1>3. FreshInv' /\ LockInv' /\ NamesInv'
  BY <1>1, <1>2 DEF FreshInv, LockInv, NamesInv, UnderLock
<1>4. WriteInv' /\ CachedInv'
  BY <1>1, <1>2 DEF WriteInv, CachedInv, Path
<1>5. FetchedOnce'
  BY <1>1, <1>2 DEF FetchedOnce, Path
<1>6. QED
  BY <1>3, <1>4, <1>5

LEMMA DownloadWInv ==
  ASSUME OneProcess, WInv, CInv', NEW t \in Threads, Download(t)
  PROVE  WInv'
<1> USE DEF WInv, CInv
<1>1. job[t].pc = "download" /\ UNCHANGED files
  BY DEF Download
<1>2. CASE /\ \E body \in Bytes :
                job' = [job EXCEPT ![t].pc = "verify", ![t].body = body]
           /\ UNCHANGED lock
  <2>1. PICK body \in Bytes :
              job' = [job EXCEPT ![t].pc = "verify", ![t].body = body]
    BY <1>2
  <2>2. JobStep(t, "verify", job[t].name, job[t].digest, body, job[t].file,
                job[t].written)
    BY <2>1, JobDownloaded DEF Pc, UnderLock
  <2>3. Proceeds(t, "verify")
    BY <1>1, <1>2, <2>2 DEF Proceeds, files
  <2>4. QED
    BY <2>3, ProceedsWInv
<1>3. QED
  BY <1>1, <1>2, ReturnUnlockedWInv DEF Download, UnderLock

LEMMA VerifyWInv ==
  ASSUME OneProcess, WInv, CInv', NEW t \in Threads, Verify(t)
  PROVE  WInv'
<1> USE DEF WInv, CInv
<1>1. job[t].pc = "verify" /\ UNCHANGED files /\ job[t].body \in Bytes
  BY DEF Verify, TypeOK, Job
<1>2. CASE Goto(t, "create") /\ UNCHANGED lock
  <2>1. JobStep(t, "create", job[t].name, job[t].digest, job[t].body,
                job[t].file, job[t].written)
    BY <1>2, JobGoto DEF Pc, UnderLock
  <2>2. Proceeds(t, "create")
    BY <1>1, <1>2, <2>1 DEF Proceeds, files
  <2>3. QED
    BY <2>2, ProceedsWInv
<1>3. QED
  BY <1>1, <1>2, ReturnUnlockedWInv DEF Verify, UnderLock

LEMMA CreateWInv ==
  ASSUME OneProcess, WInv, CInv', NEW t \in Threads, Create(t)
  PROVE  WInv'
<1> USE DEF WInv, CInv
<1>1. PICK f \in Files :
         /\ \/ partial[Path(t)] = NoFile /\ Unused(f)
            \/ partial[Path(t)] = f
         /\ partial' = [partial EXCEPT ![Path(t)] = f]
         /\ data' = [data EXCEPT ![f] = Empty]
         /\ job' = [job EXCEPT ![t].pc = "write", ![t].file = f]
  BY DEF Create
<1>2. JobStep(t, "write", job[t].name, job[t].digest, job[t].body, f,
              job[t].written)
  BY <1>1, JobOpened DEF Pc, UnderLock
<1>3. UNCHANGED <<lock, cached>> /\ job[t].pc = "create"
  BY DEF Create
<1>4. \A u \in Threads \ {t} : job[u].pc \notin UnderLock
  BY <1>3, AloneUnderLock DEF LockInv, UnderLock
<1>5. Path(t)' = Path(t) /\ Path(t) \in Paths
  BY <1>2, <1>3 DEF Path, JobStep, PathInv, UnderLock
<1>6. f # NoFile /\ \A x \in Paths : cached[x] # f
  BY <1>1, <1>5, NoFileAssumption DEF NamesInv, Unused
<1>7. \A x \in Paths \ {Path(t)} : partial[x] # f
  BY <1>1, <1>5, <1>6 DEF NamesInv, Unused
<1>8. \A x \in Paths : partial'[x] = IF x = Path(t) THEN f ELSE partial[x]
  BY <1>1, <1>5 DEF TypeOK
<1>9. LockInv'
  BY <1>2, <1>3 DEF LockInv, JobStep, UnderLock
<1>10. FreshInv'
  BY <1>2, <1>3 DEF FreshInv, JobStep
<1>11. WriteInv'
  <2>1. job[t].written = 0
    BY <1>3 DEF FreshInv
  <2>2. \A u \in Threads : job'[u].pc = "write" => u = t
    BY <1>2, <1>4 DEF JobStep, UnderLock
  <2>3. partial'[Path(t)'] = f
    BY <1>5, <1>8
  <2>4. \A b \in Blocks : ~(b <= 0)
    BY NBlocksAssumption DEF Blocks
  <2>5. QED
    BY <1>2, <2>1, <2>2, <2>3, <2>4 DEF WriteInv, JobStep
<1>12. NamesInv'
  <2>1. \A y \in Paths : cached'[y] = cached[y]
    BY <1>3
  <2>2. SUFFICES ASSUME NEW x \in Paths, NEW y \in Paths, partial'[x] # NoFile
                 PROVE  /\ partial'[x] = partial'[y] => x = y
                        /\ cached'[y] # partial'[x]
    BY DEF NamesInv
  <2>3. CASE x = Path(t)
    BY <1>6, <1>7, <1>8, <2>1, <2>3
  <2>4. CASE x # Path(t)
    BY <1>7, <1>8, <2>1, <2>2, <2>4 DEF NamesInv
  <2>5. QED
    BY <2>3, <2>4
<1>13. CachedInv'
  <2>1. \A x \in Paths : cached[x] # NoFile => data'[cached[x]] = data[cached[x]]
    BY <1>1, <1>6 DEF TypeOK
  <2>2. QED
    BY <1>2, <1>3, <2>1 DEF CachedInv, Path, JobStep
<1>14. FetchedOnce'
  BY <1>2, <1>3, <1>4, <1>5 DEF FetchedOnce, JobStep, UnderLock
<1>15. QED
  BY <1>9, <1>10, <1>11, <1>12, <1>13, <1>14

LEMMA WriteBlockWInv ==
  ASSUME OneProcess, WInv, CInv', NEW t \in Threads, WriteBlock(t)
  PROVE  WInv'
<1> USE DEF WInv, CInv
<1>1. JobStep(t, job[t].pc, job[t].name, job[t].digest, job[t].body,
              job[t].file, job[t].written + 1)
  BY JobWritten DEF WriteBlock
<1>2. UNCHANGED <<lock, cached, partial>> /\ job[t].pc = "write"
  BY DEF WriteBlock
<1>3. \A u \in Threads \ {t} : job[u].pc \notin UnderLock
  BY <1>2, AloneUnderLock DEF LockInv, UnderLock
<1>4. /\ job[t].file \in Files
      /\ partial[Path(t)] = job[t].file
      /\ Path(t) \in Paths
  BY <1>2 DEF WriteInv, PathInv, UnderLock
<1>5. LockInv'
  BY <1>1, <1>2 DEF LockInv, JobStep
<1>6. FreshInv'
  BY <1>1, <1>2 DEF FreshInv, JobStep
<1>7. WriteInv'
  <2>1. \A u \in Threads : job'[u].pc = "write" => u = t
    BY <1>1, <1>3 DEF JobStep, UnderLock
  <2>2. Path(t)' = Path(t) /\ job'[t].file = job[t].file
    BY <1>1 DEF Path, JobStep
  <2>3. ASSUME NEW b \in Blocks, b <= job'[t].written
        PROVE  data'[job[t].file][b] = "right"
    <3>1. job[t].written \in Nat /\ job'[t].written = job[t].written + 1
      BY <1>1, NBlocksAssumption DEF TypeOK, Job, JobStep
    <3>2. b = job[t].written + 1 \/ b <= job[t].written
      BY <2>3, <3>1, NBlocksAssumption DEF Blocks
    <3>3. QED
      BY <1>2, <1>4, <3>2, WriteBlockData DEF WriteInv
  <2>4. QED
    BY <1>2, <1>4, <2>1, <2>2, <2>3 DEF WriteInv
<1>8. NamesInv'
  BY <1>2 DEF NamesInv
<1>9. CachedInv'
  <2>1. ASSUME NEW x \in Paths, cached[x] # NoFile
        PROVE  data'[cached[x]] = Whole
    <3>1. cached[x] \in Files /\ cached[x] # job[t].file
      BY <1>4, <2>1, NoFileAssumption DEF NamesInv, TypeOK
    <3>2. \A b \in Blocks : data'[cached[x]][b] = data[cached[x]][b]
      BY <3>1, WriteBlockData
    <3>3. data[cached[x]] = Whole
      BY <2>1 DEF CachedInv
    <3>4. data'[cached[x]] \in [Blocks -> Bytes \cup {"hole"}]
      BY <3>1, WriteBlockData
    <3>5. QED
      BY <3>2, <3>3, <3>4 DEF Whole
  <2>2. QED
    BY <1>1, <1>2, <2>1 DEF CachedInv, Path, JobStep
<1>10. FetchedOnce'
  BY <1>1, <1>2 DEF FetchedOnce, Path, JobStep
<1>11. QED
  BY <1>5, <1>6, <1>7, <1>8, <1>9, <1>10

LEMMA RenameWInv ==
  ASSUME OneProcess, WInv, CInv', NEW t \in Threads, Rename(t)
  PROVE  WInv'
<1> USE DEF WInv, CInv
<1> DEFINE f == job[t].file
<1>1. /\ job[t].pc = "write" /\ job[t].written = NBlocks
      /\ UNCHANGED data
  BY DEF Rename
<1>2. /\ f \in Files
      /\ partial[Path(t)] = f
      /\ Path(t) \in Paths
      /\ f # NoFile
  BY <1>1, NoFileAssumption DEF WriteInv, PathInv, UnderLock
<1>3. /\ cached' = [cached EXCEPT ![Path(t)] = f]
      /\ partial' = [partial EXCEPT ![Path(t)] = NoFile]
      /\ job' = [job EXCEPT ![t].pc = "read", ![t].file = NoFile]
  BY <1>2 DEF Rename
<1>4. JobStep(t, "read", job[t].name, job[t].digest, job[t].body, NoFile,
              job[t].written)
  BY <1>3, JobOpened DEF Pc
<1>5. Path(t)' = Path(t)
  BY <1>4 DEF Path, JobStep
<1>6. \A x \in Paths :
        /\ cached'[x] = IF x = Path(t) THEN f ELSE cached[x]
        /\ partial'[x] = IF x = Path(t) THEN NoFile ELSE partial[x]
  BY <1>2, <1>3 DEF TypeOK
<1>7. \A u \in Threads : job'[u].pc \notin UnderLock
  BY <1>1, <1>4, AloneUnderLock DEF LockInv, JobStep, UnderLock
<1>8. LockInv' /\ WriteInv' /\ FetchedOnce'
  BY <1>7 DEF LockInv, WriteInv, FetchedOnce, UnderLock
<1>9. FreshInv'
  BY <1>4 DEF FreshInv, JobStep
<1>10. NamesInv'
  <2>1. SUFFICES ASSUME NEW x \in Paths, NEW y \in Paths, partial'[x] # NoFile
                 PROVE  /\ partial'[x] = partial'[y] => x = y
                        /\ cached'[y] # partial'[x]
    BY DEF NamesInv
  <2>2. x # Path(t) /\ partial'[x] = partial[x] /\ partial[x] # f
    BY <1>2, <1>6, <2>1 DEF NamesInv
  <2>3. QED
    BY <1>6, <2>1, <2>2 DEF NamesInv
<1>11. CachedInv'
  <2>1. data[f] = Whole
    <3>1. \A b \in Blocks : data[f][b] = "right"
      BY <1>1, <1>2, NBlocksAssumption DEF WriteInv, Blocks
    <3>2. QED
      BY <1>2, <3>1 DEF TypeOK, Whole
  <2>2. \A x \in Paths : cached'[x] # NoFile => data'[cached'[x]] = Whole
    BY <1>1, <1>6, <2>1 DEF CachedInv
  <2>3. ASSUME NEW u \in Threads, job'[u].pc = "read"
        PROVE  cached'[Path(u)'] # NoFile
    <3>1. CASE u = t
      BY <1>2, <1>5, <1>6, <3>1
    <3>2. CASE u # t
      <4>1. job'[u] = job[u] /\ Path(u)' = Path(u)
        BY <1>4, <3>2 DEF JobStep, Path
      <4>2. Path(u) \in Paths /\ cached[Path(u)] # NoFile
        BY <2>3, <4>1 DEF CachedInv, PathInv
      <4>3. QED
        BY <1>2, <1>6, <4>1, <4>2
    <3>3. QED
      BY <3>1, <3>2
  <2>4. QED
    BY <2>2, <2>3 DEF CachedInv
<1>12. QED
  BY <1>8, <1>9, <1>10, <1>11

LEMMA CrashWInv ==
  ASSUME OneProcess, WInv, CInv', NEW p \in Processes, Crash(p)
  PROVE  WInv'
<1> USE DEF WInv, CInv
<1>1. \A t \in Threads : job'[t] = Idle
  BY ThreadParts DEF Crash, OneProcess
<1>2. FreshInv' /\ LockInv' /\ WriteInv' /\ FetchedOnce'
  BY <1>1 DEF FreshInv, LockInv, WriteInv, FetchedOnce, Idle, UnderLock
<1>3. NamesInv' /\ CachedInv'
  BY <1>1 DEF NamesInv, CachedInv, Idle, Crash, files
<1>4. QED
  BY <1>2, <1>3

LEMMA StutterWInv == WInv /\ CInv' /\ UNCHANGED vars => WInv'
BY DEF WInv, vars, files, FreshInv, LockInv, WriteInv, NamesInv, CachedInv,
       FetchedOnce, Path

LEMMA NextWInv == OneProcess /\ WInv /\ [Next]_vars => WInv'
<1> SUFFICES ASSUME OneProcess, WInv, [Next]_vars PROVE WInv'
  OBVIOUS
<1>1. CInv'
  BY NextCInv DEF WInv
<1>2. ASSUME NEW t \in Threads, Progress(t) PROVE WInv'
  <2>1. CASE Populate(t) \/ Populated(t) \/ Lookup(t)
    BY <1>1, <2>1, CatalogWInv
  <2>2. CASE Check(t) \/ LockDownloads(t) \/ Recheck(t) \/ Download(t)
    BY <1>1, <2>2, CheckWInv, LockDownloadsWInv, RecheckWInv, DownloadWInv
  <2>3. CASE Verify(t) \/ Create(t) \/ WriteBlock(t) \/ Rename(t) \/ ReadBlob(t)
    BY <1>1, <2>3, VerifyWInv, CreateWInv, WriteBlockWInv, RenameWInv,
       ReadBlobWInv
  <2>4. CASE WriteFails(t)
    BY <1>1, <2>4, ReturnUnlockedWInv DEF WriteFails, UnderLock
  <2>5. QED
    BY <1>2, <2>1, <2>2, <2>3, <2>4 DEF Progress
<1>3. ASSUME NEW t \in Threads,
             Prewarm(t) \/ \E n \in Names : Request(t, n)
      PROVE  WInv'
  BY <1>1, <1>3, CatalogWInv
<1>4. ASSUME NEW p \in Processes, Crash(p) PROVE WInv'
  BY <1>1, <1>4, CrashWInv
<1>5. CASE AtRest \/ UNCHANGED vars
  BY <1>1, <1>5, StutterWInv DEF AtRest
<1>6. QED
  BY <1>2, <1>3, <1>4, <1>5 DEF Next

LEMMA WInvariance == ASSUME OneProcess PROVE Spec => []WInv
<1>1. Init => WInv
  BY InitWInv
<1>2. WInv /\ [Next]_vars => WInv'
  BY NextWInv
<1> QED
  BY <1>1, <1>2, PTL DEF Spec

\* With one process on the cache directory, whatever its threads do and
\* however often it crashes between two steps of a write, a cached path always
\* leads to the whole blob.
THEOREM CacheSafe == ASSUME OneProcess PROVE Spec => []ReadersSeeWhole
<1>1. WInv => ReadersSeeWhole
  <2> SUFFICES ASSUME WInv PROVE ReadersSeeWhole
    OBVIOUS
  <2>1. ASSUME NEW t \in Threads, job[t].pc = "read"
        PROVE  cached[Path(t)] \in Files /\ data[cached[Path(t)]] = Whole
    <3>1. Path(t) \in Paths /\ cached[Path(t)] # NoFile
      BY <2>1 DEF WInv, CInv, CachedInv, PathInv
    <3>2. QED
      BY <3>1 DEF WInv, CInv, CachedInv, TypeOK
  <2>2. QED
    BY <2>1 DEF ReadersSeeWhole
<1> QED
  BY <1>1, WInvariance, PTL

\* The threads of one process that want the same blob download it once: the
\* second check, under DOWNLOAD_LOCK, finds what another of them renamed.
THEOREM BlobsFetchedOnce == ASSUME OneProcess PROVE Spec => []FetchedOnce
<1>1. WInv => FetchedOnce
  BY DEF WInv
<1> QED
  BY <1>1, WInvariance, PTL

-----------------------------------------------------------------------------
(* With one process, the cache implements BlobStore *)

\* What a step of one thread can change of the store's view.
LEMMA OneCaller ==
  ASSUME NEW t \in Threads, \A u \in Threads \ {t} : job'[u] = job[u]
  PROVE  /\ [u \in Threads |-> Wanted(u)]'
              = [[u \in Threads |-> Wanted(u)] EXCEPT ![t] = Wanted(t)']
         /\ {u \in Threads : Fetching(u)}'
              = {u \in Threads : u # t /\ Fetching(u)}
                  \cup {u \in {t} : Fetching(u)'}
         /\ {u \in Threads : Holding(u)}'
              = {u \in Threads : u # t /\ Holding(u)}
                  \cup {u \in {t} : Holding(u)'}
<1>1. \A u \in Threads \ {t} :
        /\ Wanted(u)' = Wanted(u)
        /\ Fetching(u)' = Fetching(u)
        /\ Holding(u)' = Holding(u)
  BY DEF Wanted, Path, Fetching, Holding
<1>2. [u \in Threads |-> Wanted(u)]'
        = [[u \in Threads |-> Wanted(u)] EXCEPT ![t] = Wanted(t)']
  BY <1>1
<1>3. {u \in Threads : Fetching(u)}'
        = {u \in Threads : u # t /\ Fetching(u)}
            \cup {u \in {t} : Fetching(u)'}
  BY <1>1
<1>4. {u \in Threads : Holding(u)}'
        = {u \in Threads : u # t /\ Holding(u)}
            \cup {u \in {t} : Holding(u)'}
  BY <1>1
<1>5. QED
  BY <1>2, <1>3, <1>4

LEMMA StoreKept ==
  ASSUME UNCHANGED <<cached, data>>
  PROVE  UNCHANGED WholeBlobs
BY DEF WholeBlobs, Whole

\* Steps the store cannot see.
LEMMA StoreStutters ==
  ASSUME UNCHANGED WholeBlobs,
         \A u \in Threads :
           /\ Wanted(u)' = Wanted(u)
           /\ Fetching(u)' = Fetching(u)
           /\ Holding(u)' = Holding(u)
  PROVE  UNCHANGED Store!vars
<1>1. UNCHANGED [t \in Threads |-> Wanted(t)]
  OBVIOUS
<1>2. UNCHANGED {t \in Threads : Fetching(t)}
  OBVIOUS
<1>3. UNCHANGED {t \in Threads : Holding(t)}
  OBVIOUS
<1>4. QED
  BY <1>1, <1>2, <1>3 DEF Store!vars

LEMMA QuietStore ==
  ASSUME NEW t \in Threads, UNCHANGED WholeBlobs,
         \A u \in Threads \ {t} : job'[u] = job[u],
         Wanted(t)' = Wanted(t),
         Fetching(t)' = Fetching(t),
         Holding(t)' = Holding(t)
  PROVE  UNCHANGED Store!vars
<1>1. \A u \in Threads :
        /\ Wanted(u)' = Wanted(u)
        /\ Fetching(u)' = Fetching(u)
        /\ Holding(u)' = Holding(u)
  BY DEF Wanted, Path, Fetching, Holding
<1>2. QED
  BY <1>1, StoreStutters

\* A return: the caller leaves the store.
LEMMA ReturnLeaves ==
  ASSUME TypeOK, NEW t \in Threads, Return(t), UNCHANGED <<cached, data>>
  PROVE  Store!Leave({t})
<1>1. /\ job'[t] = Idle
      /\ \A u \in Threads \ {t} : job'[u] = job[u]
  BY DEF Return, TypeOK
<1>2. Wanted(t)' = NoPath /\ ~Fetching(t)' /\ ~Holding(t)'
  BY <1>1 DEF Wanted, Fetching, Holding, Idle
<1>3. UNCHANGED WholeBlobs
  BY StoreKept
<1>4. [u \in Threads |-> Wanted(u)]'
        = [u \in Threads |-> IF u \in {t} THEN NoPath
                             ELSE [v \in Threads |-> Wanted(v)][u]]
  BY <1>1, <1>2, OneCaller
<1>5. {u \in Threads : Fetching(u)}' = {u \in Threads : Fetching(u)} \ {t}
  BY <1>1, <1>2, OneCaller
<1>6. {u \in Threads : Holding(u)}' = {u \in Threads : Holding(u)} \ {t}
  BY <1>1, <1>2, OneCaller, ZenonT(30)
<1>7. QED
  BY <1>3, <1>4, <1>5, <1>6 DEF Store!Leave

\* A caller that finds its blob, at the first or the second look.
LEMMA FoundHits ==
  ASSUME WInv, NEW t \in Threads, UNCHANGED <<cached, data>>,
         job[t].pc \in {"check", "recheck"}, cached[Path(t)] # NoFile,
         Goto(t, "read")
  PROVE  Store!Hit(t)
<1>1. JobStep(t, "read", job[t].name, job[t].digest, job[t].body, job[t].file,
              job[t].written)
  BY JobGoto DEF WInv, CInv, Pc
<1>2. Path(t) \in Paths
  BY DEF WInv, CInv, PathInv, UnderLock
<1>3. Wanted(t) = Path(t)
  BY <1>2, NoDigestAssumption, PathParts DEF Wanted, Path, Paths
<1>4. Path(t) \in WholeBlobs
  BY <1>2 DEF WholeBlobs, WInv, CachedInv
<1>5. UNCHANGED WholeBlobs
  BY StoreKept
<1>6. Wanted(t)' = Wanted(t) /\ ~Fetching(t) /\ ~Fetching(t)' /\ Holding(t)'
  BY <1>1 DEF JobStep, Wanted, Path, Fetching, Holding
<1>7. UNCHANGED [u \in Threads |-> Wanted(u)]
  BY <1>1, <1>6, OneCaller DEF JobStep
<1>8. {u \in Threads : Fetching(u)}' = {u \in Threads : Fetching(u)}
  BY <1>1, <1>6, OneCaller DEF JobStep
<1>9. {u \in Threads : Holding(u)}' = {u \in Threads : Holding(u)} \cup {t}
  BY <1>1, <1>6, OneCaller DEF JobStep
<1>10. QED
  BY <1>3, <1>4, <1>5, <1>6, <1>7, <1>8, <1>9 DEF Store!Hit

\* A file no cache path names: what is written to it does not show.
LEMMA HiddenFile ==
  ASSUME TypeOK, NEW f \in Files, NEW content, UNCHANGED cached,
         \A x \in Paths : cached[x] # f,
         data' = [data EXCEPT ![f] = content]
  PROVE  UNCHANGED WholeBlobs
<1>1. \A x \in Paths : cached[x] # NoFile => data'[cached[x]] = data[cached[x]]
  BY DEF TypeOK
<1>2. QED
  BY <1>1 DEF WholeBlobs, Whole

LEMMA CatalogStores ==
  ASSUME WInv, NEW t \in Threads,
         \/ \E n \in Names : Request(t, n)
         \/ Prewarm(t) \/ Populate(t) \/ Populated(t)
  PROVE  UNCHANGED Store!vars
<1> USE DEF WInv, CInv
<1>1. /\ job[t].pc \in {"idle", "catalog", "fetch"}
      /\ UNCHANGED <<cached, data>>
  BY DEF Request, Prewarm, Populate, Populated, files
<1>2. /\ job'[t].pc \in {"catalog", "fetch"}
      /\ job'[t].digest = job[t].digest
      /\ \A u \in Threads \ {t} : job'[u] = job[u]
  BY DEF Request, Prewarm, Populate, Populated, Goto, TypeOK, Job
<1>3. job[t].digest = NoDigest
  BY <1>1 DEF DigestInv
<1>4. /\ Wanted(t)' = Wanted(t)
      /\ ~Fetching(t) /\ ~Fetching(t)'
      /\ ~Holding(t) /\ ~Holding(t)'
  BY <1>1, <1>2, <1>3 DEF Wanted, Fetching, Holding
<1>5. QED
  BY <1>1, <1>2, <1>4, StoreKept, QuietStore DEF Fetching, Holding

\* A name that resolves is asked of the store.
LEMMA LookupStores ==
  ASSUME WInv, NEW t \in Threads, Lookup(t)
  PROVE  Store!Leave({t}) \/ \E x \in Paths : Store!Ask(t, x)
<1> USE DEF WInv, CInv
<1>1. UNCHANGED <<cached, data>>
  BY DEF Lookup, files
<1>2. CASE Return(t)
  BY <1>1, <1>2, ReturnLeaves
<1>3. CASE ~Return(t)
  <2> DEFINE d == catalog[t[1]][job[t].name]
             x == <<d, job[t].name>>
  <2>1. /\ job[t].pc = "catalog" /\ catalog[t[1]] # NoCatalog
        /\ job[t].name # NoName /\ d # NoDigest
        /\ job' = [job EXCEPT ![t].pc = "check", ![t].digest = d]
    BY <1>3 DEF Lookup
  <2>2. job[t].name \in Names /\ d \in Digests /\ x \in Paths
    BY <2>1, ThreadParts DEF TypeOK, Job, Catalogs, Paths
  <2>3. JobStep(t, "check", job[t].name, d, job[t].body, job[t].file,
                job[t].written)
    BY <2>1, <2>2, JobLookedUp DEF Pc
  <2>4. job[t].digest = NoDigest
    BY <2>1 DEF DigestInv
  <2>5. /\ Wanted(t) = NoPath /\ Wanted(t)' = x
        /\ ~Fetching(t) /\ ~Fetching(t)'
        /\ ~Holding(t) /\ ~Holding(t)'
    BY <2>1, <2>2, <2>3, <2>4 DEF JobStep, Wanted, Path, Fetching, Holding
  <2>6. [u \in Threads |-> Wanted(u)]'
          = [[u \in Threads |-> Wanted(u)] EXCEPT ![t] = x]
    BY <2>3, <2>5, OneCaller DEF JobStep
  <2>7. UNCHANGED {u \in Threads : Fetching(u)}
    BY <2>3, <2>5, OneCaller DEF JobStep
  <2>8. UNCHANGED {u \in Threads : Holding(u)}
    BY <2>3, <2>5, OneCaller DEF JobStep
  <2>9. Store!Ask(t, x)
    BY <1>1, <2>5, <2>6, <2>7, <2>8, StoreKept DEF Store!Ask
  <2>10. QED
    BY <2>2, <2>9
<1>4. QED
  BY <1>2, <1>3

LEMMA CheckStores ==
  ASSUME WInv, NEW t \in Threads, Check(t)
  PROVE  Store!Hit(t) \/ UNCHANGED Store!vars
<1> USE DEF WInv, CInv
<1>1. job[t].pc = "check" /\ UNCHANGED <<cached, data>>
  BY DEF Check, files
<1>2. CASE cached[Path(t)] # NoFile
  BY <1>1, <1>2, FoundHits DEF Check
<1>3. CASE cached[Path(t)] = NoFile
  <2>1. JobStep(t, "lock", job[t].name, job[t].digest, job[t].body,
                job[t].file, job[t].written)
    BY <1>3, JobGoto DEF Check, Pc
  <2>2. /\ Wanted(t)' = Wanted(t)
        /\ Fetching(t)' = Fetching(t)
        /\ Holding(t)' = Holding(t)
    BY <1>1, <2>1 DEF JobStep, Wanted, Path, Fetching, Holding
  <2>3. QED
    BY <1>1, <2>1, <2>2, StoreKept, QuietStore DEF JobStep
<1>4. QED
  BY <1>2, <1>3

LEMMA LockStores ==
  ASSUME WInv, NEW t \in Threads, LockDownloads(t)
  PROVE  UNCHANGED Store!vars
<1> USE DEF WInv, CInv
<1>1. JobStep(t, "recheck", job[t].name, job[t].digest, job[t].body,
              job[t].file, job[t].written)
  BY JobGoto DEF LockDownloads, Pc, UnderLock
<1>2. job[t].pc = "lock" /\ UNCHANGED <<cached, data>>
  BY DEF LockDownloads, files
<1>3. /\ Wanted(t)' = Wanted(t)
      /\ Fetching(t)' = Fetching(t)
      /\ Holding(t)' = Holding(t)
  BY <1>1, <1>2 DEF JobStep, Wanted, Path, Fetching, Holding
<1>4. QED
  BY <1>1, <1>2, <1>3, StoreKept, QuietStore DEF JobStep

\* The second look: nobody else fetches, since the lock is held.
LEMMA RecheckStores ==
  ASSUME OneProcess, WInv, NEW t \in Threads, Recheck(t)
  PROVE  Store!Hit(t) \/ Store!StartFetch(t)
<1> USE DEF WInv, CInv
<1>1. /\ job[t].pc = "recheck"
      /\ UNCHANGED <<cached, data>>
      /\ Path(t) \in Paths
      /\ lock[t[1]] = t[2]
  BY DEF Recheck, files, PathInv, LockInv, UnderLock
<1>2. CASE cached[Path(t)] # NoFile
  BY <1>1, <1>2, FoundHits DEF Recheck
<1>3. CASE cached[Path(t)] = NoFile
  <2>1. JobStep(t, "download", job[t].name, job[t].digest, job[t].body,
                job[t].file, job[t].written)
    BY <1>3, JobGoto DEF Recheck, Pc, UnderLock
  <2>2. \A u \in Threads : ~Fetching(u)
    BY <1>1, AloneUnderLock DEF Fetching, UnderLock
  <2>3. Wanted(t) \in Paths \ WholeBlobs
    BY <1>1, <1>3, PathParts, NoDigestAssumption DEF Wanted, WholeBlobs
  <2>4. /\ Wanted(t)' = Wanted(t)
        /\ Fetching(t)' /\ ~Holding(t) /\ ~Holding(t)'
    BY <1>1, <2>1 DEF JobStep, Wanted, Path, Fetching, Holding
  <2>5. UNCHANGED [u \in Threads |-> Wanted(u)]
    BY <2>1, <2>4, OneCaller DEF JobStep
  <2>6. {u \in Threads : Fetching(u)}' = {t}
    BY <2>1, <2>2, <2>4, OneCaller DEF JobStep
  <2>7. UNCHANGED {u \in Threads : Holding(u)}
    BY <2>1, <2>4, OneCaller, ZenonT(30) DEF JobStep
  <2>8. Store!StartFetch(t)
    BY <1>1, <2>2, <2>3, <2>4, <2>5, <2>6, <2>7, StoreKept
       DEF Store!StartFetch
  <2>9. QED
    BY <2>8
<1>4. QED
  BY <1>2, <1>3

\* Between the two looks and the rename, a fetch shows only when it gives up.
LEMMA FetchStores ==
  ASSUME WInv, NEW t \in Threads,
         Download(t) \/ Verify(t) \/ WriteFails(t) \/ ReadBlob(t)
  PROVE  Store!Leave({t}) \/ UNCHANGED Store!vars
<1> USE DEF WInv, CInv
<1>1. UNCHANGED <<cached, data>>
  BY DEF Download, Verify, WriteFails, ReadBlob, files
<1>2. CASE Return(t)
  BY <1>1, <1>2, ReturnLeaves
<1>3. CASE ~Return(t)
  <2>1. /\ job[t].pc \in {"download", "verify"}
        /\ job'[t].pc \in {"verify", "create"}
        /\ job'[t].digest = job[t].digest /\ job'[t].name = job[t].name
        /\ \A u \in Threads \ {t} : job'[u] = job[u]
    BY <1>3 DEF Download, Verify, WriteFails, ReadBlob, Goto, TypeOK, Job
  <2>2. /\ Wanted(t)' = Wanted(t)
        /\ Fetching(t)' = Fetching(t)
        /\ Holding(t)' = Holding(t)
    BY <2>1 DEF Wanted, Path, Fetching, Holding
  <2>3. QED
    BY <1>1, <2>1, <2>2, StoreKept, QuietStore
<1>4. QED
  BY <1>2, <1>3

\* The partial file is no cached one.
LEMMA WritingStores ==
  ASSUME WInv, NEW t \in Threads, Create(t) \/ WriteBlock(t)
  PROVE  UNCHANGED Store!vars
<1> USE DEF WInv, CInv
<1>1. /\ job[t].pc \in {"create", "write"}
      /\ job'[t].pc = "write"
      /\ job'[t].digest = job[t].digest /\ job'[t].name = job[t].name
      /\ \A u \in Threads \ {t} : job'[u] = job[u]
  BY DEF Create, WriteBlock, TypeOK, Job
<1>2. Path(t) \in Paths
  BY <1>1 DEF PathInv, UnderLock
<1>3. UNCHANGED WholeBlobs
  <2>1. CASE Create(t)
    <3>1. PICK f \in Files :
            /\ \/ partial[Path(t)] = NoFile /\ Unused(f)
               \/ partial[Path(t)] = f
            /\ data' = [data EXCEPT ![f] = Empty]
      BY <2>1 DEF Create
    <3>2. \A x \in Paths : cached[x] # f
      BY <1>2, <3>1, NoFileAssumption DEF Unused, NamesInv
    <3>3. QED
      BY <2>1, <3>1, <3>2, HiddenFile DEF Create
  <2>2. CASE WriteBlock(t)
    <3> DEFINE f == job[t].file
               content == [data[f] EXCEPT ![job[t].written + 1] = job[t].body]
    <3>1. f \in Files /\ partial[Path(t)] = f
      BY <2>2 DEF WriteInv, WriteBlock
    <3>2. \A x \in Paths : cached[x] # f
      BY <1>2, <3>1, NoFileAssumption DEF NamesInv
    <3>3. data' = [data EXCEPT ![f] = content] /\ UNCHANGED cached
      BY <2>2, <3>1 DEF WriteBlock, TypeOK
    <3> HIDE DEF content
    <3>4. QED
      BY <3>1, <3>2, <3>3, HiddenFile
  <2>3. QED
    BY <2>1, <2>2
<1>4. /\ Wanted(t)' = Wanted(t)
      /\ Fetching(t)' = Fetching(t)
      /\ Holding(t)' = Holding(t)
  BY <1>1 DEF Wanted, Path, Fetching, Holding
<1>5. QED
  BY <1>1, <1>3, <1>4, QuietStore

\* The rename stores the blob, whole, and it was not there before.
LEMMA RenameStores ==
  ASSUME OneProcess, WInv, WInv', NEW t \in Threads, Rename(t)
  PROVE  Store!Fetched(t)
<1> USE DEF WInv, CInv
<1> DEFINE f == job[t].file
<1>1. job[t].pc = "write" /\ job[t].written = NBlocks /\ UNCHANGED data
  BY DEF Rename
<1>2. /\ f \in Files /\ partial[Path(t)] = f /\ f # NoFile
      /\ Path(t) \in Paths
      /\ cached[Path(t)] = NoFile
  BY <1>1, NoFileAssumption DEF WriteInv, PathInv, UnderLock, FetchedOnce
<1>3. /\ cached' = [cached EXCEPT ![Path(t)] = f]
      /\ job' = [job EXCEPT ![t].pc = "read", ![t].file = NoFile]
  BY <1>2 DEF Rename
<1>4. JobStep(t, "read", job[t].name, job[t].digest, job[t].body, NoFile,
              job[t].written)
  BY <1>3, JobOpened DEF Pc
<1>5. /\ Wanted(t) = Path(t) /\ Wanted(t)' = Path(t)
      /\ Fetching(t) /\ ~Fetching(t)' /\ Holding(t)'
  BY <1>1, <1>2, <1>4, PathParts, NoDigestAssumption
     DEF JobStep, Wanted, Path, Fetching, Holding
<1>6. Path(t) \notin WholeBlobs
  BY <1>2 DEF WholeBlobs
<1>7. WholeBlobs' = WholeBlobs \cup {Path(t)}
  <2>1. \A x \in Paths : cached'[x] = IF x = Path(t) THEN f ELSE cached[x]
    BY <1>2, <1>3 DEF TypeOK
  <2>2. data'[f] = Whole /\ Whole' = Whole
    BY <1>2, <2>1 DEF CachedInv, Whole
  <2>3. \A x \in Paths : x \in WholeBlobs' <=> x \in WholeBlobs \/ x = Path(t)
    BY <1>1, <1>2, <2>1, <2>2 DEF WholeBlobs
  <2>4. WholeBlobs \subseteq Paths /\ WholeBlobs' \subseteq Paths
    BY DEF WholeBlobs
  <2>5. QED
    BY <1>2, <2>3, <2>4
<1>8. UNCHANGED [u \in Threads |-> Wanted(u)]
  BY <1>4, <1>5, OneCaller DEF JobStep
<1>9. {u \in Threads : Fetching(u)}' = {u \in Threads : Fetching(u)} \ {t}
  BY <1>4, <1>5, OneCaller DEF JobStep
<1>10. {u \in Threads : Holding(u)}' = {u \in Threads : Holding(u)} \cup {t}
  BY <1>4, <1>5, OneCaller DEF JobStep
<1>11. QED
  BY <1>2, <1>5, <1>6, <1>7, <1>8, <1>9, <1>10 DEF Store!Fetched

\* A crash: all callers of the process leave, and the store keeps its blobs.
LEMMA CrashStores ==
  ASSUME WInv, NEW p \in Processes, Crash(p)
  PROVE  Store!Leave({t \in Threads : t[1] = p})
<1> DEFINE gone == {t \in Threads : t[1] = p}
<1>1. \A u \in Threads : job'[u] = IF u[1] = p THEN Idle ELSE job[u]
  BY DEF Crash
<1>2. \A u \in Threads :
        /\ Wanted(u)' = IF u \in gone THEN NoPath ELSE Wanted(u)
        /\ Fetching(u)' = (u \notin gone /\ Fetching(u))
        /\ Holding(u)' = (u \notin gone /\ Holding(u))
  BY <1>1 DEF Wanted, Path, Fetching, Holding, Idle
<1>3. UNCHANGED WholeBlobs
  BY StoreKept DEF Crash, files
<1> HIDE DEF gone
<1>4. [u \in Threads |-> Wanted(u)]'
        = [u \in Threads |-> IF u \in gone THEN NoPath
                             ELSE [v \in Threads |-> Wanted(v)][u]]
  BY <1>2
<1>5. {u \in Threads : Fetching(u)}' = {u \in Threads : Fetching(u)} \ gone
  BY <1>2
<1>6. {u \in Threads : Holding(u)}' = {u \in Threads : Holding(u)} \ gone
  BY <1>2
<1>7. Store!Leave(gone)
  BY <1>3, <1>4, <1>5, <1>6 DEF Store!Leave
<1>8. QED
  BY <1>7 DEF gone

LEMMA NextStores ==
  ASSUME OneProcess, WInv, WInv', [Next]_vars
  PROVE  [Store!Next]_(Store!vars)
<1>1. ASSUME NEW t \in Threads, Progress(t) PROVE [Store!Next]_(Store!vars)
  <2>1. /\ \A x \in Paths : Store!Ask(t, x) => Store!Next
        /\ Store!Hit(t) => Store!Next
        /\ Store!StartFetch(t) => Store!Next
        /\ Store!Fetched(t) => Store!Next
        /\ Store!Leave({t}) => Store!Next
    BY DEF Store!Next
  <2>2. CASE Populate(t) \/ Populated(t) \/ Lookup(t) \/ Check(t)
    BY <2>1, <2>2, CatalogStores, LookupStores, CheckStores
  <2>3. CASE LockDownloads(t) \/ Recheck(t) \/ Rename(t)
    BY <2>1, <2>3, LockStores, RecheckStores, RenameStores
  <2>4. CASE Download(t) \/ Verify(t) \/ WriteFails(t) \/ ReadBlob(t)
    BY <2>1, <2>4, FetchStores
  <2>5. CASE Create(t) \/ WriteBlock(t)
    BY <2>5, WritingStores
  <2>6. QED
    BY <1>1, <2>2, <2>3, <2>4, <2>5 DEF Progress
<1>2. ASSUME NEW t \in Threads,
             Prewarm(t) \/ \E n \in Names : Request(t, n)
      PROVE  [Store!Next]_(Store!vars)
  BY <1>2, CatalogStores
<1>3. ASSUME NEW p \in Processes, Crash(p) PROVE [Store!Next]_(Store!vars)
  BY <1>3, CrashStores DEF Store!Next
<1>4. CASE AtRest \/ UNCHANGED vars
  <2>1. UNCHANGED <<cached, data, job>>
    BY <1>4 DEF AtRest, vars, files
  <2>2. QED
    BY <2>1, StoreKept, StoreStutters DEF Wanted, Path, Fetching, Holding
<1>5. QED
  BY <1>1, <1>2, <1>3, <1>4 DEF Next

\* One process, any threads, names, files and crashes: every step of the
\* catalog, DOWNLOAD_LOCK and the write to a partial file is a move of the
\* store, or none, so that blobs appear whole, stay, and are fetched once.
THEOREM CacheImplementsStore ==
  ASSUME OneProcess
  PROVE  Spec => ImplementsStore
<1>1. Init => Store!Init
  <2> SUFFICES ASSUME Init PROVE Store!Init
    OBVIOUS
  <2>1. \A t \in Threads : Wanted(t) = NoPath /\ ~Fetching(t) /\ ~Holding(t)
    BY DEF Init, Wanted, Fetching, Holding, Idle
  <2>2. WholeBlobs = {}
    BY DEF Init, WholeBlobs
  <2>3. QED
    BY <2>1, <2>2 DEF Store!Init
<1>2. WInv /\ WInv' /\ [Next]_vars => [Store!Next]_(Store!vars)
  BY NextStores
<1>3. QED
  BY <1>1, <1>2, WInvariance, PTL DEF Spec, ImplementsStore, Store!Spec
=============================================================================
