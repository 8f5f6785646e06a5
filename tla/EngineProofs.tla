---------------------------- MODULE EngineProofs ----------------------------
(***************************************************************************)
(* Theorems about Engine, for every set of threads, instances and          *)
(* extensions and for loads that run concurrently.  IInv (EngineInv) is    *)
(* shown inductive, one lemma per action; the safety properties and the    *)
(* refinement of InstanceLifecycle follow from it.  RInv is about who owns *)
(* a handle, SInv about what a re-load does to the slots.                  *)
(***************************************************************************)
EXTENDS EngineInv, TLAPS

-----------------------------------------------------------------------------
(* What an action does to the frames of its thread, field by field *)

LoadStep(t, pc, inst, prev, captured) ==
    /\ load' \in [Threads -> LoadFrame]
    /\ load'[t].pc = pc
    /\ load'[t].inst = inst
    /\ load'[t].prev = prev
    /\ load'[t].captured = captured
    /\ \A u \in Threads \ {t} : load'[u] = load[u]

CallStep(t, pc, fn, inst, saved) ==
    /\ call' \in [Threads -> CallFrame]
    /\ call'[t].pc = pc
    /\ call'[t].fn = fn
    /\ call'[t].inst = inst
    /\ call'[t].saved = saved
    /\ \A u \in Threads \ {t} : call'[u] = call[u]

LEMMA LoadGoto ==
  ASSUME TypeOK, NEW t \in Threads, NEW pc \in LoadPc,
         load' = [load EXCEPT ![t].pc = pc]
  PROVE  LoadStep(t, pc, load[t].inst, load[t].prev, load[t].captured)
BY DEF TypeOK, LoadFrame, LoadStep

LEMMA LoadGotoInst ==
  ASSUME TypeOK, NEW t \in Threads, NEW pc \in LoadPc, NEW i \in OptInstance,
         load' = [load EXCEPT ![t].pc = pc, ![t].inst = i]
  PROVE  LoadStep(t, pc, i, load[t].prev, load[t].captured)
BY ZenonT(30) DEF TypeOK, LoadFrame, LoadStep

LEMMA LoadGotoPrev ==
  ASSUME TypeOK, NEW t \in Threads, NEW pc \in LoadPc, NEW p \in OptInstance,
         load' = [load EXCEPT ![t].pc = pc, ![t].prev = p]
  PROVE  LoadStep(t, pc, load[t].inst, p, load[t].captured)
BY ZenonT(30) DEF TypeOK, LoadFrame, LoadStep

LEMMA LoadGotoCaptured ==
  ASSUME TypeOK, NEW t \in Threads, NEW pc \in LoadPc, NEW c \in SUBSET Handles,
         load' = [load EXCEPT ![t].pc = pc, ![t].captured = c]
  PROVE  LoadStep(t, pc, load[t].inst, load[t].prev, c)
BY ZenonT(30) DEF TypeOK, LoadFrame, LoadStep

LEMMA LoadEnds ==
  ASSUME TypeOK, NEW t \in Threads, load' = [load EXCEPT ![t] = NotLoading]
  PROVE  LoadStep(t, "idle", NoInstance, NoInstance, {})
BY DEF TypeOK, LoadFrame, LoadStep, NotLoading, LoadPc, OptInstance

LEMMA CallGoto ==
  ASSUME TypeOK, NEW t \in Threads, NEW pc \in CallPc, Goto(t, pc)
  PROVE  CallStep(t, pc, call[t].fn, call[t].inst, call[t].saved)
BY DEF TypeOK, CallFrame, CallStep, Goto

LEMMA CallGotoInst ==
  ASSUME TypeOK, NEW t \in Threads, NEW pc \in CallPc, NEW i \in OptInstance,
         call' = [call EXCEPT ![t].pc = pc, ![t].inst = i]
  PROVE  CallStep(t, pc, call[t].fn, i, call[t].saved)
BY ZenonT(30) DEF TypeOK, CallFrame, CallStep

LEMMA CallBegins ==
  ASSUME TypeOK, NEW t \in Threads, NEW fn \in Function,
         call' = [call EXCEPT ![t] = [pc |-> "resolve", fn |-> fn,
                                      inst |-> NoInstance, saved |-> guard[t]]]
  PROVE  CallStep(t, "resolve", fn, NoInstance, guard[t])
BY DEF TypeOK, CallFrame, CallStep, CallPc, OptInstance

LEMMA CallEnds ==
  ASSUME TypeOK, NEW t \in Threads, call' = [call EXCEPT ![t] = NotCalling]
  PROVE  CallStep(t, "idle", NoFunction, NoInstance, FALSE)
BY DEF TypeOK, CallFrame, CallStep, NotCalling, CallPc, OptInstance
-----------------------------------------------------------------------------
(* IInv is inductive *)

LEMMA InitIInv == ASSUME Init PROVE IInv
<1>1. TypeOK
  BY MaxHandleAssumption, BoundsAssumption
  DEF Init, TypeOK, FirstHandle, Handles, NewEntries, OptInstance, LoadFrame,
      CallFrame, NotLoading, NotCalling, LoadPc, CallPc, NoFunction, Status
<1>2. LoadInv /\ LoadsApart /\ CallInv /\ QueryInv
  BY DEF Init, LoadInv, LoadsApart, CallInv, QueryInv, NotLoading, NotCalling
<1>3. LockInv /\ MapWriterInv
  BY NoThreadAssumption
  DEF Init, LockInv, MapWriterInv, NotLoading, NotCalling
<1>4. ReferencedLive /\ OwnerInv
  BY NoInstanceAssumption
  DEF Init, ReferencedLive, Referenced, LoadHolds, CallHolds, OwnerInv,
      NotLoading, NotCalling
<1> QED BY <1>1, <1>2, <1>3, <1>4 DEF IInv

\* A step that leaves alone all that IInv speaks of but the types.
LEMMA FrameIInv ==
  ASSUME IInv, TypeOK',
         UNCHANGED <<instances, mapWriter, status, owner, lock, functions,
                     guard, query, load, call>>,
         RegistryWritable \/ UNCHANGED entries
  PROVE  IInv'
<1>1. CallInv'
  BY DEF IInv, CallInv, RegistryWritable
<1>2. ReferencedLive'
  BY DEF IInv, ReferencedLive, Referenced, LoadHolds, CallHolds
<1> QED
  BY <1>1, <1>2
  DEF IInv, LoadInv, LoadsApart, QueryInv, LockInv, MapWriterInv, OwnerInv

\* Guest code of a live store only runs where the frames say so.
LEMMA InGuestFacts ==
  ASSUME IInv, NEW t \in Threads, NEW i \in Instances, InGuest(t, i)
  PROVE  /\ status[i] # "unused"
         /\ owner[i] \in Extensions
         /\ ~guard[t] => /\ call[t].pc = "idle"
                         /\ query[t] = "none"
                         /\ load[t].pc \in {"guest_load", "shutdown_prev",
                                            "shutdown_own"}
<1>1. status[i] # "unused"
  BY DEF IInv, InGuest, LoadOnTop, LoadInv, CallInv, ReferencedLive,
         Referenced, CallHolds
<1>2. owner[i] \in Extensions
  BY <1>1 DEF IInv, OwnerInv
<1> QED
  BY <1>1, <1>2 DEF IInv, InGuest, LoadOnTop, CallInv

LEMMA GuestAllocateIInv ==
  ASSUME IInv, NEW t \in Threads, NEW i \in Instances, GuestAllocate(t, i)
  PROVE  IInv'
<1>1. nextHandle \in Handles /\ NextHandle(nextHandle) \in Handles
  BY MaxHandleAssumption DEF IInv, TypeOK, Handles, NextHandle
<1>2. owner[i] \in Extensions
  BY InGuestFacts DEF GuestAllocate
<1>3. entries' \in [Handles -> Entry \cup {NoEntry}]
  BY <1>1, <1>2 DEF IInv, TypeOK, GuestAllocate, Allocate, Entry
<1>4. TypeOK'
  BY <1>1, <1>3 DEF IInv, TypeOK, GuestAllocate, instVars
<1> QED
  BY <1>4, FrameIInv DEF GuestAllocate, instVars

LEMMA GuestReleaseIInv ==
  ASSUME IInv, NEW t \in Threads, NEW i \in Instances, NEW h \in Handles,
         GuestRelease(t, i, h)
  PROVE  IInv'
<1>1. TypeOK'
  BY DEF IInv, TypeOK, GuestRelease, Remove, instVars
<1> QED
  BY <1>1, FrameIInv DEF GuestRelease, instVars

LEMMA GuestRegisterIInv ==
  ASSUME IInv, NEW t \in Threads, NEW i \in Instances, NEW h \in Handles,
         GuestRegister(t, i, h)
  PROVE  IInv'
<1>1. TypeOK'
  BY DEF IInv, TypeOK, GuestRegister, instVars
<1> QED
  BY <1>1, FrameIInv DEF GuestRegister, instVars

LEMMA GuestRegisterRawIInv ==
  ASSUME IInv, NEW t \in Threads, NEW i \in Instances, NEW n \in RawHandles,
         GuestRegisterRaw(t, i, n)
  PROVE  IInv'
<1>1. TypeOK'
  BY RawHandlesAssumption DEF IInv, TypeOK, GuestRegisterRaw, instVars
<1> QED
  BY <1>1, FrameIInv DEF GuestRegisterRaw, instVars

LEMMA GuestQueryIInv ==
  ASSUME IInv, NEW t \in Threads, NEW i \in Instances, GuestQuery(t, i)
  PROVE  IInv'
<1>1. budget' \in [calls : 0 .. MaxCalls, queries : 0 .. MaxQueries,
                   panics : 0 .. MaxPanics]
  BY BoundsAssumption DEF IInv, TypeOK, GuestQuery
<1>2. TypeOK'
  BY <1>1 DEF IInv, TypeOK, GuestQuery, regVars, instVars
<1>3. CallInv' /\ QueryInv'
  BY InGuestFacts
  DEF IInv, TypeOK, GuestQuery, CallInv, QueryInv, regVars, instVars
<1>4. ReferencedLive'
  BY DEF IInv, GuestQuery, ReferencedLive, Referenced, LoadHolds, CallHolds,
         instVars
<1> QED
  BY <1>2, <1>3, <1>4
  DEF IInv, GuestQuery, LoadInv, LoadsApart, LockInv, MapWriterInv, OwnerInv,
      instVars

LEMMA QueryRunsIInv ==
  ASSUME IInv, NEW t \in Threads, QueryRuns(t)
  PROVE  IInv'
<1>1. TypeOK'
  BY DEF IInv, TypeOK, QueryRuns, regVars, instVars
<1>2. CallInv' /\ QueryInv'
  BY DEF IInv, TypeOK, QueryRuns, CallInv, QueryInv, regVars, instVars
<1>3. ReferencedLive'
  BY DEF IInv, QueryRuns, ReferencedLive, Referenced, LoadHolds, CallHolds,
         instVars
<1> QED
  BY <1>1, <1>2, <1>3
  DEF IInv, QueryRuns, LoadInv, LoadsApart, LockInv, MapWriterInv, OwnerInv,
      instVars

LEMMA QueryEndsIInv ==
  ASSUME IInv, NEW t \in Threads, QueryEnds(t)
  PROVE  IInv'
<1>1. TypeOK'
  BY DEF IInv, TypeOK, QueryEnds, regVars, instVars
<1>2. CallInv' /\ QueryInv'
  BY DEF IInv, TypeOK, QueryEnds, CallInv, QueryInv, regVars, instVars
<1>3. ReferencedLive'
  BY DEF IInv, QueryEnds, ReferencedLive, Referenced, LoadHolds, CallHolds,
         instVars
<1> QED
  BY <1>1, <1>2, <1>3
  DEF IInv, QueryEnds, LoadInv, LoadsApart, LockInv, MapWriterInv, OwnerInv,
      instVars
LEMMA BeginLoadIInv ==
  ASSUME IInv, NEW t \in Threads, NEW e \in Extensions, BeginLoad(t, e)
  PROVE  IInv'
<1>1. PICK i \in Instances :
        /\ status[i] = "unused"
        /\ status' = [status EXCEPT ![i] = "loading"]
        /\ owner' = [owner EXCEPT ![i] = e]
        /\ load' = [load EXCEPT ![t].pc = "guest_load", ![t].inst = i]
  BY DEF BeginLoad
<1>2. /\ load[t].pc = "idle" /\ call[t].pc = "idle"
      /\ UNCHANGED <<regVars, instances, mapWriter, lock, poisoned, functions,
                     guard, rawConn, query, call, budget>>
  BY DEF BeginLoad
<1>3. LoadStep(t, "guest_load", i, load[t].prev, load[t].captured)
  BY <1>1, LoadGotoInst DEF IInv, LoadPc, OptInstance
<1>4. TypeOK'
  BY <1>1, <1>2, <1>3 DEF IInv, TypeOK, Status, LoadStep, regVars
<1>5. /\ \A j \in Instances : j # i => status'[j] = status[j]
      /\ status'[i] = "loading"
      /\ \A j \in Instances : j # i => owner'[j] = owner[j]
      /\ owner'[i] = e
  BY <1>1 DEF IInv, TypeOK
<1>a. \A u \in Threads :
        load[u].pc # "idle" =>
            /\ load[u].inst \in Instances
            /\ status[load[u].inst] # "unused"
  BY DEF IInv, TypeOK, LoadFrame, LoadPc, LoadInv
<1>6. LoadInv' /\ LoadsApart'
  BY <1>1, <1>3, <1>5, <1>a DEF IInv, LoadInv, LoadsApart, LoadStep
<1>7. CallInv' /\ QueryInv'
  BY <1>1, <1>2, <1>3, <1>5
  DEF IInv, CallInv, QueryInv, LoadStep, regVars, ReferencedLive, Referenced,
      CallHolds
<1>8. \A j \in Instances : Referenced(j)' => Referenced(j)
  BY <1>2, <1>3 DEF Referenced, LoadHolds, CallHolds, LoadStep
<1>9. ReferencedLive'
  BY <1>1, <1>5, <1>8 DEF IInv, ReferencedLive
<1>10. LockInv' /\ MapWriterInv'
  BY <1>2, <1>3 DEF IInv, LockInv, MapWriterInv, LoadStep
<1>11. OwnerInv'
  BY <1>1, <1>2, <1>5
  DEF IInv, OwnerInv, ReferencedLive, Referenced
<1> QED
  BY <1>4, <1>6, <1>7, <1>9, <1>10, <1>11 DEF IInv

LEMMA GuestLoadReturnsIInv ==
  ASSUME IInv, NEW t \in Threads, GuestLoadReturns(t)
  PROVE  IInv'
<1> DEFINE i == load[t].inst
<1>1. /\ load[t].pc = "guest_load" /\ i \in Instances
      /\ call[t].pc = "idle" /\ query[t] = "none"
  BY DEF IInv, GuestLoadReturns, LoadInv, LoadOnTop
<1>2. UNCHANGED <<instVars, nextHandle, entries, resources, overtaken,
                  functions, guard, rawConn, query, call, budget>>
  BY DEF GuestLoadReturns
<1>3. LoadStep(t, "insert", i, load[t].prev, registered[i])
  BY <1>1, LoadGotoCaptured DEF IInv, TypeOK, LoadPc, GuestLoadReturns
<1>4. registered' \in [Instances -> SUBSET Handles]
  BY DEF IInv, TypeOK, GuestLoadReturns
<1>5. TypeOK'
  BY <1>2, <1>3, <1>4 DEF IInv, TypeOK, LoadStep, instVars
<1>6. LoadInv' /\ LoadsApart'
  BY <1>1, <1>2, <1>3 DEF IInv, LoadInv, LoadsApart, LoadStep, instVars
<1>7. CallInv' /\ QueryInv'
  BY <1>1, <1>2, <1>3 DEF IInv, CallInv, QueryInv, LoadStep, instVars
<1>8. ReferencedLive'
  BY <1>2, <1>3
  DEF IInv, ReferencedLive, Referenced, LoadHolds, CallHolds, LoadStep, instVars
<1>9. LockInv' /\ MapWriterInv' /\ OwnerInv'
  BY <1>1, <1>2, <1>3
  DEF IInv, LockInv, MapWriterInv, OwnerInv, LoadStep, instVars
<1> QED
  BY <1>5, <1>6, <1>7, <1>8, <1>9 DEF IInv

LEMMA GuestLoadFailsIInv ==
  ASSUME IInv, NEW t \in Threads, GuestLoadFails(t)
  PROVE  IInv'
<1> DEFINE i == load[t].inst
<1>1. /\ load[t].pc = "guest_load" /\ i \in Instances
      /\ call[t].pc = "idle" /\ query[t] = "none"
      /\ status[i] = "loading"
  BY DEF IInv, GuestLoadFails, LoadInv, LoadOnTop
<1>2. UNCHANGED <<regVars, instances, mapWriter, owner, lock, poisoned,
                  functions, guard, rawConn, query, call, budget>>
  BY DEF GuestLoadFails
<1>3. LoadStep(t, "idle", NoInstance, NoInstance, {})
  BY LoadEnds DEF IInv, GuestLoadFails
<1>4. /\ status' \in [Instances -> Status]
      /\ \A j \in Instances : j # i => status'[j] = status[j]
      /\ status'[i] = "failed"
  BY <1>1 DEF IInv, TypeOK, GuestLoadFails, Status
<1>5. TypeOK'
  BY <1>2, <1>3, <1>4 DEF IInv, TypeOK, LoadStep, regVars
<1>6. LoadInv' /\ LoadsApart'
  BY <1>1, <1>3, <1>4 DEF IInv, LoadInv, LoadsApart, LoadStep
<1>7. \A j \in Instances : Referenced(j)' => Referenced(j) /\ j # i
  BY <1>1, <1>2, <1>3
  DEF IInv, ReferencedLive, Referenced, LoadHolds, CallHolds, LoadStep
<1>8. ReferencedLive'
  BY <1>4, <1>7 DEF IInv, ReferencedLive
<1>9. CallInv' /\ QueryInv'
  BY <1>1, <1>2, <1>3, <1>4 DEF IInv, CallInv, QueryInv, LoadStep, regVars
<1>10. LockInv' /\ MapWriterInv' /\ OwnerInv'
  BY <1>1, <1>2, <1>3, <1>4
  DEF IInv, LockInv, MapWriterInv, OwnerInv, LoadStep
<1> QED
  BY <1>5, <1>6, <1>8, <1>9, <1>10 DEF IInv

LEMMA InsertIInv ==
  ASSUME IInv, NEW t \in Threads, Insert(t)
  PROVE  IInv'
<1> DEFINE i == load[t].inst
           e == owner[i]
<1>1. /\ load[t].pc = "insert" /\ i \in Instances /\ status[i] = "loading"
      /\ e \in Extensions /\ instances[e] \in OptInstance
      /\ call[t].pc = "idle"
  BY DEF IInv, Insert, LoadInv, OwnerInv, TypeOK, CallInv, QueryInv
<1>2. UNCHANGED <<nextHandle, entries, resources, registered, owner, lock,
                  poisoned, functions, guard, rawConn, query, call, budget>>
  BY DEF Insert
<1>3. LoadStep(t, "unlock_map", i, instances[e], load[t].captured)
  BY <1>1, LoadGotoPrev DEF IInv, LoadPc, Insert
<1>4. /\ status' \in [Instances -> Status]
      /\ \A j \in Instances : j # i => status'[j] = status[j]
      /\ status'[i] = "live"
  BY <1>1 DEF IInv, TypeOK, Insert, Status
<1>5. /\ instances' \in [Extensions -> OptInstance]
      /\ \A x \in Extensions : x # e => instances'[x] = instances[x]
      /\ instances'[e] = i
      /\ mapWriter = NoThread /\ mapWriter' = t
  BY <1>1 DEF IInv, TypeOK, Insert, OptInstance
<1>6. TypeOK'
  <2>1. overtaken' \in SUBSET Instances
    BY DEF IInv, TypeOK, LoadInv, Insert, Relinking, RelinkingPc
  <2> QED
    BY <1>2, <1>3, <1>4, <1>5, <2>1 DEF IInv, TypeOK, LoadStep
<1>7. LoadInv' /\ LoadsApart'
  BY <1>1, <1>3, <1>4 DEF IInv, LoadInv, LoadsApart, LoadStep
<1>8. CallInv' /\ QueryInv'
  BY <1>1, <1>2, <1>3, <1>4 DEF IInv, CallInv, QueryInv, LoadStep
<1>9. \A j \in Instances : Referenced(j)' => Referenced(j) \/ j = i
  BY <1>1, <1>2, <1>3, <1>5
  DEF Referenced, LoadHolds, CallHolds, LoadStep
<1>10. ReferencedLive'
  BY <1>4, <1>9 DEF IInv, ReferencedLive
<1>11. LockInv' /\ MapWriterInv'
  BY <1>1, <1>2, <1>3, <1>5, NoThreadAssumption
  DEF IInv, LockInv, MapWriterInv, LoadStep
<1>12. OwnerInv'
  BY <1>1, <1>2, <1>4, <1>5 DEF IInv, OwnerInv
<1> QED
  BY <1>6, <1>7, <1>8, <1>10, <1>11, <1>12 DEF IInv

LEMMA UnlockMapIInv ==
  ASSUME IInv, NEW t \in Threads, UnlockMap(t)
  PROVE  IInv'
<1>1. /\ load[t].pc = "unlock_map" /\ call[t].pc = "idle"
      /\ mapWriter = t /\ mapWriter' = NoThread
  BY DEF IInv, UnlockMap, CallInv, QueryInv, MapWriterInv
<1>2. UNCHANGED <<regVars, instances, status, owner, lock, poisoned,
                  functions, guard, rawConn, query, call, budget>>
  BY DEF UnlockMap
<1>3. LoadStep(t, "drop_prev", load[t].inst, load[t].prev, load[t].captured)
  BY LoadGoto DEF IInv, LoadPc, UnlockMap
<1>4. TypeOK'
  BY <1>1, <1>2, <1>3 DEF IInv, TypeOK, LoadStep, regVars
<1>5. LoadInv' /\ LoadsApart'
  BY <1>1, <1>2, <1>3 DEF IInv, LoadInv, LoadsApart, LoadStep
<1>6. CallInv' /\ QueryInv'
  BY <1>1, <1>2, <1>3 DEF IInv, CallInv, QueryInv, LoadStep, regVars
<1>7. ReferencedLive'
  BY <1>1, <1>2, <1>3
  DEF IInv, ReferencedLive, Referenced, LoadHolds, CallHolds, LoadStep
<1>8. LockInv' /\ MapWriterInv' /\ OwnerInv'
  BY <1>1, <1>2, <1>3, NoThreadAssumption
  DEF IInv, LockInv, MapWriterInv, OwnerInv, LoadStep
<1> QED
  BY <1>4, <1>5, <1>6, <1>7, <1>8 DEF IInv
\* The last reference to p goes: p was live, and only its status changes.
LEMMA RetireStatus ==
  ASSUME IInv, NEW p \in Instances, Referenced(p),
         status' = [status EXCEPT ![p] = "shutdown"]
  PROVE  /\ status[p] = "live"
         /\ status' \in [Instances -> Status]
         /\ \A j \in Instances : j # p => status'[j] = status[j]
         /\ status'[p] = "shutdown"
BY DEF IInv, TypeOK, ReferencedLive, Status

\* A shutdown returns: p was not referenced, and only its status changes.
LEMMA RetiredStatus ==
  ASSUME IInv, NEW p \in Instances, status[p] \in {"shutdown", "gone"},
         status' = [status EXCEPT ![p] = "gone"]
  PROVE  /\ ~Referenced(p)
         /\ status' \in [Instances -> Status]
         /\ \A j \in Instances : j # p => status'[j] = status[j]
         /\ status'[p] = "gone"
BY DEF IInv, TypeOK, ReferencedLive, Status

LEMMA DropPrevIInv ==
  ASSUME IInv, NEW t \in Threads, DropPrev(t)
  PROVE  IInv'
<1>0. PICK p \in OptInstance :
        /\ p = load[t].prev
        /\ \/ /\ p # NoInstance
              /\ load' = [load EXCEPT ![t].pc = "shutdown_prev"]
              /\ ~Referenced(p)'
              /\ status' = [status EXCEPT ![p] = "shutdown"]
           \/ /\ load' = [load EXCEPT ![t].pc = "link", ![t].prev = NoInstance]
              /\ p = NoInstance \/ Referenced(p)'
              /\ UNCHANGED status
  BY DEF DropPrev
<1>1. /\ load[t].pc = "drop_prev" /\ call[t].pc = "idle"
      /\ load[t].inst \in Instances
      /\ p \in Instances => Referenced(p)
  BY <1>0 DEF IInv, DropPrev, CallInv, QueryInv, LoadInv, Referenced,
              LoadHolds
<1>2. UNCHANGED <<regVars, instances, mapWriter, owner, lock, poisoned,
                  functions, guard, rawConn, query, call, budget>>
  BY DEF DropPrev
<1>3. \A j \in Instances : Referenced(j)' => Referenced(j)
  <2>1. \A u \in Threads, j \in Instances : LoadHolds(u, j)' => LoadHolds(u, j)
    <3>1. \/ LoadStep(t, "shutdown_prev", load[t].inst, p, load[t].captured)
          \/ LoadStep(t, "link", load[t].inst, NoInstance, load[t].captured)
      BY <1>0, <1>1, LoadGoto, LoadGotoPrev DEF IInv, DropPrev, LoadPc, OptInstance
    <3> QED
      BY <1>1, <3>1 DEF LoadHolds, LoadStep
  <2> QED
    BY <1>2, <2>1 DEF Referenced, CallHolds
<1>4. CASE /\ p \in Instances
           /\ load' = [load EXCEPT ![t].pc = "shutdown_prev"]
           /\ ~Referenced(p)'
           /\ status' = [status EXCEPT ![p] = "shutdown"]
  <2>1. LoadStep(t, "shutdown_prev", load[t].inst, p, load[t].captured)
    BY <1>0, <1>4, LoadGoto DEF IInv, LoadPc
  <2>2. /\ status[p] = "live"
        /\ status' \in [Instances -> Status]
        /\ \A j \in Instances : j # p => status'[j] = status[j]
        /\ status'[p] = "shutdown"
    BY <1>1, <1>4, RetireStatus
  <2>3. TypeOK'
    BY <1>2, <2>1, <2>2 DEF IInv, TypeOK, LoadStep, regVars
  <2>4. \A u \in Threads : load'[u].inst = p =>
           load'[u].pc \notin {"unlock_map", "drop_prev", "shutdown_prev",
                               "link", "drop_own"}
    BY <1>4 DEF Referenced, LoadHolds
  <2>5. LoadInv' /\ LoadsApart'
    BY <1>1, <1>4, <2>1, <2>2, <2>4
    DEF IInv, LoadInv, LoadsApart, LoadStep
  <2>6. CallInv' /\ QueryInv'
    BY <1>1, <1>2, <2>1, <2>2 DEF IInv, CallInv, QueryInv, LoadStep, regVars
  <2>7. ReferencedLive'
    BY <1>3, <1>4, <2>2 DEF IInv, ReferencedLive
  <2>8. LockInv' /\ MapWriterInv' /\ OwnerInv'
    BY <1>1, <1>2, <2>1, <2>2
    DEF IInv, LockInv, MapWriterInv, OwnerInv, LoadStep
  <2> QED
    BY <2>3, <2>5, <2>6, <2>7, <2>8 DEF IInv
<1>5. CASE /\ load' = [load EXCEPT ![t].pc = "link", ![t].prev = NoInstance]
           /\ UNCHANGED status
  <2>1. LoadStep(t, "link", load[t].inst, NoInstance, load[t].captured)
    BY <1>5, LoadGotoPrev DEF IInv, LoadPc, OptInstance
  <2>2. TypeOK'
    BY <1>2, <1>5, <2>1 DEF IInv, TypeOK, LoadStep, regVars
  <2>3. LoadInv' /\ LoadsApart'
    BY <1>1, <1>5, <2>1 DEF IInv, LoadInv, LoadsApart, LoadStep
  <2>4. CallInv' /\ QueryInv'
    BY <1>1, <1>2, <1>5, <2>1 DEF IInv, CallInv, QueryInv, LoadStep, regVars
  <2>5. ReferencedLive'
    BY <1>3, <1>5 DEF IInv, ReferencedLive
  <2>6. LockInv' /\ MapWriterInv' /\ OwnerInv'
    BY <1>1, <1>2, <1>5, <2>1
    DEF IInv, LockInv, MapWriterInv, OwnerInv, LoadStep
  <2> QED
    BY <2>2, <2>3, <2>4, <2>5, <2>6 DEF IInv
<1> QED
  BY <1>0, <1>4, <1>5 DEF OptInstance

LEMMA ShutdownPrevEndsIInv ==
  ASSUME IInv, NEW t \in Threads, ShutdownPrevEnds(t)
  PROVE  IInv'
<1> DEFINE p == load[t].prev
<1>1. /\ load[t].pc = "shutdown_prev" /\ p \in Instances
      /\ load[t].inst \in Instances
      /\ status[p] \in {"shutdown", "gone"}
      /\ call[t].pc = "idle" /\ query[t] = "none"
  BY DEF IInv, ShutdownPrevEnds, LoadInv, LoadOnTop
<1>3. UNCHANGED <<regVars, instances, mapWriter, owner, lock, poisoned,
                  functions, guard, rawConn, query, call, budget>>
  BY DEF ShutdownPrevEnds
<1>4. LoadStep(t, "link", load[t].inst, NoInstance, load[t].captured)
  BY LoadGotoPrev DEF IInv, ShutdownPrevEnds, LoadPc, OptInstance
<1>5. /\ ~Referenced(p)
      /\ status' \in [Instances -> Status]
      /\ \A j \in Instances : j # p => status'[j] = status[j]
      /\ status'[p] = "gone"
  BY <1>1, RetiredStatus DEF ShutdownPrevEnds
<1>6. TypeOK'
  BY <1>3, <1>4, <1>5 DEF IInv, TypeOK, LoadStep, regVars
<1>7. LoadInv' /\ LoadsApart'
  BY <1>1, <1>4, <1>5 DEF IInv, LoadInv, LoadsApart, LoadStep
<1>8. CallInv' /\ QueryInv'
  BY <1>1, <1>3, <1>4, <1>5 DEF IInv, CallInv, QueryInv, LoadStep, regVars
<1>9. \A j \in Instances : Referenced(j)' => Referenced(j)
  BY <1>1, <1>3, <1>4
  DEF Referenced, LoadHolds, CallHolds, LoadStep
<1>10. ReferencedLive'
  BY <1>5, <1>9 DEF IInv, ReferencedLive
<1>11. LockInv' /\ MapWriterInv' /\ OwnerInv'
  BY <1>1, <1>3, <1>4, <1>5
  DEF IInv, LockInv, MapWriterInv, OwnerInv, LoadStep
<1> QED
  BY <1>6, <1>7, <1>8, <1>10, <1>11 DEF IInv

LEMMA LinkInstanceIInv ==
  ASSUME IInv, NEW t \in Threads, LinkInstance(t)
  PROVE  IInv'
<1> DEFINE i == load[t].inst
<1>1. /\ load[t].pc = "link" /\ i \in Instances
      /\ call[t].pc = "idle" /\ RegistryWritable
  BY DEF IInv, LinkInstance, LoadInv, CallInv, QueryInv
<1>2. UNCHANGED <<instVars, nextHandle, resources, registered, overtaken,
                  functions, guard, rawConn, query, call, budget>>
  BY DEF LinkInstance
<1>3. LoadStep(t, "drop_own", i, load[t].prev, load[t].captured)
  BY LoadGoto DEF IInv, LinkInstance, LoadPc
<1>4. entries' \in [Handles -> Entry \cup {NoEntry}]
  BY <1>1 DEF IInv, TypeOK, LinkInstance, Link, Entry
<1>5. TypeOK'
  BY <1>2, <1>3, <1>4 DEF IInv, TypeOK, LoadStep, instVars
<1>6. LoadInv' /\ LoadsApart'
  BY <1>1, <1>2, <1>3 DEF IInv, LoadInv, LoadsApart, LoadStep, instVars
<1>7. CallInv' /\ QueryInv'
  BY <1>1, <1>2, <1>3
  DEF IInv, CallInv, QueryInv, LoadStep, instVars, RegistryWritable
<1>8. ReferencedLive'
  BY <1>1, <1>2, <1>3
  DEF IInv, ReferencedLive, Referenced, LoadHolds, CallHolds, LoadStep, instVars
<1>9. LockInv' /\ MapWriterInv' /\ OwnerInv'
  BY <1>1, <1>2, <1>3
  DEF IInv, LockInv, MapWriterInv, OwnerInv, LoadStep, instVars
<1> QED
  BY <1>5, <1>6, <1>7, <1>8, <1>9 DEF IInv
LEMMA ReturnedTypes ==
  ASSUME IInv, NEW t \in Threads, load[t].inst \in Instances,
         owner[load[t].inst] \in Extensions, Returned(t)
  PROVE  /\ functions' \in SUBSET Function
         /\ functions \subseteq functions'
         /\ LoadStep(t, "idle", NoInstance, NoInstance, {})
<1>1. load[t].captured \subseteq Handles
  BY DEF IInv, TypeOK, LoadFrame
<1>2. LoadStep(t, "idle", NoInstance, NoInstance, {})
  BY LoadEnds DEF IInv, Returned
<1> QED
  BY <1>1, <1>2 DEF IInv, TypeOK, Returned, Drained, Function

LEMMA DropOwnIInv ==
  ASSUME IInv, NEW t \in Threads, DropOwn(t)
  PROVE  IInv'
<1>1. PICK i \in Instances :
        /\ i = load[t].inst
        /\ \/ /\ load' = [load EXCEPT ![t].pc = "shutdown_own"]
              /\ ~Referenced(i)'
              /\ status' = [status EXCEPT ![i] = "shutdown"]
              /\ UNCHANGED functions
           \/ /\ Returned(t)
              /\ Referenced(i)'
              /\ UNCHANGED status
  BY DEF DropOwn
<1>2. /\ load[t].pc = "drop_own" /\ call[t].pc = "idle"
      /\ status[i] = "live" /\ owner[i] \in Extensions /\ Referenced(i)
  BY <1>1 DEF IInv, DropOwn, CallInv, QueryInv, LoadInv, OwnerInv, Referenced,
              LoadHolds
<1>3. UNCHANGED <<regVars, instances, mapWriter, owner, lock, poisoned,
                  guard, rawConn, query, call, budget>>
  BY DEF DropOwn
<1>4. CASE /\ load' = [load EXCEPT ![t].pc = "shutdown_own"]
           /\ ~Referenced(i)'
           /\ status' = [status EXCEPT ![i] = "shutdown"]
           /\ UNCHANGED functions
  <2>1. LoadStep(t, "shutdown_own", i, load[t].prev, load[t].captured)
    BY <1>1, <1>4, LoadGoto DEF IInv, LoadPc
  <2>2. /\ status' \in [Instances -> Status]
        /\ \A j \in Instances : j # i => status'[j] = status[j]
        /\ status'[i] = "shutdown"
    BY <1>2, <1>4, RetireStatus
  <2>3. TypeOK'
    BY <1>3, <1>4, <2>1, <2>2 DEF IInv, TypeOK, LoadStep, regVars
  <2>4. LoadInv' /\ LoadsApart'
    BY <1>1, <1>2, <2>1, <2>2 DEF IInv, LoadInv, LoadsApart, LoadStep
  <2>5. CallInv' /\ QueryInv'
    BY <1>2, <1>3, <1>4, <2>1, <2>2
    DEF IInv, CallInv, QueryInv, LoadStep, regVars
  <2>6. \A j \in Instances : Referenced(j)' => Referenced(j)
    BY <1>3, <2>1 DEF Referenced, LoadHolds, CallHolds, LoadStep
  <2>7. ReferencedLive'
    BY <1>4, <2>2, <2>6 DEF IInv, ReferencedLive
  <2>8. LockInv' /\ MapWriterInv' /\ OwnerInv'
    BY <1>2, <1>3, <2>1, <2>2
    DEF IInv, LockInv, MapWriterInv, OwnerInv, LoadStep
  <2> QED
    BY <2>3, <2>4, <2>5, <2>7, <2>8 DEF IInv
<1>5. CASE Returned(t) /\ UNCHANGED status
  <2>1. /\ functions' \in SUBSET Function
        /\ functions \subseteq functions'
        /\ LoadStep(t, "idle", NoInstance, NoInstance, {})
    BY <1>1, <1>2, <1>5, ReturnedTypes
  <2>2. TypeOK'
    BY <1>3, <1>5, <2>1 DEF IInv, TypeOK, LoadStep, regVars
  <2>3. LoadInv' /\ LoadsApart'
    BY <1>5, <2>1 DEF IInv, LoadInv, LoadsApart, LoadStep
  <2>4. CallInv' /\ QueryInv'
    BY <1>2, <1>3, <1>5, <2>1 DEF IInv, CallInv, QueryInv, LoadStep, regVars
  <2>5. ReferencedLive'
    BY <1>3, <1>5, <2>1
    DEF IInv, ReferencedLive, Referenced, LoadHolds, CallHolds, LoadStep
  <2>6. LockInv' /\ MapWriterInv' /\ OwnerInv'
    BY <1>2, <1>3, <1>5, <2>1
    DEF IInv, LockInv, MapWriterInv, OwnerInv, LoadStep
  <2> QED
    BY <2>2, <2>3, <2>4, <2>5, <2>6 DEF IInv
<1> QED
  BY <1>1, <1>4, <1>5

LEMMA ShutdownOwnEndsIInv ==
  ASSUME IInv, NEW t \in Threads, ShutdownOwnEnds(t)
  PROVE  IInv'
<1> DEFINE i == load[t].inst
<1>1. /\ load[t].pc = "shutdown_own" /\ i \in Instances
      /\ status[i] \in {"shutdown", "gone"} /\ owner[i] \in Extensions
      /\ call[t].pc = "idle" /\ query[t] = "none"
  BY DEF IInv, ShutdownOwnEnds, LoadInv, OwnerInv, LoadOnTop
<1>2. UNCHANGED <<regVars, instances, mapWriter, owner, lock, poisoned,
                  guard, rawConn, query, call, budget>>
  BY DEF ShutdownOwnEnds
<1>3. /\ functions' \in SUBSET Function
      /\ functions \subseteq functions'
      /\ LoadStep(t, "idle", NoInstance, NoInstance, {})
  BY <1>1, ReturnedTypes DEF ShutdownOwnEnds
<1>4. /\ ~Referenced(i)
      /\ status' \in [Instances -> Status]
      /\ \A j \in Instances : j # i => status'[j] = status[j]
      /\ status'[i] = "gone"
  BY <1>1, RetiredStatus DEF ShutdownOwnEnds
<1>5. TypeOK'
  BY <1>2, <1>3, <1>4 DEF IInv, TypeOK, LoadStep, regVars
<1>6. LoadInv' /\ LoadsApart'
  BY <1>1, <1>3, <1>4 DEF IInv, LoadInv, LoadsApart, LoadStep
<1>7. CallInv' /\ QueryInv'
  BY <1>1, <1>2, <1>3, <1>4 DEF IInv, CallInv, QueryInv, LoadStep, regVars
<1>8. \A j \in Instances : Referenced(j)' => Referenced(j)
  BY <1>2, <1>3 DEF Referenced, LoadHolds, CallHolds, LoadStep
<1>9. ReferencedLive'
  BY <1>4, <1>8 DEF IInv, ReferencedLive
<1>10. LockInv' /\ MapWriterInv' /\ OwnerInv'
  BY <1>1, <1>2, <1>3, <1>4
  DEF IInv, LockInv, MapWriterInv, OwnerInv, LoadStep
<1> QED
  BY <1>5, <1>6, <1>7, <1>9, <1>10 DEF IInv

LEMMA BeginCallIInv ==
  ASSUME IInv, NEW t \in Threads, NEW fn \in functions, BeginCall(t, fn)
  PROVE  IInv'
<1>1. /\ call[t].pc = "idle" /\ fn \in Function
      /\ load[t].pc = "idle" \/ query[t] = "running"
  BY DEF IInv, TypeOK, BeginCall
<1>2. UNCHANGED <<regVars, instVars, functions, rawConn, query, load>>
  BY DEF BeginCall
<1>3. CallStep(t, "resolve", fn, NoInstance, guard[t])
  BY <1>1, CallBegins DEF IInv, BeginCall
<1>4. /\ guard' \in [Threads -> BOOLEAN] /\ guard'[t]
      /\ \A u \in Threads \ {t} : guard'[u] = guard[u]
      /\ budget' \in [calls : 0 .. MaxCalls, queries : 0 .. MaxQueries,
                      panics : 0 .. MaxPanics]
  BY BoundsAssumption DEF IInv, TypeOK, BeginCall
<1>5. TypeOK'
  BY <1>2, <1>3, <1>4 DEF IInv, TypeOK, CallStep, regVars, instVars
<1>6. CallInv' /\ QueryInv'
  BY <1>1, <1>2, <1>3, <1>4
  DEF IInv, CallInv, QueryInv, CallStep, regVars, instVars
<1>7. ReferencedLive'
  BY <1>1, <1>2, <1>3
  DEF IInv, ReferencedLive, Referenced, LoadHolds, CallHolds, CallStep, instVars
<1>8. LoadInv' /\ LoadsApart' /\ LockInv' /\ MapWriterInv' /\ OwnerInv'
  BY <1>1, <1>2, <1>3
  DEF IInv, LoadInv, LoadsApart, LockInv, MapWriterInv, OwnerInv, CallStep,
      instVars
<1> QED
  BY <1>5, <1>6, <1>7, <1>8 DEF IInv

LEMMA EndCallIInv ==
  ASSUME IInv, NEW t \in Threads, EndCall(t)
  PROVE  IInv'
<1>1. call[t].pc = "return" /\ call[t].saved \in BOOLEAN
  BY DEF IInv, TypeOK, EndCall, CallFrame
<1>2. UNCHANGED <<regVars, instVars, functions, rawConn, query, load, budget>>
  BY DEF EndCall
<1>3. CallStep(t, "idle", NoFunction, NoInstance, FALSE)
  BY CallEnds DEF IInv, EndCall
<1>4. /\ guard' \in [Threads -> BOOLEAN]
      /\ \A u \in Threads \ {t} : guard'[u] = guard[u]
  BY <1>1 DEF IInv, TypeOK, EndCall
<1>5. TypeOK'
  BY <1>2, <1>3, <1>4 DEF IInv, TypeOK, CallStep, regVars, instVars
<1>6. CallInv' /\ QueryInv'
  BY <1>1, <1>2, <1>3, <1>4
  DEF IInv, CallInv, QueryInv, CallStep, regVars, instVars
<1>7. ReferencedLive'
  BY <1>1, <1>2, <1>3
  DEF IInv, ReferencedLive, Referenced, LoadHolds, CallHolds, CallStep, instVars
<1>8. LoadInv' /\ LoadsApart' /\ LockInv' /\ MapWriterInv' /\ OwnerInv'
  BY <1>1, <1>2, <1>3
  DEF IInv, LoadInv, LoadsApart, LockInv, MapWriterInv, OwnerInv, CallStep,
      instVars
<1> QED
  BY <1>5, <1>6, <1>7, <1>8 DEF IInv
\* A step that moves one dispatch to `pc` with `inst` and leaves the instances,
\* the loads and the locks as they are.
LEMMA CallMovesIInv ==
  ASSUME IInv, NEW t \in Threads, NEW pc, NEW inst,
         CallStep(t, pc, call[t].fn, inst, call[t].saved),
         call[t].pc \notin {"idle", "guest"},
         pc \notin {"idle", "guest", "shutdown"},
         pc \in {"lock", "drop"} => Referenced(inst),
         pc = "fallback" => entries[call[t].fn.handle] # NoEntry,
         UNCHANGED <<regVars, instVars, functions, guard, rawConn, query, load,
                     budget>>
  PROVE  IInv'
<1>1. TypeOK'
  BY DEF IInv, TypeOK, CallStep, regVars, instVars
<1>2. CallInv' /\ QueryInv'
  BY DEF IInv, CallInv, QueryInv, CallStep, regVars, instVars, Referenced
<1>3. \A i \in Instances : Referenced(i)' => Referenced(i)
  BY DEF Referenced, LoadHolds, CallHolds, CallStep, instVars
<1>4. ReferencedLive'
  BY <1>3 DEF IInv, ReferencedLive, instVars
<1>5. LoadInv' /\ LoadsApart' /\ LockInv' /\ MapWriterInv' /\ OwnerInv'
  BY DEF IInv, LoadInv, LoadsApart, LockInv, MapWriterInv, OwnerInv, CallStep,
         instVars
<1> QED
  BY <1>1, <1>2, <1>4, <1>5 DEF IInv

LEMMA ResolveIInv ==
  ASSUME IInv, NEW t \in Threads, Resolve(t)
  PROVE  IInv'
<1> DEFINE entry == entries[call[t].fn.handle]
<1>1. /\ call[t].pc = "resolve"
      /\ UNCHANGED <<regVars, instVars, functions, guard, rawConn, query, load,
                     budget>>
  BY DEF Resolve
<1>2. CASE Goto(t, "return")
  <2>1. CallStep(t, "return", call[t].fn, call[t].inst, call[t].saved)
    BY <1>2, CallGoto DEF IInv, CallPc
  <2> QED
    BY <1>1, <2>1, CallMovesIInv
<1>3. CASE /\ Referenced(entry.instance)
           /\ call' = [call EXCEPT ![t].pc = "lock", ![t].inst = entry.instance]
  <2>1. CallStep(t, "lock", call[t].fn, entry.instance, call[t].saved)
    BY <1>3, CallGotoInst DEF IInv, CallPc, OptInstance, Referenced
  <2> QED
    BY <1>1, <1>3, <2>1, CallMovesIInv
<1>4. CASE entry # NoEntry /\ Goto(t, "fallback")
  <2>1. CallStep(t, "fallback", call[t].fn, call[t].inst, call[t].saved)
    BY <1>4, CallGoto DEF IInv, CallPc
  <2> QED
    BY <1>1, <1>4, <2>1, CallMovesIInv
<1> QED
  BY <1>2, <1>3, <1>4 DEF Resolve

LEMMA FallbackIInv ==
  ASSUME IInv, NEW t \in Threads, Fallback(t)
  PROVE  IInv'
<1> DEFINE e == entries[call[t].fn.handle].extension
           i == instances[e]
<1>1. /\ call[t].pc = "fallback" /\ e \in Extensions
      /\ UNCHANGED <<regVars, instVars, functions, guard, rawConn, query, load,
                     budget>>
  BY DEF IInv, TypeOK, Fallback, CallInv, Function, Entry
<1>2. CASE Goto(t, "return")
  <2>1. CallStep(t, "return", call[t].fn, call[t].inst, call[t].saved)
    BY <1>2, CallGoto DEF IInv, CallPc
  <2> QED
    BY <1>1, <2>1, CallMovesIInv
<1>3. CASE /\ i # NoInstance
           /\ call' = [call EXCEPT ![t].pc = "lock", ![t].inst = i]
  <2>1. i \in Instances /\ Referenced(i)
    BY <1>1, <1>3 DEF IInv, TypeOK, OptInstance, Referenced
  <2>2. CallStep(t, "lock", call[t].fn, i, call[t].saved)
    BY <1>3, <2>1, CallGotoInst DEF IInv, CallPc, OptInstance
  <2> QED
    <3> HIDE DEF e, i
    <3>1. call[t].pc \notin {"idle", "guest"}
      BY <1>1
    <3> QED
      BY <1>1, <2>1, <2>2, <3>1, CallMovesIInv
<1> QED
  BY <1>2, <1>3 DEF Fallback

LEMMA LockInstanceIInv ==
  ASSUME IInv, NEW t \in Threads, LockInstance(t)
  PROVE  IInv'
<1> DEFINE i == call[t].inst
<1>1. /\ call[t].pc = "lock" /\ i \in Instances /\ Referenced(i)
      /\ lock[i] = NoThread
      /\ UNCHANGED <<regVars, instances, mapWriter, status, owner, poisoned,
                     functions, guard, rawConn, query, load, budget>>
  BY DEF IInv, LockInstance, CallInv, Referenced, CallHolds
<1>2. CASE Goto(t, "drop") /\ UNCHANGED lock
  <2>1. CallStep(t, "drop", call[t].fn, i, call[t].saved)
    BY <1>2, CallGoto DEF IInv, CallPc
  <2> QED
    BY <1>1, <1>2, <2>1, CallMovesIInv DEF instVars
<1>3. CASE Goto(t, "guest") /\ lock' = [lock EXCEPT ![i] = t]
  <2>1. CallStep(t, "guest", call[t].fn, i, call[t].saved)
    BY <1>3, CallGoto DEF IInv, CallPc
  <2>2. /\ lock' \in [Instances -> Threads \cup {NoThread}]
        /\ \A j \in Instances : j # i => lock'[j] = lock[j]
        /\ lock'[i] = t
    BY <1>1, <1>3 DEF IInv, TypeOK
  <2>3. TypeOK'
    BY <1>1, <2>1, <2>2 DEF IInv, TypeOK, CallStep, regVars
  <2>4. CallInv' /\ QueryInv'
    BY <1>1, <2>1 DEF IInv, CallInv, QueryInv, CallStep, regVars
  <2>5. \A j \in Instances : Referenced(j)' => Referenced(j)
    BY <1>1, <2>1 DEF Referenced, LoadHolds, CallHolds, CallStep
  <2>6. ReferencedLive'
    BY <1>1, <2>5 DEF IInv, ReferencedLive
  <2>7. LockInv'
    BY <1>1, <2>1, <2>2, NoThreadAssumption DEF IInv, LockInv, CallStep
  <2>8. LoadInv' /\ LoadsApart' /\ MapWriterInv' /\ OwnerInv'
    BY <1>1 DEF IInv, LoadInv, LoadsApart, MapWriterInv, OwnerInv
  <2> QED
    BY <2>3, <2>4, <2>6, <2>7, <2>8 DEF IInv
<1> QED
  BY <1>2, <1>3 DEF LockInstance

\* The guest's call ends, in a value, an error or a panic.
LEMMA UnlocksIInv ==
  ASSUME IInv, NEW t \in Threads, TypeOK',
         call[t].pc = "guest", Goto(t, "drop"),
         lock' = [lock EXCEPT ![call[t].inst] = NoThread],
         UNCHANGED <<regVars, instances, mapWriter, status, owner, functions,
                     guard, rawConn, query, load>>
  PROVE  IInv'
<1> DEFINE i == call[t].inst
<1>1. CallStep(t, "drop", call[t].fn, i, call[t].saved)
  BY CallGoto DEF IInv, CallPc
<1>2. /\ i \in Instances
      /\ \A j \in Instances : j # i => lock'[j] = lock[j]
      /\ lock'[i] = NoThread /\ lock[i] = t
  BY DEF IInv, TypeOK, CallInv, LockInv
<1>3. CallInv' /\ QueryInv'
  BY <1>1, <1>2 DEF IInv, CallInv, QueryInv, CallStep, regVars
<1>4. \A j \in Instances : Referenced(j)' => Referenced(j)
  BY <1>1 DEF Referenced, LoadHolds, CallHolds, CallStep
<1>5. ReferencedLive'
  BY <1>4 DEF IInv, ReferencedLive
<1>6. LockInv'
  BY <1>1, <1>2, NoThreadAssumption DEF IInv, LockInv, CallStep
<1>7. LoadInv' /\ LoadsApart' /\ MapWriterInv' /\ OwnerInv'
  BY DEF IInv, LoadInv, LoadsApart, MapWriterInv, OwnerInv
<1> QED
  BY <1>3, <1>5, <1>6, <1>7 DEF IInv

LEMMA GuestReturnsIInv ==
  ASSUME IInv, NEW t \in Threads, GuestReturns(t)
  PROVE  IInv'
<1>1. CallStep(t, "drop", call[t].fn, call[t].inst, call[t].saved)
  BY CallGoto DEF IInv, CallPc, GuestReturns
<1>2. lock' \in [Instances -> Threads \cup {NoThread}]
  BY DEF IInv, TypeOK, GuestReturns
<1>3. TypeOK'
  BY <1>1, <1>2 DEF IInv, TypeOK, GuestReturns, CallStep, regVars
<1> QED
  BY <1>3, UnlocksIInv DEF GuestReturns

LEMMA HostPanicsIInv ==
  ASSUME IInv, NEW t \in Threads, HostPanics(t)
  PROVE  IInv'
<1>1. CallStep(t, "drop", call[t].fn, call[t].inst, call[t].saved)
  BY CallGoto DEF IInv, CallPc, HostPanics
<1>2. /\ lock' \in [Instances -> Threads \cup {NoThread}]
      /\ poisoned' \in [Instances -> BOOLEAN]
  BY DEF IInv, TypeOK, HostPanics
<1>b. budget' \in [calls : 0 .. MaxCalls, queries : 0 .. MaxQueries,
                  panics : 0 .. MaxPanics]
  BY BoundsAssumption DEF IInv, TypeOK, HostPanics
<1>3. TypeOK'
  BY <1>1, <1>2, <1>b DEF IInv, TypeOK, HostPanics, CallStep, regVars
<1> QED
  BY <1>3, UnlocksIInv DEF HostPanics

LEMMA DropArcIInv ==
  ASSUME IInv, NEW t \in Threads, DropArc(t)
  PROVE  IInv'
<1>1. PICK i \in Instances :
        /\ i = call[t].inst
        /\ \/ /\ Goto(t, "shutdown")
              /\ ~Referenced(i)'
              /\ status' = [status EXCEPT ![i] = "shutdown"]
           \/ /\ Goto(t, "return")
              /\ Referenced(i)'
              /\ UNCHANGED status
  BY DEF DropArc
<1>2. /\ call[t].pc = "drop" /\ Referenced(i)
      /\ UNCHANGED <<regVars, instances, mapWriter, owner, lock, poisoned,
                     functions, guard, rawConn, query, load, budget>>
  BY <1>1 DEF DropArc, Referenced, CallHolds
<1>3. CASE /\ Goto(t, "shutdown")
           /\ ~Referenced(i)'
           /\ status' = [status EXCEPT ![i] = "shutdown"]
  <2>1. CallStep(t, "shutdown", call[t].fn, i, call[t].saved)
    BY <1>1, <1>3, CallGoto DEF IInv, CallPc
  <2>2. /\ status[i] = "live"
        /\ status' \in [Instances -> Status]
        /\ \A j \in Instances : j # i => status'[j] = status[j]
        /\ status'[i] = "shutdown"
    BY <1>2, <1>3, RetireStatus
  <2>3. TypeOK'
    BY <1>2, <2>1, <2>2 DEF IInv, TypeOK, CallStep, regVars
  <2>4. \A u \in Threads : load[u].inst = i =>
           load[u].pc \notin {"unlock_map", "drop_prev", "shutdown_prev",
                              "link", "drop_own"}
    BY <1>2, <1>3 DEF Referenced, LoadHolds
  <2>5. LoadInv' /\ LoadsApart'
    BY <1>2, <2>2, <2>4 DEF IInv, LoadInv, LoadsApart
  <2>6. CallInv' /\ QueryInv'
    BY <1>2, <2>1, <2>2 DEF IInv, CallInv, QueryInv, CallStep, regVars
  <2>7. \A j \in Instances : Referenced(j)' => Referenced(j)
    BY <1>2, <2>1 DEF Referenced, LoadHolds, CallHolds, CallStep
  <2>8. ReferencedLive'
    BY <1>3, <2>2, <2>7 DEF IInv, ReferencedLive
  <2>9. LockInv' /\ MapWriterInv' /\ OwnerInv'
    BY <1>2, <2>1, <2>2
    DEF IInv, LockInv, MapWriterInv, OwnerInv, CallStep
  <2> QED
    BY <2>3, <2>5, <2>6, <2>8, <2>9 DEF IInv
<1>4. CASE Goto(t, "return") /\ UNCHANGED status
  <2>1. CallStep(t, "return", call[t].fn, i, call[t].saved)
    BY <1>1, <1>4, CallGoto DEF IInv, CallPc
  <2> QED
    BY <1>2, <1>4, <2>1, CallMovesIInv DEF instVars
<1> QED
  BY <1>1, <1>3, <1>4

LEMMA ShutdownEndsIInv ==
  ASSUME IInv, NEW t \in Threads, ShutdownEnds(t)
  PROVE  IInv'
<1> DEFINE i == call[t].inst
<1>1. /\ call[t].pc = "shutdown" /\ i \in Instances
      /\ status[i] \in {"shutdown", "gone"}
      /\ UNCHANGED <<regVars, instances, mapWriter, owner, lock, poisoned,
                     functions, guard, rawConn, query, load, budget>>
  BY DEF IInv, ShutdownEnds, CallInv
<1>2. CallStep(t, "return", call[t].fn, i, call[t].saved)
  BY CallGoto DEF IInv, CallPc, ShutdownEnds
<1>3. /\ ~Referenced(i)
      /\ status' \in [Instances -> Status]
      /\ \A j \in Instances : j # i => status'[j] = status[j]
      /\ status'[i] = "gone"
  BY <1>1, RetiredStatus DEF ShutdownEnds
<1>4. TypeOK'
  BY <1>1, <1>2, <1>3 DEF IInv, TypeOK, CallStep, regVars
<1>5. LoadInv' /\ LoadsApart'
  BY <1>1, <1>3 DEF IInv, LoadInv, LoadsApart
<1>6. CallInv' /\ QueryInv'
  BY <1>1, <1>2, <1>3 DEF IInv, CallInv, QueryInv, CallStep, regVars
<1>7. \A j \in Instances : Referenced(j)' => Referenced(j)
  BY <1>1, <1>2 DEF Referenced, LoadHolds, CallHolds, CallStep
<1>8. ReferencedLive'
  BY <1>3, <1>7 DEF IInv, ReferencedLive
<1>9. LockInv' /\ MapWriterInv' /\ OwnerInv'
  BY <1>1, <1>2, <1>3 DEF IInv, LockInv, MapWriterInv, OwnerInv, CallStep
<1> QED
  BY <1>4, <1>5, <1>6, <1>8, <1>9 DEF IInv

\* Every step preserves IInv.
LEMMA NextIInv == ASSUME IInv, [Next]_vars PROVE IInv'
<1>1. CASE UNCHANGED vars
  <2>1. TypeOK' /\ CallInv' /\ ReferencedLive'
    BY <1>1 DEF IInv, vars, TypeOK, CallInv, ReferencedLive, Referenced,
                LoadHolds, CallHolds
  <2> QED
    BY <1>1, <2>1
    DEF IInv, vars, LoadInv, LoadsApart, QueryInv, LockInv, MapWriterInv,
        OwnerInv
<1>2. ASSUME NEW t \in Threads, Progress(t) PROVE IInv'
  BY <1>2, QueryRunsIInv, QueryEndsIInv, GuestLoadReturnsIInv, InsertIInv,
     UnlockMapIInv, DropPrevIInv, ShutdownPrevEndsIInv, LinkInstanceIInv,
     DropOwnIInv, ShutdownOwnEndsIInv, ResolveIInv, FallbackIInv,
     LockInstanceIInv, GuestReturnsIInv, DropArcIInv, ShutdownEndsIInv,
     EndCallIInv
  DEF Progress
<1>3. ASSUME NEW t \in Threads, GuestStep(t) PROVE IInv'
  BY <1>3, GuestAllocateIInv, GuestReleaseIInv, GuestRegisterIInv,
     GuestRegisterRawIInv, GuestQueryIInv
  DEF GuestStep
<1>4. ASSUME NEW t \in Threads, GuestLoadFails(t) \/ HostPanics(t) PROVE IInv'
  BY <1>4, GuestLoadFailsIInv, HostPanicsIInv
<1>5. ASSUME NEW t \in Threads, NEW e \in Extensions, BeginLoad(t, e)
      PROVE  IInv'
  BY <1>5, BeginLoadIInv
<1>6. ASSUME NEW t \in Threads, NEW fn \in functions, BeginCall(t, fn)
      PROVE  IInv'
  BY <1>6, BeginCallIInv
<1> QED
  BY <1>1, <1>2, <1>3, <1>4, <1>5, <1>6 DEF Next, AtRest

THEOREM IInvariant == Spec => []IInv
<1>1. Init => IInv
  BY InitIInv
<1>2. IInv /\ [Next]_vars => IInv'
  BY NextIInv
<1> QED
  BY <1>1, <1>2, PTL DEF Spec
-----------------------------------------------------------------------------
(* Safety *)

\* Every variable of the engine keeps its type, for any number of threads,
\* instances and handles, whatever the interleaving of loads and dispatches.
THEOREM TypeCorrect == Spec => []TypeOK
<1>1. IInv => TypeOK
  BY DEF IInv
<1> QED
  BY <1>1, IInvariant, PTL

\* The Arc a dispatch clones keeps its instance alive to the end of the call:
\* no load that replaces it meanwhile makes its shutdown run under the call.
THEOREM DispatchesServedLive == Spec => []ServedWhileLive
<1>1. IInv => ServedWhileLive
  BY DEF IInv, ServedWhileLive, CallInv, ReferencedLive, Referenced, CallHolds
<1> QED
  BY <1>1, IInvariant, PTL

\* A guest's shutdown runs with nobody left to reach its instance and with no
\* lock of the engine held by its thread.
THEOREM ShutdownsUnreachable == Spec => []ShutdownUnreachable
<1>1. ASSUME IInv, NEW i \in Instances, status[i] \in {"shutdown", "gone"}
      PROVE  /\ ~Referenced(i)
             /\ lock[i] = NoThread
             /\ \A t \in Threads :
                  InGuest(t, i) =>
                      mapWriter # t /\ \A j \in Instances : lock[j] # t
  <2>1. ~Referenced(i)
    BY <1>1 DEF IInv, ReferencedLive
  <2>2. lock[i] = NoThread
    BY <1>1, <2>1 DEF IInv, TypeOK, LockInv, Referenced, CallHolds
  <2>3. ASSUME NEW t \in Threads, InGuest(t, i)
        PROVE  mapWriter # t /\ \A j \in Instances : lock[j] # t
    <3>1. call[t].pc # "guest"
      BY <1>1, <2>1, <2>3 DEF InGuest, LoadOnTop, Referenced, CallHolds
    <3>2. load[t].pc # "unlock_map"
      BY <1>1, <2>3 DEF IInv, InGuest, LoadOnTop, CallInv, QueryInv
    <3> QED
      BY <1>1, <3>1, <3>2 DEF IInv, LockInv, MapWriterInv
  <2> QED
    BY <2>1, <2>2, <2>3
<1>2. IInv => ShutdownUnreachable
  BY <1>1 DEF ShutdownUnreachable
<1> QED
  BY <1>2, IInvariant, PTL

-----------------------------------------------------------------------------
(* The order of the locks *)

\* The frames' steps leave the connection and the queries alone.
LEMMA ConnKept ==
  ASSUME NEW t \in Threads,
         \/ GuestLoadReturns(t) \/ Insert(t) \/ UnlockMap(t) \/ DropPrev(t)
         \/ ShutdownPrevEnds(t) \/ LinkInstance(t) \/ DropOwn(t)
         \/ ShutdownOwnEnds(t) \/ GuestLoadFails(t)
         \/ Resolve(t) \/ Fallback(t) \/ LockInstance(t) \/ GuestReturns(t)
         \/ HostPanics(t) \/ DropArc(t) \/ ShutdownEnds(t) \/ EndCall(t)
  PROVE  UNCHANGED <<rawConn, query>>
BY DEF GuestLoadReturns, Insert, UnlockMap, DropPrev, ShutdownPrevEnds,
       LinkInstance, DropOwn, ShutdownOwnEnds, GuestLoadFails, Resolve,
       Fallback, LockInstance, GuestReturns, HostPanics, DropArc,
       ShutdownEnds, EndCall

LEMMA NextConn == ASSUME IInv, ConnInv, [Next]_vars PROVE ConnInv'
<1> USE DEF ConnInv
<1>1. ASSUME UNCHANGED <<rawConn, query>> PROVE ConnInv'
  BY <1>1
<1>2. ASSUME NEW t \in Threads, NEW i \in Instances, GuestQuery(t, i)
      PROVE  ConnInv'
  BY <1>2, InGuestFacts DEF GuestQuery, TypeOK, IInv
<1>3. ASSUME NEW t \in Threads, QueryRuns(t) PROVE ConnInv'
  BY <1>3, NoThreadAssumption DEF QueryRuns, IInv, TypeOK
<1>4. ASSUME NEW t \in Threads, QueryEnds(t) PROVE ConnInv'
  BY <1>4, NoThreadAssumption DEF QueryEnds, IInv, TypeOK
<1>5. ASSUME NEW t \in Threads, GuestStep(t) PROVE ConnInv'
  BY <1>1, <1>2, <1>5
  DEF GuestStep, GuestAllocate, GuestRelease, GuestRegister, GuestRegisterRaw
<1>6. ASSUME NEW t \in Threads,
             \/ \E e \in Extensions : BeginLoad(t, e)
             \/ \E fn \in functions : BeginCall(t, fn)
      PROVE  ConnInv'
  BY <1>1, <1>6 DEF BeginLoad, BeginCall
<1>7. CASE AtRest \/ UNCHANGED vars
  BY <1>1, <1>7 DEF AtRest, vars
<1> QED
  BY <1>1, <1>3, <1>4, <1>5, <1>6, <1>7, ConnKept DEF Next, Progress

\* Whoever holds a lock asks for none, or for a later one.
LEMMA HoldersAhead == ASSUME IInv, ConnInv PROVE LocksOrdered
<1> SUFFICES ASSUME NEW t \in Threads, NEW u \in Threads, WaitsFor(t, u)
             PROVE  Level(t) < Level(u)
  BY DEF LocksOrdered
<1>1. CASE query[t] = "waiting" /\ rawConn = u
  <2>1. query[u] = "running"
    BY <1>1 DEF ConnInv
  <2> QED
    BY <1>1, <2>1 DEF Level
<1>2. CASE call[t].pc = "lock" /\ lock[call[t].inst] = u
  <2>1. call[t].inst \in Instances /\ query[t] # "waiting"
    BY <1>2 DEF IInv, CallInv, QueryInv
  <2>2. call[u].pc = "guest" /\ query[u] # "waiting"
    BY <1>2, <2>1 DEF IInv, LockInv, QueryInv
  <2> QED
    BY <1>2, <2>1, <2>2 DEF Level
<1>3. CASE /\ load[t].pc = "link" \/ \E i \in Instances : InGuest(t, i)
           /\ call[u].pc = "fallback"
  <2>1. Level(t) \in {1, 2, 3}
    BY <1>3 DEF Level
  <2>2. /\ query[u] # "waiting" /\ load[u].pc # "link"
        /\ \A i \in Instances : ~InGuest(u, i)
    BY <1>3 DEF IInv, CallInv, QueryInv, InGuest, LoadOnTop
  <2>3. Level(u) = 4
    BY <1>3, <2>2 DEF Level
  <2> QED
    BY <2>1, <2>3
<1>4. CASE (load[t].pc = "insert" \/ call[t].pc = "fallback") /\ mapWriter = u
  <2>1. Level(t) \in 1 .. 4
    BY <1>4 DEF Level
  <2>2. load[u].pc = "unlock_map" /\ query[u] = "none" /\ call[u].pc = "idle"
    BY <1>4 DEF IInv, MapWriterInv, QueryInv, CallInv
  <2>3. \A i \in Instances : ~InGuest(u, i)
    BY <2>2 DEF InGuest
  <2>4. Level(u) = 5
    BY <2>2, <2>3 DEF Level
  <2> QED
    BY <2>1, <2>4
<1> QED
  BY <1>1, <1>2, <1>3, <1>4 DEF WaitsFor

\* Of any threads, one that asks for the latest lock waits for none of them.
LEMMA OrderedNoCircle == ASSUME LocksOrdered PROVE NoCircularWait
<1> SUFFICES ASSUME NEW S \in SUBSET Threads, S # {}
             PROVE  \E t \in S : \A u \in S : ~WaitsFor(t, u)
  BY DEF NoCircularWait
<1>1. \A t \in S : Level(t) \in 1 .. 5
  BY DEF Level
<1>2. PICK t \in S : \A u \in S : Level(u) =< Level(t)
  <2>1. \/ \E t \in S : Level(t) = 5
        \/ \E t \in S : Level(t) = 4 /\ \A u \in S : Level(u) # 5
        \/ \E t \in S : Level(t) = 3 /\ \A u \in S : Level(u) \notin {4, 5}
        \/ \E t \in S : Level(t) = 2 /\ \A u \in S : Level(u) \notin 3 .. 5
        \/ \E t \in S : Level(t) = 1 /\ \A u \in S : Level(u) \notin 2 .. 5
    BY <1>1
  <2> QED
    BY <1>1, <2>1
<1>3. ASSUME NEW u \in S PROVE ~WaitsFor(t, u)
  <2>1. Level(u) =< Level(t) /\ Level(u) \in 1 .. 5 /\ Level(t) \in 1 .. 5
    BY <1>1, <1>2
  <2> QED
    BY <2>1 DEF LocksOrdered
<1> QED
  BY <1>3

\* The comment of NativeServices::query: a query from inside a dispatch would
\* deadlock on the connection, so it is refused.  With that, and load's care to
\* drop the previous Arc and to link after the map's lock is released, threads
\* never wait in a circle for the connection, an instance, the registry and the
\* map.
THEOREM NobodyWaitsInACircle == Spec => []NoCircularWait
<1>1. Init => ConnInv
  BY NoThreadAssumption DEF Init, ConnInv
<1>2. IInv /\ ConnInv /\ [Next]_vars => ConnInv'
  BY NextConn
<1>3. IInv /\ ConnInv => NoCircularWait
  BY HoldersAhead, OrderedNoCircle
<1> QED
  BY <1>1, <1>2, <1>3, IInvariant, PTL DEF Spec

\* A handle once given out names one callback for good, or nothing.
THEOREM HandlesStable == Spec => HandlesNeverRebind
<1> DEFINE Kept ==
      /\ nextHandle <= nextHandle'
      /\ \A h \in Handles :
           h < nextHandle =>
              \/ entries'[h] = NoEntry
              \/ /\ entries[h] # NoEntry
                 /\ entries'[h].extension = entries[h].extension
                 /\ entries'[h].dispatcher = entries[h].dispatcher
<1>1. ASSUME TypeOK, [Next]_vars PROVE [Kept]_vars
  <2>1. ASSUME UNCHANGED <<nextHandle, entries>> PROVE Kept
    BY <1>1, <2>1 DEF TypeOK, Handles
  <2>2. ASSUME NEW t \in Threads, Progress(t) PROVE Kept
    <3>1. CASE LinkInstance(t)
      BY <1>1, <3>1 DEF LinkInstance, Link, TypeOK, Entry, Handles
    <3>2. CASE UNCHANGED <<nextHandle, entries>>
      BY <2>1, <3>2
    <3> QED
      BY <2>2, <3>1, <3>2
      DEF Progress, QueryRuns, QueryEnds, GuestLoadReturns, Insert, UnlockMap,
          DropPrev, ShutdownPrevEnds, DropOwn, ShutdownOwnEnds, Resolve,
          Fallback, LockInstance, GuestReturns, DropArc, ShutdownEnds, EndCall,
          regVars
  <2>3. ASSUME NEW t \in Threads, GuestStep(t) PROVE Kept
    <3>1. CASE \E i \in Instances : GuestAllocate(t, i)
      BY <1>1, <3>1, MaxHandleAssumption
      DEF GuestAllocate, Allocate, NextHandle, TypeOK, Handles
    <3>2. CASE \E i \in Instances, h \in Handles : GuestRelease(t, i, h)
      BY <1>1, <3>2 DEF GuestRelease, Remove, TypeOK, Handles
    <3>3. CASE UNCHANGED <<nextHandle, entries>>
      BY <2>1, <3>3
    <3> QED
      BY <2>3, <3>1, <3>2, <3>3
      DEF GuestStep, GuestRegister, GuestRegisterRaw, GuestQuery, regVars
  <2>4. ASSUME NEW t \in Threads,
               \/ GuestLoadFails(t) \/ HostPanics(t)
               \/ \E e \in Extensions : BeginLoad(t, e)
               \/ \E fn \in functions : BeginCall(t, fn)
        PROVE  Kept
    BY <2>1, <2>4
    DEF GuestLoadFails, HostPanics, BeginLoad, BeginCall, regVars
  <2> QED
    BY <1>1, <2>2, <2>3, <2>4 DEF Next, AtRest
<1> QED
  BY <1>1, TypeCorrect, PTL DEF Spec, HandlesNeverRebind

-----------------------------------------------------------------------------
(* The engine implements InstanceLifecycle *)

\* Steps that InstanceLifecycle cannot see.
LEMMA LifecycleStutters ==
  ASSUME UNCHANGED <<instances, lock>>,
         \A i \in Instances : Phase'[i] = Phase[i]
  PROVE  UNCHANGED Lifecycle!vars
BY DEF Lifecycle!vars, Phase

\* Dropping the last Arc of an instance is Retire.
LEMMA RetireImplemented ==
  ASSUME IInv, IInv', NEW i \in Instances, Referenced(i), ~Referenced(i)',
         status' = [status EXCEPT ![i] = "shutdown"],
         UNCHANGED <<instances, lock>>
  PROVE  Lifecycle!Retire(i)
<1>1. status[i] = "live" /\ status'[i] = "shutdown"
  BY RetireStatus
<1>2. lock[i] = NoThread
  BY SMTT(30) DEF IInv, TypeOK, LockInv, Referenced, CallHolds
<1>3. \A e \in Extensions : instances[e] # i
  BY DEF Referenced
<1>4. Phase' = [Phase EXCEPT ![i] = "retiring"]
  BY <1>1, RetireStatus DEF Phase
<1> QED
  BY <1>1, <1>2, <1>3, <1>4 DEF Lifecycle!Retire, Phase

\* The end of the guest's shutdown is Retired.
LEMMA RetiredImplemented ==
  ASSUME IInv, NEW i \in Instances, status[i] \in {"shutdown", "gone"},
         status' = [status EXCEPT ![i] = "gone"],
         UNCHANGED <<instances, lock>>
  PROVE  Lifecycle!Retired(i) \/ UNCHANGED Lifecycle!vars
<1>1. Phase' = [Phase EXCEPT ![i] = "retired"]
  BY RetiredStatus DEF Phase
<1>2. CASE status[i] = "shutdown"
  BY <1>1, <1>2 DEF Lifecycle!Retired, Phase
<1>3. CASE status[i] = "gone"
  BY <1>1, <1>3, LifecycleStutters DEF Phase
<1> QED
  BY <1>2, <1>3
\* Every step of the engine is one of the lifecycle or is invisible to it.
LEMMA NextImplements ==
  ASSUME IInv, IInv', [Next]_vars
  PROVE  [Lifecycle!Next]_(Lifecycle!vars)
<1> DEFINE Goal == [Lifecycle!Next]_(Lifecycle!vars)
<1>1. ASSUME UNCHANGED <<instances, lock, status>> PROVE Goal
  BY <1>1, LifecycleStutters DEF Phase
<1>2. ASSUME NEW i \in Instances,
             \/ \E e \in Extensions : Lifecycle!Publish(e, i)
             \/ \E t \in Threads : Lifecycle!Serve(t, i) \/ Lifecycle!Served(t, i)
             \/ Lifecycle!Retire(i)
             \/ Lifecycle!Retired(i)
             \/ UNCHANGED Lifecycle!vars
      PROVE  Goal
  BY <1>2 DEF Lifecycle!Next
<1>3. ASSUME NEW t \in Threads, Insert(t) PROVE Goal
  <2> DEFINE i == load[t].inst
  <2>1. /\ i \in Instances /\ status[i] = "loading" /\ owner[i] \in Extensions
        /\ status' = [status EXCEPT ![i] = "live"]
        /\ instances' = [instances EXCEPT ![owner[i]] = i]
        /\ UNCHANGED lock
    BY <1>3 DEF IInv, Insert, LoadInv, OwnerInv
  <2>2. Phase' = [Phase EXCEPT ![i] = "active"]
    BY <2>1 DEF IInv, TypeOK, Phase
  <2>3. Lifecycle!Publish(owner[i], i)
    BY <2>1, <2>2 DEF Lifecycle!Publish, Phase
  <2> QED
    BY <1>2, <2>1, <2>3
<1>4. ASSUME NEW t \in Threads, LockInstance(t) PROVE Goal
  <2> DEFINE i == call[t].inst
  <2>1. /\ i \in Instances /\ status[i] = "live" /\ lock[i] = NoThread
        /\ UNCHANGED <<instances, status>>
    BY <1>4 DEF IInv, LockInstance, CallInv, ReferencedLive, Referenced,
                CallHolds
  <2>2. CASE lock' = [lock EXCEPT ![i] = t]
    <3>1. Lifecycle!Serve(t, i)
      BY <2>1, <2>2 DEF Lifecycle!Serve, Phase
    <3> QED
      BY <1>2, <2>1, <3>1
  <2>3. CASE UNCHANGED lock
    BY <1>1, <2>1, <2>3
  <2> QED
    BY <1>4, <2>2, <2>3 DEF LockInstance
<1>5. ASSUME NEW t \in Threads, GuestReturns(t) \/ HostPanics(t) PROVE Goal
  <2> DEFINE i == call[t].inst
  <2>1. /\ i \in Instances /\ lock[i] = t
        /\ lock' = [lock EXCEPT ![i] = NoThread]
        /\ UNCHANGED <<instances, status>>
    BY <1>5 DEF IInv, GuestReturns, HostPanics, CallInv, LockInv
  <2>2. Lifecycle!Served(t, i)
    BY <2>1 DEF Lifecycle!Served, Phase
  <2> QED
    BY <1>2, <2>1, <2>2
<1>6. ASSUME NEW t \in Threads, DropPrev(t) PROVE Goal
  <2>1. PICK p \in OptInstance :
          /\ p = load[t].prev
          /\ \/ /\ p # NoInstance
                /\ ~Referenced(p)'
                /\ status' = [status EXCEPT ![p] = "shutdown"]
             \/ UNCHANGED status
    BY <1>6 DEF DropPrev
  <2>2. UNCHANGED <<instances, lock>> /\ load[t].pc = "drop_prev"
    BY <1>6 DEF DropPrev
  <2>3. ASSUME p \in Instances, ~Referenced(p)',
               status' = [status EXCEPT ![p] = "shutdown"]
        PROVE  Goal
    BY <1>2, <2>1, <2>2, <2>3, RetireImplemented DEF Referenced, LoadHolds
  <2> QED
    BY <1>1, <2>1, <2>2, <2>3 DEF OptInstance
<1>7. ASSUME NEW t \in Threads, DropOwn(t) PROVE Goal
  <2>1. PICK i \in Instances :
          /\ i = load[t].inst
          /\ \/ /\ ~Referenced(i)'
                /\ status' = [status EXCEPT ![i] = "shutdown"]
             \/ UNCHANGED status
    BY <1>7 DEF DropOwn
  <2>2. UNCHANGED <<instances, lock>> /\ load[t].pc = "drop_own"
    BY <1>7 DEF DropOwn
  <2>3. ASSUME ~Referenced(i)', status' = [status EXCEPT ![i] = "shutdown"]
        PROVE  Goal
    BY <1>2, <2>1, <2>2, <2>3, RetireImplemented DEF Referenced, LoadHolds
  <2> QED
    BY <1>1, <2>1, <2>2, <2>3
<1>8. ASSUME NEW t \in Threads, DropArc(t) PROVE Goal
  <2>1. PICK i \in Instances :
          /\ i = call[t].inst
          /\ \/ /\ ~Referenced(i)'
                /\ status' = [status EXCEPT ![i] = "shutdown"]
             \/ UNCHANGED status
    BY <1>8 DEF DropArc
  <2>2. UNCHANGED <<instances, lock>> /\ call[t].pc = "drop"
    BY <1>8 DEF DropArc
  <2>3. ASSUME ~Referenced(i)', status' = [status EXCEPT ![i] = "shutdown"]
        PROVE  Goal
    BY <1>2, <2>1, <2>2, <2>3, RetireImplemented DEF Referenced, CallHolds
  <2> QED
    BY <1>1, <2>1, <2>2, <2>3
<1>9. ASSUME NEW t \in Threads,
             ShutdownPrevEnds(t) \/ ShutdownOwnEnds(t) \/ ShutdownEnds(t)
      PROVE  Goal
  <2>1. PICK i \in Instances :
          /\ status[i] \in {"shutdown", "gone"}
          /\ status' = [status EXCEPT ![i] = "gone"]
    BY <1>9 DEF IInv, ShutdownPrevEnds, ShutdownOwnEnds, ShutdownEnds, LoadInv,
                CallInv
  <2>2. UNCHANGED <<instances, lock>>
    BY <1>9 DEF ShutdownPrevEnds, ShutdownOwnEnds, ShutdownEnds
  <2> QED
    BY <1>2, <2>1, <2>2, RetiredImplemented
<1>10. ASSUME NEW t \in Threads, NEW e \in Extensions, BeginLoad(t, e)
       PROVE  Goal
  <2>1. PICK i \in Instances : /\ status[i] = "unused"
                               /\ status' = [status EXCEPT ![i] = "loading"]
    BY <1>10 DEF BeginLoad
  <2>2. \A j \in Instances : Phase'[j] = Phase[j]
    BY <2>1 DEF IInv, TypeOK, Phase
  <2> QED
    BY <1>10, <2>2, LifecycleStutters DEF BeginLoad
<1>11. ASSUME NEW t \in Threads, GuestLoadFails(t) PROVE Goal
  <2> DEFINE i == load[t].inst
  <2>1. /\ i \in Instances /\ status[i] = "loading"
        /\ status' = [status EXCEPT ![i] = "failed"]
    BY <1>11 DEF IInv, GuestLoadFails, LoadInv
  <2>2. \A j \in Instances : Phase'[j] = Phase[j]
    BY <2>1 DEF IInv, TypeOK, Phase
  <2> QED
    BY <1>11, <2>2, LifecycleStutters DEF GuestLoadFails
<1>12. ASSUME NEW t \in Threads, Progress(t) PROVE Goal
  <2>1. CASE UNCHANGED <<instances, lock, status>>
    BY <1>1, <2>1
  <2> QED
    BY <1>3, <1>4, <1>5, <1>6, <1>7, <1>8, <1>9, <1>12, <2>1
    DEF Progress, QueryRuns, QueryEnds, GuestLoadReturns, UnlockMap,
        LinkInstance, Resolve, Fallback, EndCall, instVars
<1>13. ASSUME NEW t \in Threads,
              GuestStep(t) \/ \E fn \in functions : BeginCall(t, fn)
       PROVE  Goal
  BY <1>1, <1>13
  DEF GuestStep, GuestAllocate, GuestRelease, GuestRegister, GuestRegisterRaw,
      GuestQuery, BeginCall, instVars
<1> QED
  BY <1>1, <1>5, <1>10, <1>11, <1>12, <1>13 DEF Next, AtRest, vars

\* The mutexes, the Arcs and the map together give every instance the life
\* InstanceLifecycle describes.
THEOREM EngineImplementsLifecycle == Spec => ImplementsLifecycle
<1>1. Init => Lifecycle!Init
  BY DEF Init, Lifecycle!Init, Phase
<1>2. IInv /\ IInv' /\ [Next]_vars => [Lifecycle!Next]_(Lifecycle!vars)
  BY NextImplements
<1> QED
  BY <1>1, <1>2, IInvariant, PTL DEF Spec, ImplementsLifecycle, Lifecycle!Spec

-----------------------------------------------------------------------------
(* Which component a call reaches.  RInv (EngineInv) is inductive when every *)
(* surface registers through a callback resource (RawHandles = {}).          *)

LEMMA InitRInv == ASSUME Init PROVE RInv
BY DEF Init, RInv, SlotInv, GuestInv, CapturedInv, FunctionInv, RoutingInv,
       NewEntries, NotLoading, NotCalling

\* An instance keeps the extension it was loaded as.
LEMMA OwnersStay ==
  ASSUME IInv, [Next]_vars, NEW i \in Instances, status[i] # "unused"
  PROVE  status'[i] # "unused" /\ owner'[i] = owner[i]
<1> DEFINE Goal == status'[i] # "unused" /\ owner'[i] = owner[i]
<1>1. ASSUME UNCHANGED <<status, owner>> PROVE Goal
  BY <1>1
<1>2. ASSUME UNCHANGED owner, NEW j, NEW s, s # "unused",
             status' = [status EXCEPT ![j] = s]
      PROVE  Goal
  BY <1>2 DEF IInv, TypeOK
<1>3. ASSUME NEW t \in Threads, Progress(t) PROVE Goal
  <2>1. CASE Insert(t) \/ ShutdownPrevEnds(t) \/ ShutdownOwnEnds(t)
               \/ ShutdownEnds(t)
    BY <1>2, <2>1 DEF Insert, ShutdownPrevEnds, ShutdownOwnEnds, ShutdownEnds
  <2>2. CASE DropPrev(t) \/ DropOwn(t) \/ DropArc(t)
    BY <1>1, <1>2, <2>2, SMTT(30) DEF DropPrev, DropOwn, DropArc
  <2>3. CASE UNCHANGED <<status, owner>>
    BY <1>1, <2>3
  <2> QED
    BY <1>3, <2>1, <2>2, <2>3
    DEF Progress, QueryRuns, QueryEnds, GuestLoadReturns, UnlockMap,
        LinkInstance, Resolve, Fallback, LockInstance, GuestReturns, EndCall,
        instVars
<1>4. ASSUME NEW t \in Threads, GuestStep(t) PROVE Goal
  BY <1>1, <1>4
  DEF GuestStep, GuestAllocate, GuestRelease, GuestRegister, GuestRegisterRaw,
      GuestQuery, instVars
<1>5. ASSUME NEW t \in Threads, NEW e \in Extensions, BeginLoad(t, e)
      PROVE  Goal
  BY <1>5 DEF BeginLoad, IInv, TypeOK
<1>6. ASSUME NEW t \in Threads, GuestLoadFails(t) PROVE Goal
  BY <1>2, <1>6 DEF GuestLoadFails
<1>7. ASSUME NEW t \in Threads,
             HostPanics(t) \/ \E fn \in functions : BeginCall(t, fn)
      PROVE  Goal
  BY <1>1, <1>7 DEF HostPanics, BeginCall, instVars
<1> QED
  BY <1>1, <1>3, <1>4, <1>5, <1>6, <1>7 DEF Next, AtRest, vars

\* A frame's instance exists.
LEMMA FramesOwned ==
  ASSUME IInv, NEW t \in Threads
  PROVE  /\ load[t].pc # "idle" => /\ load[t].inst \in Instances
                                   /\ status[load[t].inst] # "unused"
                                   /\ owner[load[t].inst] \in Extensions
         /\ call[t].pc \in {"lock", "guest", "drop"} =>
               /\ call[t].inst \in Instances
               /\ status[call[t].inst] # "unused"
<1>1. load[t].pc # "idle" => /\ load[t].inst \in Instances
                             /\ status[load[t].inst] # "unused"
  BY DEF IInv, TypeOK, LoadFrame, LoadPc, LoadInv
<1>2. load[t].pc # "idle" => owner[load[t].inst] \in Extensions
  BY <1>1 DEF IInv, OwnerInv
<1>3. call[t].pc \in {"lock", "guest", "drop"} =>
         /\ call[t].inst \in Instances
         /\ status[call[t].inst] # "unused"
  BY DEF IInv, CallInv, ReferencedLive, Referenced, CallHolds
<1> QED
  BY <1>1, <1>2, <1>3

\* What guests hold are handles.
LEMMA HeldHandles ==
  ASSUME IInv, NEW i \in Instances
  PROVE  resources[i] \subseteq Handles /\ registered[i] \subseteq Handles
BY DEF IInv, TypeOK

LEMMA CapturedHandles ==
  ASSUME IInv, RInv, NEW t \in Threads, NEW h \in load[t].captured
  PROVE  /\ h \in Handles /\ load[t].inst \in Instances
         /\ load[t].pc \notin {"idle", "guest_load"}
         /\ entries[h] # NoEntry
         /\ entries[h].dispatcher = load[t].inst
         /\ h \notin resources[load[t].inst]
<1>1. load[t].captured \subseteq Handles
  BY DEF IInv, TypeOK, LoadFrame
<1> QED
  BY <1>1, FramesOwned DEF RInv, CapturedInv

\* Parts of RInv under a step that leaves the registry and the guests alone.
LEMMA SlotFrame ==
  ASSUME IInv, RInv, [Next]_vars, UNCHANGED <<nextHandle, entries>>
  PROVE  SlotInv'
BY OwnersStay DEF RInv, SlotInv, IInv, TypeOK, Entry

LEMMA GuestFrame ==
  ASSUME RInv, UNCHANGED <<entries, resources, registered>>
  PROVE  GuestInv'
BY DEF RInv, GuestInv

LEMMA FunctionFrame ==
  ASSUME RInv, UNCHANGED <<entries, resources, functions>>
  PROVE  FunctionInv'
BY DEF RInv, FunctionInv

LEMMA CapturedFrame ==
  ASSUME RInv, UNCHANGED <<entries, resources>>,
         \A t \in Threads :
            \/ load'[t].captured = {}
            \/ /\ load'[t].captured = load[t].captured
               /\ load'[t].inst = load[t].inst
               /\ load'[t].pc \notin {"idle", "guest_load"} \/ load'[t] = load[t]
  PROVE  CapturedInv'
BY DEF RInv, CapturedInv

LEMMA RoutingFrame ==
  ASSUME IInv, RInv, [Next]_vars,
         \A t \in Threads :
            call'[t].pc \in {"lock", "guest", "drop"} =>
               /\ call[t].pc \in {"lock", "guest", "drop"}
               /\ call'[t].inst = call[t].inst
               /\ call'[t].fn = call[t].fn
  PROVE  RoutingInv'
BY OwnersStay, FramesOwned DEF RInv, RoutingInv

-----------------------------------------------------------------------------
(* The steps that touch the registry or the guests' handles *)

LEMMA GuestAllocateRInv ==
  ASSUME IInv, RInv, NEW t \in Threads, NEW i \in Instances,
         GuestAllocate(t, i), [Next]_vars
  PROVE  RInv'
<1>1. /\ status[i] # "unused" /\ owner[i] \in Extensions
      /\ UNCHANGED <<instVars, registered, functions, load, call>>
  BY InGuestFacts DEF GuestAllocate
<1>2. /\ nextHandle \in Handles
      /\ entries[nextHandle] = NoEntry
      /\ nextHandle < nextHandle' /\ nextHandle' \in Nat
  BY DEF IInv, TypeOK, RInv, SlotInv, GuestAllocate, NextHandle, Handles
<1>3. /\ \A h \in Handles : h # nextHandle => entries'[h] = entries[h]
      /\ entries'[nextHandle] # NoEntry
      /\ entries'[nextHandle].extension = owner[i]
      /\ entries'[nextHandle].dispatcher = i
      /\ entries'[nextHandle].instance = NoInstance
  BY <1>1, <1>2, NoEntryAssumption
  DEF IInv, TypeOK, GuestAllocate, Allocate, Entry
<1>4. /\ \A j \in Instances : j # i => resources'[j] = resources[j]
      /\ resources'[i] = resources[i] \cup {nextHandle}
  BY DEF IInv, TypeOK, GuestAllocate
<1>5. SlotInv'
  BY <1>1, <1>2, <1>3, NoInstanceAssumption
  DEF IInv, TypeOK, RInv, SlotInv, Handles, instVars
<1>6. GuestInv'
  <2>1. ASSUME NEW j \in Instances
        PROVE  nextHandle \notin resources[j] \cup registered[j]
    BY <1>2 DEF RInv, GuestInv
  <2>2. ASSUME NEW j \in Instances, NEW h \in resources'[j] \cup registered'[j]
        PROVE  entries'[h] # NoEntry /\ entries'[h].dispatcher = j
    <3>1. CASE h = nextHandle
      BY <1>1, <1>3, <1>4, <2>1, <2>2, <3>1
    <3>2. CASE h # nextHandle
      BY <1>1, <1>3, <1>4, <2>2, <3>2, HeldHandles DEF RInv, GuestInv
    <3> QED
      BY <3>1, <3>2
  <2>3. ASSUME NEW j \in Instances
        PROVE  resources'[j] \cap registered'[j] = {}
    BY <1>1, <1>4, <2>1 DEF RInv, GuestInv
  <2> QED
    BY <2>2, <2>3 DEF GuestInv
<1>7. CapturedInv'
  <2>1. ASSUME NEW u \in Threads, NEW h \in load[u].captured
        PROVE  /\ entries'[h] # NoEntry
               /\ entries'[h].dispatcher = load[u].inst
               /\ h \notin resources'[load[u].inst]
    BY <1>2, <1>3, <1>4, <2>1, CapturedHandles
  <2> QED
    BY <1>1, <2>1 DEF RInv, CapturedInv
<1>8. FunctionInv'
  BY <1>1, <1>2, <1>3, <1>4
  DEF IInv, TypeOK, Function, RInv, FunctionInv
<1>9. RoutingInv'
  BY <1>1, RoutingFrame
<1> QED
  BY <1>5, <1>6, <1>7, <1>8, <1>9 DEF RInv

LEMMA GuestReleaseRInv ==
  ASSUME IInv, RInv, NEW t \in Threads, NEW i \in Instances,
         NEW h \in Handles, GuestRelease(t, i, h), [Next]_vars
  PROVE  RInv'
<1>1. /\ h \in resources[i]
      /\ UNCHANGED <<instVars, nextHandle, registered, functions, load, call>>
  BY DEF GuestRelease
<1>2. /\ \A g \in Handles : g # h => entries'[g] = entries[g]
      /\ entries'[h] = NoEntry
      /\ entries[h] # NoEntry /\ entries[h].dispatcher = i
  BY <1>1 DEF IInv, TypeOK, GuestRelease, Remove, RInv, GuestInv
<1>3. /\ \A j \in Instances : j # i => resources'[j] = resources[j]
      /\ resources'[i] = resources[i] \ {h}
  BY DEF IInv, TypeOK, GuestRelease
<1>4. SlotInv'
  BY <1>1, <1>2 DEF RInv, SlotInv, instVars
<1>5. GuestInv'
  BY <1>1, <1>2, <1>3 DEF IInv, TypeOK, RInv, GuestInv
<1>6. CapturedInv'
  <2> SUFFICES ASSUME NEW u \in Threads
               PROVE  /\ load[u].pc \in {"idle", "guest_load"} =>
                           load[u].captured = {}
                      /\ \A g \in load[u].captured :
                           /\ entries'[g] # NoEntry
                           /\ entries'[g].dispatcher = load[u].inst
                           /\ g \notin resources'[load[u].inst]
    BY <1>1 DEF CapturedInv
  <2>1. load[u].pc \in {"idle", "guest_load"} => load[u].captured = {}
    BY DEF RInv, CapturedInv
  <2>2. ASSUME NEW g \in load[u].captured
        PROVE  /\ entries'[g] # NoEntry
               /\ entries'[g].dispatcher = load[u].inst
               /\ g \notin resources'[load[u].inst]
    <3>1. /\ load[u].pc # "idle" /\ g \in Handles
          /\ entries[g] # NoEntry /\ entries[g].dispatcher = load[u].inst
          /\ g \notin resources[load[u].inst]
      BY <2>1 DEF RInv, CapturedInv, IInv, TypeOK, LoadFrame
    <3>2. load[u].inst \in Instances
      BY <3>1, FramesOwned
    <3>3. g # h
      BY <1>1, <1>2, <3>1
    <3> QED
      BY <1>2, <1>3, <3>1, <3>2, <3>3
  <2> QED
    BY <2>1, <2>2
<1>7. FunctionInv'
  BY <1>1, <1>2, <1>3 DEF IInv, TypeOK, Function, RInv, FunctionInv
<1>8. RoutingInv'
  BY <1>1, RoutingFrame
<1> QED
  BY <1>4, <1>5, <1>6, <1>7, <1>8 DEF RInv

LEMMA GuestRegisterRInv ==
  ASSUME IInv, RInv, NEW t \in Threads, NEW i \in Instances,
         NEW h \in Handles, GuestRegister(t, i, h), [Next]_vars
  PROVE  RInv'
<1>1. /\ h \in resources[i]
      /\ UNCHANGED <<instVars, nextHandle, entries, functions, load, call>>
  BY DEF GuestRegister
<1>2. /\ \A j \in Instances : j # i => /\ resources'[j] = resources[j]
                                       /\ registered'[j] = registered[j]
      /\ resources'[i] = resources[i] \ {h}
      /\ registered'[i] = registered[i] \cup {h}
  BY DEF IInv, TypeOK, GuestRegister
<1>3. \A j \in Instances : resources'[j] \subseteq resources[j]
  BY <1>2
<1>4. SlotInv' /\ RoutingInv'
  BY <1>1, SlotFrame, RoutingFrame
<1>5. GuestInv'
  BY <1>1, <1>2 DEF RInv, GuestInv
<1>6. CapturedInv' /\ FunctionInv'
  BY <1>1, <1>2, <1>3, FramesOwned DEF RInv, CapturedInv, FunctionInv
<1> QED
  BY <1>4, <1>5, <1>6 DEF RInv

LEMMA GuestLoadReturnsRInv ==
  ASSUME IInv, RInv, NEW t \in Threads, GuestLoadReturns(t), [Next]_vars
  PROVE  RInv'
<1> DEFINE i == load[t].inst
<1>1. /\ i \in Instances
      /\ UNCHANGED <<instVars, nextHandle, entries, resources, functions, call>>
  BY FramesOwned DEF GuestLoadReturns
<1>2. LoadStep(t, "insert", i, load[t].prev, registered[i])
  BY <1>1, LoadGotoCaptured DEF IInv, TypeOK, LoadPc, GuestLoadReturns
<1>3. /\ \A j \in Instances : j # i => registered'[j] = registered[j]
      /\ registered'[i] = {}
  BY <1>1 DEF IInv, TypeOK, GuestLoadReturns
<1>4. SlotInv' /\ FunctionInv' /\ RoutingInv'
  BY <1>1, SlotFrame, FunctionFrame, RoutingFrame
<1>5. GuestInv'
  BY <1>1, <1>3 DEF RInv, GuestInv
<1>6. CapturedInv'
  BY <1>1, <1>2 DEF RInv, GuestInv, CapturedInv, LoadStep
<1> QED
  BY <1>4, <1>5, <1>6 DEF RInv

LEMMA LinkInstanceRInv ==
  ASSUME IInv, RInv, NEW t \in Threads, LinkInstance(t), [Next]_vars
  PROVE  RInv'
<1> DEFINE i == load[t].inst
<1>1. /\ load[t].pc = "link" /\ i \in Instances
      /\ status[i] # "unused"
      /\ UNCHANGED <<instVars, nextHandle, resources, registered, functions,
                     call>>
  BY FramesOwned DEF LinkInstance
<1>2. LoadStep(t, "drop_own", i, load[t].prev, load[t].captured)
  BY <1>1, LoadGoto DEF IInv, LinkInstance, LoadPc
<1>3. \A h \in Handles :
        /\ entries'[h] = NoEntry <=> entries[h] = NoEntry
        /\ entries[h] # NoEntry =>
             /\ entries'[h].extension = entries[h].extension
             /\ entries'[h].dispatcher = entries[h].dispatcher
             /\ \/ entries'[h].instance = entries[h].instance
                \/ entries'[h].instance = i /\ owner[i] = entries[h].extension
  BY <1>1, NoEntryAssumption, SMTT(30) DEF IInv, TypeOK, LinkInstance, Link, Entry
<1>4. SlotInv'
  BY <1>1, <1>3 DEF RInv, SlotInv, instVars
<1>5. GuestInv'
  BY <1>1, <1>3, HeldHandles DEF RInv, GuestInv
<1>6. CapturedInv'
  <2>1. ASSUME NEW u \in Threads, NEW h \in load[u].captured
        PROVE  /\ entries'[h] # NoEntry
               /\ entries'[h].dispatcher = load[u].inst
               /\ h \notin resources'[load[u].inst]
    BY <1>1, <1>3, <2>1, CapturedHandles
  <2> QED
    BY <1>1, <1>2, <2>1 DEF RInv, CapturedInv, LoadStep
<1>7. FunctionInv'
  BY <1>1, <1>3 DEF IInv, TypeOK, Function, RInv, FunctionInv
<1>8. RoutingInv'
  BY <1>1, RoutingFrame
<1> QED
  BY <1>4, <1>5, <1>6, <1>7, <1>8 DEF RInv

\* What load hands to the sink is its own and out of every guest's reach.
LEMMA ReturnedRInv ==
  ASSUME IInv, RInv, NEW t \in Threads, load[t].pc # "idle", Returned(t),
         UNCHANGED <<regVars, call>>, [Next]_vars
  PROVE  RInv'
<1> DEFINE i == load[t].inst
<1>1. i \in Instances /\ owner[i] \in Extensions
  BY FramesOwned
<1>2. LoadStep(t, "idle", NoInstance, NoInstance, {})
  BY <1>1, ReturnedTypes
<1>3. SlotInv' /\ GuestInv' /\ RoutingInv'
  BY SlotFrame, GuestFrame, RoutingFrame DEF regVars
<1>4. CapturedInv'
  BY <1>2 DEF RInv, CapturedInv, LoadStep, regVars
<1>5. ASSUME NEW h \in load[t].captured
      PROVE  /\ entries[h] # NoEntry
             /\ entries[h].extension = owner[i]
             /\ \A j \in Instances : h \notin resources[j]
  <2>1. /\ h \in Handles /\ entries[h] # NoEntry
        /\ entries[h].dispatcher = i
        /\ h \notin resources[i]
    BY <1>5 DEF IInv, TypeOK, LoadFrame, RInv, CapturedInv
  <2>2. entries[h].extension = owner[i]
    BY <2>1 DEF RInv, SlotInv
  <2>3. \A j \in Instances : h \notin resources[j]
    BY <2>1 DEF RInv, GuestInv
  <2> QED
    BY <2>1, <2>2, <2>3
<1>6. FunctionInv'
  BY <1>5 DEF RInv, FunctionInv, Returned, Drained, regVars
<1> QED
  BY <1>3, <1>4, <1>6 DEF RInv

\* The instance a dispatch picks was loaded as its function's extension.
LEMMA PickedRInv ==
  ASSUME IInv, RInv, NEW t \in Threads, NEW pc, NEW inst,
         CallStep(t, pc, call[t].fn, inst, call[t].saved),
         call[t].fn \in functions,
         pc \in {"lock", "guest", "drop"} => owner[inst] = call[t].fn.extension,
         UNCHANGED <<regVars, instVars, functions, load>>, [Next]_vars
  PROVE  RInv'
<1>1. SlotInv' /\ GuestInv' /\ FunctionInv' /\ CapturedInv'
  BY SlotFrame, GuestFrame, FunctionFrame, CapturedFrame DEF regVars
<1>2. RoutingInv'
  BY DEF RInv, RoutingInv, CallStep, instVars
<1> QED
  BY <1>1, <1>2 DEF RInv

LEMMA ResolveRInv ==
  ASSUME IInv, RInv, NEW t \in Threads, Resolve(t), [Next]_vars
  PROVE  RInv'
<1> DEFINE fn == call[t].fn
           entry == entries[fn.handle]
<1>1. /\ fn \in functions /\ fn.handle \in Handles
      /\ entry # NoEntry /\ entry.extension = fn.extension
      /\ UNCHANGED <<regVars, instVars, functions, load>>
  BY DEF IInv, TypeOK, Resolve, CallInv, Function, RInv, FunctionInv
<1>2. CASE Goto(t, "fallback")
  <2>1. CallStep(t, "fallback", fn, call[t].inst, call[t].saved)
    BY <1>2, CallGoto DEF IInv, CallPc
  <2> QED
    BY <1>1, <2>1, PickedRInv
<1>3. CASE /\ Referenced(entry.instance)
           /\ call' = [call EXCEPT ![t].pc = "lock", ![t].inst = entry.instance]
  <2>1. CallStep(t, "lock", fn, entry.instance, call[t].saved)
    BY <1>3, CallGotoInst DEF IInv, CallPc, OptInstance, Referenced
  <2>2. owner[entry.instance] = fn.extension
    BY <1>1, <1>3 DEF RInv, SlotInv, Referenced
  <2> QED
    BY <1>1, <2>1, <2>2, PickedRInv
<1> QED
  BY <1>1, <1>2, <1>3 DEF Resolve

LEMMA FallbackRInv ==
  ASSUME IInv, RInv, NEW t \in Threads, Fallback(t), [Next]_vars
  PROVE  RInv'
<1> DEFINE fn == call[t].fn
           i == instances[entries[fn.handle].extension]
<1>1. /\ fn \in functions /\ fn.extension \in Extensions
      /\ entries[fn.handle].extension = fn.extension
      /\ UNCHANGED <<regVars, instVars, functions, load>>
  BY DEF IInv, TypeOK, Fallback, CallInv, Function, RInv, FunctionInv
<1>2. CASE Goto(t, "return")
  <2>1. CallStep(t, "return", fn, call[t].inst, call[t].saved)
    BY <1>2, CallGoto DEF IInv, CallPc
  <2> QED
    BY <1>1, <2>1, PickedRInv
<1>3. CASE /\ i # NoInstance
           /\ call' = [call EXCEPT ![t].pc = "lock", ![t].inst = i]
  <2>1. i \in Instances /\ owner[i] = fn.extension
    BY <1>1, <1>3 DEF IInv, TypeOK, OptInstance, OwnerInv
  <2>2. CallStep(t, "lock", fn, i, call[t].saved)
    BY <1>3, <2>1, CallGotoInst DEF IInv, CallPc, OptInstance
  <2> QED
    BY <1>1, <2>1, <2>2, PickedRInv
<1> QED
  BY <1>2, <1>3 DEF Fallback

\* The other steps of a load, and of a dispatch, keep what the frames hold.
LEMMA LoadStepRInv ==
  ASSUME IInv, RInv, NEW t \in Threads, [Next]_vars,
         \/ \E e \in Extensions : BeginLoad(t, e)
         \/ GuestLoadFails(t) \/ Insert(t) \/ UnlockMap(t)
         \/ DropPrev(t) \/ ShutdownPrevEnds(t)
         \/ DropOwn(t) /\ ~Returned(t)
  PROVE  RInv'
<1>1. UNCHANGED <<nextHandle, entries, resources, registered, functions, call>>
  BY DEF BeginLoad, GuestLoadFails, Insert, UnlockMap, DropPrev,
         ShutdownPrevEnds, DropOwn, regVars
<1>2. SlotInv' /\ GuestInv' /\ FunctionInv' /\ RoutingInv'
  BY <1>1, SlotFrame, GuestFrame, FunctionFrame, RoutingFrame
<1>3. CapturedInv'
  <2> SUFFICES \A u \in Threads :
                 \/ load'[u].captured = {}
                 \/ /\ load'[u].captured = load[u].captured
                    /\ load'[u].inst = load[u].inst
                    /\ \/ load'[u].pc \notin {"idle", "guest_load"}
                       \/ load'[u] = load[u]
    BY <1>1, CapturedFrame
  <2>1. CASE \E e \in Extensions : BeginLoad(t, e)
    <3>1. load[t].captured = {}
      BY <2>1 DEF RInv, CapturedInv, BeginLoad
    <3>2. PICK i \in Instances :
            LoadStep(t, "guest_load", i, load[t].prev, load[t].captured)
      BY <2>1, LoadGotoInst DEF IInv, BeginLoad, LoadPc, OptInstance
    <3> QED
      BY <3>1, <3>2 DEF LoadStep
  <2>2. CASE GuestLoadFails(t)
    BY <2>2, LoadEnds DEF IInv, GuestLoadFails, LoadStep
  <2>3. CASE Insert(t)
    <3>1. instances[owner[load[t].inst]] \in OptInstance
      BY <2>3, FramesOwned DEF IInv, TypeOK, Insert
    <3>2. LoadStep(t, "unlock_map", load[t].inst,
                   instances[owner[load[t].inst]], load[t].captured)
      BY <2>3, <3>1, LoadGotoPrev DEF IInv, Insert, LoadPc
    <3> QED
      BY <3>2 DEF LoadStep
  <2>4. CASE UnlockMap(t)
    BY <2>4, LoadGoto DEF IInv, UnlockMap, LoadPc, LoadStep
  <2>5. CASE DropPrev(t) \/ ShutdownPrevEnds(t)
    <3>1. \/ LoadStep(t, "shutdown_prev", load[t].inst, load[t].prev,
                      load[t].captured)
          \/ LoadStep(t, "link", load[t].inst, NoInstance, load[t].captured)
      BY <2>5, LoadGoto, LoadGotoPrev
      DEF IInv, DropPrev, ShutdownPrevEnds, LoadPc, OptInstance
    <3> QED
      BY <3>1 DEF LoadStep
  <2>6. CASE DropOwn(t) /\ ~Returned(t)
    BY <2>6, LoadGoto DEF IInv, DropOwn, LoadPc, LoadStep
  <2> QED
    BY <2>1, <2>2, <2>3, <2>4, <2>5, <2>6
<1> QED
  BY <1>2, <1>3 DEF RInv

LEMMA CallStepRInv ==
  ASSUME IInv, RInv, NEW t \in Threads, [Next]_vars,
         \/ \E fn \in functions : BeginCall(t, fn)
         \/ LockInstance(t) \/ GuestReturns(t) \/ HostPanics(t)
         \/ DropArc(t) \/ ShutdownEnds(t) \/ EndCall(t)
  PROVE  RInv'
<1>1. UNCHANGED <<regVars, functions, load>>
  BY DEF BeginCall, LockInstance, GuestReturns, HostPanics, DropArc,
         ShutdownEnds, EndCall
<1>2. SlotInv' /\ GuestInv' /\ FunctionInv' /\ CapturedInv'
  BY <1>1, SlotFrame, GuestFrame, FunctionFrame, CapturedFrame DEF regVars
<1>3. RoutingInv'
  <2> SUFFICES \A u \in Threads :
                 call'[u].pc \in {"lock", "guest", "drop"} =>
                    /\ call[u].pc \in {"lock", "guest", "drop"}
                    /\ call'[u].inst = call[u].inst
                    /\ call'[u].fn = call[u].fn
    BY RoutingFrame
  <2>1. CASE \E fn \in functions : BeginCall(t, fn)
    BY <2>1, CallBegins DEF IInv, TypeOK, BeginCall, CallStep
  <2>2. CASE EndCall(t)
    BY <2>2, CallEnds DEF IInv, EndCall, CallStep
  <2>3. CASE \/ LockInstance(t) \/ GuestReturns(t) \/ HostPanics(t)
             \/ DropArc(t) \/ ShutdownEnds(t)
    <3>1. PICK pc \in CallPc :
            /\ CallStep(t, pc, call[t].fn, call[t].inst, call[t].saved)
            /\ pc \in {"lock", "guest", "drop"} =>
                  call[t].pc \in {"lock", "guest", "drop"}
      BY <2>3, CallGoto
      DEF IInv, LockInstance, GuestReturns, HostPanics, DropArc, ShutdownEnds,
          CallPc
    <3> QED
      BY <3>1 DEF CallStep
  <2> QED
    BY <2>1, <2>2, <2>3
<1> QED
  BY <1>2, <1>3 DEF RInv

LEMMA QueryRInv ==
  ASSUME IInv, RInv, [Next]_vars, UNCHANGED <<regVars, functions, load, call>>
  PROVE  RInv'
BY SlotFrame, GuestFrame, FunctionFrame, CapturedFrame, RoutingFrame
DEF RInv, regVars

LEMMA NextRInv ==
  ASSUME RawHandles = {}, IInv, RInv, [Next]_vars
  PROVE  RInv'
<1>1. ASSUME NEW t \in Threads, Progress(t) PROVE RInv'
  <2>1. CASE QueryRuns(t) \/ QueryEnds(t)
    BY <2>1, QueryRInv DEF QueryRuns, QueryEnds
  <2>2. CASE DropOwn(t) /\ Returned(t)
    BY <2>2, ReturnedRInv DEF DropOwn
  <2>3. CASE ShutdownOwnEnds(t)
    BY <2>3, ReturnedRInv DEF ShutdownOwnEnds
  <2> QED
    BY <1>1, <2>1, <2>2, <2>3, GuestLoadReturnsRInv, LinkInstanceRInv,
       ResolveRInv, FallbackRInv, LoadStepRInv, CallStepRInv
    DEF Progress
<1>2. ASSUME NEW t \in Threads, GuestStep(t) PROVE RInv'
  <2>1. PICK i \in Instances :
          \/ GuestAllocate(t, i)
          \/ \E h \in Handles : GuestRelease(t, i, h) \/ GuestRegister(t, i, h)
          \/ GuestQuery(t, i)
    BY <1>2 DEF GuestStep
  <2>2. CASE GuestQuery(t, i)
    BY <2>2, QueryRInv DEF GuestQuery
  <2> QED
    BY <2>1, <2>2, GuestAllocateRInv, GuestReleaseRInv, GuestRegisterRInv
<1>3. ASSUME NEW t \in Threads, GuestLoadFails(t) \/ HostPanics(t) PROVE RInv'
  BY <1>3, LoadStepRInv, CallStepRInv
<1>4. ASSUME NEW t \in Threads, NEW e \in Extensions, BeginLoad(t, e)
      PROVE  RInv'
  BY <1>4, LoadStepRInv
<1>5. ASSUME NEW t \in Threads, NEW fn \in functions, BeginCall(t, fn)
      PROVE  RInv'
  BY <1>5, CallStepRInv
<1>6. ASSUME UNCHANGED vars PROVE RInv'
  BY <1>6, QueryRInv DEF vars, regVars
<1> QED
  BY <1>1, <1>2, <1>3, <1>4, <1>5, <1>6 DEF Next, AtRest

LEMMA RInvariance == ASSUME RawHandles = {} PROVE Spec => []RInv
<1>1. Init => RInv
  BY InitRInv
<1>2. IInv /\ RInv /\ [Next]_vars => RInv'
  BY NextRInv
<1> QED
  BY <1>1, <1>2, IInvariant, PTL DEF Spec

\* A handle that load gave to DuckDB with a function keeps resolving to a slot
\* of the function's extension, through re-loads and whatever guests release,
\* as long as every surface takes its handle from the registry.
THEOREM FunctionsStayResolved ==
  ASSUME RawHandles = {} PROVE Spec => []FunctionsResolve
<1>1. RInv => FunctionsResolve
  BY DEF RInv, FunctionInv, FunctionsResolve
<1> QED
  BY <1>1, RInvariance, PTL

\* Every dispatch runs in an instance of the extension that registered the
\* function, as long as every surface takes its handle from the registry.
THEOREM CallsRouted ==
  ASSUME RawHandles = {} PROVE Spec => []RoutedToOwner
<1>1. RInv => RoutedToOwner
  BY DEF RInv, RoutingInv, RoutedToOwner
<1> QED
  BY <1>1, RInvariance, PTL

-----------------------------------------------------------------------------
(* What re-loads leave in the slots, however the loads of a name cross *)

\* A step that publishes and links nothing: no load begins or ends to be about
\* to link, and the slots that lead to an instance are among those there were.
Quiet ==
    /\ UNCHANGED <<instances, overtaken>>
    /\ \A h \in Handles :
         entries'[h] # NoEntry /\ entries'[h].instance # NoInstance =>
            /\ entries[h] # NoEntry
            /\ entries'[h].instance = entries[h].instance
            /\ entries'[h].extension = entries[h].extension
    /\ \A u \in Threads :
         /\ load'[u].pc \in RelinkingPc <=> load[u].pc \in RelinkingPc
         /\ load[u].pc \in RelinkingPc => load'[u].inst = load[u].inst

LEMMA QuietLoad ==
  ASSUME NEW t \in Threads, NEW pc, NEW inst, NEW prev, NEW captured,
         LoadStep(t, pc, inst, prev, captured),
         pc \in RelinkingPc <=> load[t].pc \in RelinkingPc,
         pc \in RelinkingPc => inst = load[t].inst,
         UNCHANGED <<instances, overtaken, entries>>
  PROVE  Quiet
BY DEF Quiet, LoadStep

LEMMA LoadsQuiet ==
  ASSUME IInv, NEW t \in Threads,
         \/ \E e \in Extensions : BeginLoad(t, e)
         \/ GuestLoadReturns(t) \/ GuestLoadFails(t) \/ UnlockMap(t)
         \/ DropPrev(t) \/ ShutdownPrevEnds(t) \/ DropOwn(t)
         \/ ShutdownOwnEnds(t)
  PROVE  Quiet
<1> USE DEF IInv, LoadPc, OptInstance, RelinkingPc
<1>1. UNCHANGED <<instances, overtaken, entries>>
  BY DEF BeginLoad, GuestLoadReturns, GuestLoadFails, UnlockMap, DropPrev,
         ShutdownPrevEnds, DropOwn, ShutdownOwnEnds, regVars, instVars
<1>2. CASE \E e \in Extensions : BeginLoad(t, e)
  <2>1. PICK i \in Instances :
          LoadStep(t, "guest_load", i, load[t].prev, load[t].captured)
    BY <1>2, LoadGotoInst DEF BeginLoad
  <2>2. load[t].pc = "idle"
    BY <1>2 DEF BeginLoad
  <2> QED
    BY <1>1, <2>1, <2>2, QuietLoad
<1>3. CASE GuestLoadReturns(t)
  <2>1. load[t].pc = "guest_load" /\ load[t].inst \in Instances
    BY <1>3, FramesOwned DEF GuestLoadReturns
  <2>2. registered[load[t].inst] \in SUBSET Handles
    BY <2>1 DEF TypeOK
  <2>3. LoadStep(t, "insert", load[t].inst, load[t].prev, registered[load[t].inst])
    BY <1>3, <2>2, LoadGotoCaptured DEF GuestLoadReturns
  <2> QED
    BY <1>1, <2>1, <2>3, QuietLoad
<1>4. CASE GuestLoadFails(t)
  <2>1. LoadStep(t, "idle", NoInstance, NoInstance, {}) /\ load[t].pc = "guest_load"
    BY <1>4, LoadEnds DEF GuestLoadFails
  <2> QED
    BY <1>1, <2>1, QuietLoad
<1>5. CASE UnlockMap(t)
  <2>1. /\ LoadStep(t, "drop_prev", load[t].inst, load[t].prev, load[t].captured)
        /\ load[t].pc = "unlock_map"
    BY <1>5, LoadGoto DEF UnlockMap
  <2> QED
    BY <1>1, <2>1, QuietLoad
<1>6. CASE DropPrev(t) \/ ShutdownPrevEnds(t)
  <2>1. \/ LoadStep(t, "shutdown_prev", load[t].inst, load[t].prev,
                    load[t].captured)
        \/ LoadStep(t, "link", load[t].inst, NoInstance, load[t].captured)
    BY <1>6, LoadGoto, LoadGotoPrev DEF DropPrev, ShutdownPrevEnds
  <2>2. load[t].pc \in {"drop_prev", "shutdown_prev"}
    BY <1>6 DEF DropPrev, ShutdownPrevEnds
  <2> QED
    BY <1>1, <2>1, <2>2, QuietLoad
<1>7. CASE DropOwn(t) \/ ShutdownOwnEnds(t)
  <2>1. \/ LoadStep(t, "shutdown_own", load[t].inst, load[t].prev,
                    load[t].captured)
        \/ LoadStep(t, "idle", NoInstance, NoInstance, {})
    BY <1>7, LoadGoto, LoadEnds DEF DropOwn, ShutdownOwnEnds, Returned
  <2>2. load[t].pc \in {"drop_own", "shutdown_own"}
    BY <1>7 DEF DropOwn, ShutdownOwnEnds
  <2> QED
    BY <1>1, <2>1, <2>2, QuietLoad
<1> QED
  BY <1>2, <1>3, <1>4, <1>5, <1>6, <1>7

LEMMA CallsQuiet ==
  ASSUME NEW t \in Threads,
         \/ \E fn \in functions : BeginCall(t, fn)
         \/ Resolve(t) \/ Fallback(t) \/ LockInstance(t) \/ GuestReturns(t)
         \/ HostPanics(t) \/ DropArc(t) \/ ShutdownEnds(t) \/ EndCall(t)
  PROVE  Quiet
<1>1. UNCHANGED <<instances, overtaken, entries, load>>
  BY DEF BeginCall, Resolve, Fallback, LockInstance, GuestReturns, HostPanics,
         DropArc, ShutdownEnds, EndCall, regVars, instVars
<1> QED
  BY <1>1 DEF Quiet

LEMMA GuestsQuiet ==
  ASSUME IInv, NEW t \in Threads,
         GuestStep(t) \/ QueryRuns(t) \/ QueryEnds(t)
  PROVE  Quiet
<1>1. UNCHANGED <<instances, overtaken, load>>
  BY DEF GuestStep, GuestAllocate, GuestRelease, GuestRegister,
         GuestRegisterRaw, GuestQuery, QueryRuns, QueryEnds, regVars, instVars
<1>2. ASSUME NEW h \in Handles, entries'[h] # NoEntry,
             entries'[h].instance # NoInstance
      PROVE  entries'[h] = entries[h]
  <2>1. CASE UNCHANGED entries
    BY <2>1
  <2>2. CASE \E i \in Instances : GuestAllocate(t, i)
    BY <1>2, <2>2 DEF GuestAllocate, Allocate, IInv, TypeOK
  <2>3. CASE \E i \in Instances, k \in Handles : GuestRelease(t, i, k)
    BY <1>2, <2>3 DEF GuestRelease, Remove, IInv, TypeOK
  <2> QED
    BY <2>1, <2>2, <2>3
    DEF GuestStep, GuestRegister, GuestRegisterRaw, GuestQuery, QueryRuns,
        QueryEnds, regVars
<1> QED
  BY <1>1, <1>2 DEF Quiet

\* Once published, an instance is not loaded again.
LEMMA PublishedStays ==
  ASSUME IInv, [Next]_vars, NEW i \in Instances,
         status[i] \notin {"unused", "loading"}
  PROVE  status'[i] \notin {"unused", "loading"}
<1> DEFINE Goal == status'[i] \notin {"unused", "loading"}
<1>1. ASSUME UNCHANGED status PROVE Goal
  BY <1>1
<1>2. ASSUME NEW j, NEW s, s \notin {"unused", "loading"},
             status' = [status EXCEPT ![j] = s]
      PROVE  Goal
  BY <1>2 DEF IInv, TypeOK
<1>3. ASSUME NEW t \in Threads, Progress(t) PROVE Goal
  <2>1. CASE Insert(t) \/ ShutdownPrevEnds(t) \/ ShutdownOwnEnds(t)
               \/ ShutdownEnds(t)
    <3>1. \E j, s : /\ s \in {"live", "gone"}
                    /\ status' = [status EXCEPT ![j] = s]
      BY <2>1, Zenon DEF Insert, ShutdownPrevEnds, ShutdownOwnEnds, ShutdownEnds
    <3> QED
      BY <1>2, <3>1
  <2>2. CASE DropPrev(t) \/ DropOwn(t) \/ DropArc(t)
    BY <1>1, <1>2, <2>2 DEF DropPrev, DropOwn, DropArc
  <2>3. CASE UNCHANGED status
    BY <1>1, <2>3
  <2> QED
    BY <1>3, <2>1, <2>2, <2>3
    DEF Progress, QueryRuns, QueryEnds, GuestLoadReturns, UnlockMap,
        LinkInstance, Resolve, Fallback, LockInstance, GuestReturns, EndCall,
        instVars
<1>4. ASSUME NEW t \in Threads, GuestStep(t) PROVE Goal
  BY <1>1, <1>4
  DEF GuestStep, GuestAllocate, GuestRelease, GuestRegister, GuestRegisterRaw,
      GuestQuery, instVars
<1>5. ASSUME NEW t \in Threads, NEW e \in Extensions, BeginLoad(t, e)
      PROVE  Goal
  <2>1. PICK j \in Instances : /\ status[j] = "unused"
                               /\ status' = [status EXCEPT ![j] = "loading"]
    BY <1>5 DEF BeginLoad
  <2>2. i # j
    BY <2>1
  <2> QED
    BY <2>1, <2>2 DEF IInv, TypeOK
<1>6. ASSUME NEW t \in Threads, GuestLoadFails(t) PROVE Goal
  BY <1>2, <1>6 DEF GuestLoadFails
<1>7. ASSUME NEW t \in Threads,
             HostPanics(t) \/ \E fn \in functions : BeginCall(t, fn)
      PROVE  Goal
  BY <1>1, <1>7 DEF HostPanics, BeginCall, instVars
<1> QED
  BY <1>1, <1>3, <1>4, <1>5, <1>6, <1>7 DEF Next, AtRest, vars

\* The loads about to link are the same in such a step.
LEMMA QuietRelinking ==
  ASSUME IInv, [Next]_vars, Quiet, NEW e
  PROVE  Relinking(e)' = Relinking(e)
<1>1. ASSUME NEW u \in Threads, load[u].pc \in RelinkingPc
      PROVE  load'[u].inst = load[u].inst
             /\ owner'[load[u].inst] = owner[load[u].inst]
  <2>1. load[u].pc # "idle"
    BY <1>1 DEF RelinkingPc
  <2> QED
    BY <1>1, <2>1, FramesOwned, OwnersStay DEF Quiet
<1> QED
  BY <1>1 DEF Relinking, Quiet

LEMMA QuietSafe ==
  ASSUME IInv, SInv, [Next]_vars, Quiet
  PROVE  SInv'
<1>1. PublishedInv'
  <2> SUFFICES ASSUME NEW u \in Threads, load'[u].pc \in RelinkingPc,
                      load'[u].inst \notin overtaken
               PROVE  instances[owner'[load'[u].inst]] = load'[u].inst
    BY DEF PublishedInv, Quiet
  <2>1. load[u].pc \in RelinkingPc /\ load'[u].inst = load[u].inst
    BY DEF Quiet
  <2>2. load[u].pc # "idle"
    BY <2>1 DEF RelinkingPc
  <2>3. owner'[load[u].inst] = owner[load[u].inst]
    BY <2>2, FramesOwned, OwnersStay
  <2> QED
    BY <2>1, <2>3 DEF SInv, PublishedInv
<1>2. OvertakenInv'
  <2>1. overtaken \in SUBSET Instances
    BY DEF IInv, TypeOK
  <2> QED
    BY <2>1, PublishedStays DEF Quiet, SInv, OvertakenInv
<1>3. WeakInv'
  <2> SUFFICES ASSUME NEW h \in Handles, entries'[h] # NoEntry,
                      entries'[h].instance # NoInstance
               PROVE  \/ instances'[entries'[h].extension] = entries'[h].instance
                      \/ Relinking(entries[h].extension)' # {}
                      \/ entries'[h].instance \in overtaken'
    BY DEF WeakInv
  <2>1. /\ entries[h] # NoEntry /\ entries'[h].instance = entries[h].instance
        /\ entries'[h].extension = entries[h].extension
        /\ UNCHANGED <<instances, overtaken>>
    BY DEF Quiet
  <2>2. PICK e : e = entries[h].extension /\ e = entries'[h].extension
    BY <2>1
  <2>3. Relinking(entries[h].extension)' = Relinking(e)
    <3>1. Relinking(entries[h].extension)' = Relinking(e)'
      BY <2>2 DEF Relinking
    <3> QED
      BY <3>1, QuietRelinking
  <2>4. \/ instances[e] = entries[h].instance
        \/ Relinking(e) # {}
        \/ entries[h].instance \in overtaken
    BY <2>1, <2>2 DEF SInv, WeakInv
  <2> QED
    BY <2>1, <2>2, <2>3, <2>4
<1> QED
  BY <1>1, <1>2, <1>3 DEF SInv

\* Whoever was about to link for the extension is overtaken, and this load is
\* about to link now.
LEMMA InsertSafe ==
  ASSUME IInv, SInv, [Next]_vars, NEW t \in Threads, Insert(t)
  PROVE  SInv'
<1> DEFINE i == load[t].inst
           o == owner[i]
<1>1. /\ i \in Instances /\ o \in Extensions /\ status[i] = "loading"
      /\ load[t].pc = "insert"
  BY FramesOwned DEF Insert, IInv, LoadInv
<1>2. /\ instances' = [instances EXCEPT ![o] = i]
      /\ overtaken' = overtaken \cup {load[u].inst : u \in Relinking(o)}
      /\ UNCHANGED <<entries, owner>>
  BY DEF Insert
<1>3. instances[o] \in OptInstance
  BY <1>1 DEF IInv, TypeOK
<1>4. LoadStep(t, "unlock_map", i, instances[o], load[t].captured)
  BY <1>3, LoadGotoPrev DEF IInv, Insert, LoadPc
<1>5. ASSUME NEW u \in Threads, load[u].pc \in RelinkingPc
      PROVE  /\ load[u].inst \in Instances /\ load[u].inst # i
             /\ status[load[u].inst] = "live"
  BY <1>1, <1>5 DEF IInv, LoadInv, LoadsApart, RelinkingPc
<1>6. /\ instances'[o] = i
      /\ \A e \in Extensions : e # o => instances'[e] = instances[e]
  BY <1>1, <1>2 DEF IInv, TypeOK
<1> HIDE DEF i, o
<1>7. PublishedInv'
  <2> SUFFICES ASSUME NEW u \in Threads, load'[u].pc \in RelinkingPc,
                      load'[u].inst \notin overtaken'
               PROVE  instances'[owner[load'[u].inst]] = load'[u].inst
    BY <1>2 DEF PublishedInv
  <2>1. CASE u = t
    BY <1>4, <1>6, <2>1 DEF LoadStep, o
  <2>2. CASE u # t
    <3>1. load'[u] = load[u] /\ load[u].pc \in RelinkingPc
      BY <1>4, <2>2 DEF LoadStep
    <3>2. owner[load[u].inst] # o
      BY <1>2, <3>1 DEF Relinking
    <3>3. owner[load[u].inst] \in Extensions
      BY <1>5, <3>1 DEF IInv, OwnerInv
    <3>4. instances[owner[load[u].inst]] = load[u].inst
      BY <1>2, <3>1 DEF SInv, PublishedInv
    <3> QED
      BY <1>6, <3>1, <3>2, <3>3, <3>4
  <2> QED
    BY <2>1, <2>2
<1>8. OvertakenInv'
  <2> SUFFICES ASSUME NEW j \in overtaken'
               PROVE  /\ status'[j] \notin {"unused", "loading"}
                      /\ \A e \in Extensions : instances'[e] # j
    BY DEF OvertakenInv
  <2>1. CASE j \in overtaken
    <3>1. j \in Instances /\ status[j] \notin {"unused", "loading"}
      BY <2>1 DEF SInv, OvertakenInv, IInv, TypeOK
    <3>2. j # i /\ \A e \in Extensions : instances[e] # j
      BY <1>1, <2>1, <3>1 DEF SInv, OvertakenInv
    <3> QED
      BY <1>6, <3>1, <3>2, PublishedStays
  <2>2. CASE \E u \in Relinking(o) : j = load[u].inst
    <3>1. /\ j \in Instances /\ j # i /\ status[j] = "live" /\ owner[j] = o
      BY <1>5, <2>2 DEF Relinking
    <3>2. \A e \in Extensions : e # o => instances[e] # j
      BY <3>1 DEF IInv, OwnerInv
    <3> QED
      BY <1>6, <3>1, <3>2, PublishedStays
  <2> QED
    BY <1>2, <2>1, <2>2
<1>9. t \in Relinking(o)'
  <2>1. load'[t].pc = "unlock_map" /\ load'[t].inst = i /\ owner'[i] = owner[i]
    BY <1>2, <1>4 DEF LoadStep
  <2>2. o' = owner'[i'] /\ i' = i
    BY <2>1 DEF o, i
  <2> QED
    BY <2>1, <2>2 DEF Relinking, RelinkingPc
<1>10. ASSUME NEW e, e # o PROVE Relinking(e) \subseteq Relinking(e)'
  <2> SUFFICES ASSUME NEW u \in Relinking(e) PROVE u \in Relinking(e)'
    OBVIOUS
  <2>1. u \in Threads /\ u # t /\ load[u].pc \in RelinkingPc
        /\ owner[load[u].inst] = e
    BY <1>1, <1>10 DEF Relinking, RelinkingPc
  <2>2. load'[u] = load[u]
    BY <1>4, <2>1 DEF LoadStep
  <2> QED
    BY <1>2, <2>1, <2>2 DEF Relinking
<1>11. WeakInv'
  <2> SUFFICES ASSUME NEW h \in Handles, entries[h] # NoEntry,
                      entries[h].instance # NoInstance
               PROVE  \/ instances'[entries[h].extension] = entries[h].instance
                      \/ Relinking(entries[h].extension)' # {}
                      \/ entries[h].instance \in overtaken'
    BY <1>2 DEF WeakInv
  <2>1. PICK e \in Extensions : e = entries[h].extension /\ e = entries'[h].extension
    BY <1>2 DEF IInv, TypeOK, Entry
  <2>2. Relinking(entries[h].extension)' = Relinking(e)'
    BY <2>1 DEF Relinking
  <2>3. \/ instances[e] = entries[h].instance
        \/ Relinking(e) # {}
        \/ entries[h].instance \in overtaken
    BY <2>1 DEF SInv, WeakInv
  <2>4. CASE e = o
    <3>1. t \in Relinking(e)'
      <4>1. o' = o
        BY <1>2, <1>4 DEF LoadStep, o, i
      <4>2. Relinking(e)' = Relinking(o)'
        BY <2>4, <4>1 DEF Relinking
      <4> QED
        BY <1>9, <4>2
    <3> QED
      BY <2>2, <3>1
  <2>5. CASE e # o
    BY <1>2, <1>6, <1>10, <2>1, <2>2, <2>3, <2>5
  <2> QED
    BY <2>4, <2>5
<1> QED
  BY <1>7, <1>8, <1>11 DEF SInv

\* From here on the slots of the extension lead to its current instance, or to
\* one that was overtaken.
LEMMA LinkSafe ==
  ASSUME IInv, SInv, [Next]_vars, NEW t \in Threads, LinkInstance(t)
  PROVE  SInv'
<1> DEFINE i == load[t].inst
           o == owner[i]
<1>1. /\ i \in Instances /\ o \in Extensions /\ load[t].pc = "link"
  BY FramesOwned DEF LinkInstance
<1>2. /\ entries' = Link(entries, o, i)
      /\ UNCHANGED <<instances, status, owner, overtaken>>
  BY DEF LinkInstance, instVars
<1>3. LoadStep(t, "drop_own", i, load[t].prev, load[t].captured)
  BY LoadGoto DEF IInv, LinkInstance, LoadPc
<1>4. instances[o] = i \/ i \in overtaken
  BY <1>1 DEF SInv, PublishedInv, RelinkingPc
<1>5. PublishedInv'
  <2> SUFFICES ASSUME NEW u \in Threads, load'[u].pc \in RelinkingPc,
                      load'[u].inst \notin overtaken
               PROVE  instances[owner[load'[u].inst]] = load'[u].inst
    BY <1>2 DEF PublishedInv
  <2>1. load'[u] = load[u]
    BY <1>3 DEF LoadStep, RelinkingPc
  <2> QED
    BY <2>1 DEF SInv, PublishedInv
<1>6. OvertakenInv'
  BY <1>2 DEF SInv, OvertakenInv
<1>7. ASSUME NEW e, e # o PROVE Relinking(e) \subseteq Relinking(e)'
  <2> SUFFICES ASSUME NEW u \in Relinking(e) PROVE u \in Relinking(e)'
    OBVIOUS
  <2>1. u \in Threads /\ u # t /\ load[u].pc \in RelinkingPc
        /\ owner[load[u].inst] = e
    BY <1>7 DEF Relinking
  <2>2. load'[u] = load[u]
    BY <1>3, <2>1 DEF LoadStep
  <2> QED
    BY <1>2, <2>1, <2>2 DEF Relinking
<1> HIDE DEF i, o
<1>8. WeakInv'
  <2> SUFFICES ASSUME NEW h \in Handles, entries'[h] # NoEntry,
                      entries'[h].instance # NoInstance
               PROVE  \/ instances[entries'[h].extension] = entries'[h].instance
                      \/ Relinking(entries[h].extension)' # {}
                      \/ entries'[h].instance \in overtaken
    BY <1>2 DEF WeakInv
  <2>1. entries[h] # NoEntry /\ entries[h] \in Entry
    BY <1>2 DEF Link, IInv, TypeOK
  <2>2. CASE entries[h].extension = o
    <3>1. entries'[h].extension = o /\ entries'[h].instance = i
      BY <1>2, <2>1, <2>2 DEF Link, Entry
    <3> QED
      BY <1>4, <3>1
  <2>3. CASE entries[h].extension # o
    <3>1. entries'[h] = entries[h]
      BY <1>2, <2>3 DEF Link
    <3>2. PICK e : e = entries[h].extension /\ e = entries'[h].extension
      BY <3>1
    <3>3. \/ instances[e] = entries[h].instance
          \/ Relinking(e) # {}
          \/ entries[h].instance \in overtaken
      BY <2>1, <3>1, <3>2 DEF SInv, WeakInv
    <3>4. Relinking(entries[h].extension)' = Relinking(e)'
      BY <3>2 DEF Relinking
    <3> QED
      BY <1>7, <2>3, <3>1, <3>2, <3>3, <3>4
  <2> QED
    BY <2>2, <2>3
<1> QED
  BY <1>5, <1>6, <1>8 DEF SInv

LEMMA NextSInv ==
  ASSUME IInv, SInv, [Next]_vars
  PROVE  SInv'
<1>1. Quiet \/ \E t \in Threads : Insert(t) \/ LinkInstance(t)
  <2>1. UNCHANGED vars => Quiet
    BY DEF Quiet, vars
  <2> QED
    BY <2>1, LoadsQuiet, CallsQuiet, GuestsQuiet DEF Next, Progress, AtRest
<1> QED
  BY <1>1, QuietSafe, InsertSafe, LinkSafe

\* With no load under way, a slot leads to its extension's current instance, or
\* to one whose load another overtook and that only calls under way still hold.
THEOREM SlotsFollowReloads == Spec => []LinkedToCurrent
<1>1. Init => SInv
  BY DEF Init, SInv, PublishedInv, OvertakenInv, WeakInv, NewEntries,
         NotLoading, RelinkingPc
<1>2. IInv /\ SInv /\ [Next]_vars => SInv'
  BY NextSInv
<1>3. IInv /\ SInv => LinkedToCurrent
  <2> SUFFICES ASSUME IInv, SInv, \A t \in Threads : load[t].pc = "idle",
                      NEW h \in Handles, entries[h] # NoEntry,
                      entries[h].instance # NoInstance,
                      instances[entries[h].extension] # entries[h].instance
               PROVE  /\ entries[h].instance \in overtaken
                      /\ Referenced(entries[h].instance) =>
                           \E t \in Threads : CallHolds(t, entries[h].instance)
    BY DEF LinkedToCurrent
  <2>1. Relinking(entries[h].extension) = {}
    BY DEF Relinking, RelinkingPc
  <2>2. entries[h].instance \in overtaken
    BY <2>1 DEF SInv, WeakInv
  <2>3. \A e \in Extensions : instances[e] # entries[h].instance
    BY <2>2 DEF SInv, OvertakenInv
  <2>4. \A t \in Threads : ~LoadHolds(t, entries[h].instance)
    BY DEF LoadHolds
  <2> QED
    BY <2>2, <2>3, <2>4 DEF Referenced
<1> QED
  BY <1>1, <1>2, <1>3, IInvariant, PTL DEF Spec
=============================================================================
