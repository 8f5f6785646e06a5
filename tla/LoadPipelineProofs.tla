------------------------ MODULE LoadPipelineProofs -------------------------
(***************************************************************************)
(* Proofs about LoadPipeline, for any threads, modules, surfaces and any   *)
(* number of loads.  Most steps either end a phase of a load (PhaseSafe)   *)
(* or hand one item to DuckDB (ItemSafe).                                  *)
(***************************************************************************)
EXTENDS LoadPipelineInv, TLAPS

\* The step of one thread: what the others do stays as it is.
OnlyThread(t) ==
    /\ frame' \in [Threads -> Frame]
    /\ \A u \in Threads \ {t} : frame'[u] = frame[u]

\* It goes on with the same load.
SameLoad(t) ==
    /\ frame'[t].module = frame[t].module
    /\ frame'[t].load = frame[t].load
    /\ frame'[t].declared = frame[t].declared

\* It has registered, or is registering, and has no record yet.
Registering == Pc \ {"idle", "engine", "report"}

LEMMA TriedOthers ==
    ASSUME NEW t \in Threads, OnlyThread(t), NEW u \in Threads \ {t}
    PROVE  Tried(u)' = Tried(u)
BY DEF Tried, OnlyThread

LEMMA ThreadSteps ==
    ASSUME TypeOK, NEW t \in Threads, NEW g \in Frame,
           frame' = [frame EXCEPT ![t] = g]
    PROVE  OnlyThread(t) /\ frame'[t] = g
BY DEF TypeOK, OnlyThread

\* A load that goes to its next phase.
LEMMA PhaseSteps ==
    ASSUME TypeOK, NEW t \in Threads, NEW p \in Pc, NEW S \in SUBSET Items,
           frame' = [frame EXCEPT ![t].pc = p, ![t].todo = S]
    PROVE  /\ OnlyThread(t) /\ SameLoad(t)
           /\ frame'[t].pc = p /\ frame'[t].todo = S
           /\ frame'[t].registered = frame[t].registered
<1> DEFINE g == [frame[t] EXCEPT !.pc = p, !.todo = S]
<1>1. frame[t] \in Frame
  BY DEF TypeOK
<1>2. /\ g \in Frame /\ g.pc = p /\ g.todo = S
      /\ g.module = frame[t].module /\ g.load = frame[t].load
      /\ g.declared = frame[t].declared
      /\ g.registered = frame[t].registered
  BY <1>1 DEF Frame
<1>3. frame' = [frame EXCEPT ![t] = g]
  OBVIOUS
<1> QED
  BY <1>2, <1>3, ThreadSteps DEF SameLoad

-----------------------------------------------------------------------------
(* The log *)

\* The oldest event goes, or one more comes: the numbers keep their places.
LEMMA Places ==
    /\ \A s, n, q, i \in Nat :
         s + n = q + (i + 1) - 1 => s + (n - 1) = q + i - 1
    /\ \A s, n, q, i \in Nat :
         s + n = q + i - 1 => s + (n + 1) = (q + 1) + i - 1
OBVIOUS

\* A log with the newest events still has them after one more.
LEMMA EmitKeepsNewest ==
    ASSUME log \in [next_seq : Nat, events : Seq(Event)], Newest(log),
           NEW k \in {"load_start", "load_ok", "load_error"},
           NEW m \in Modules, log' = Emit(log, k, m)
    PROVE  log' \in [next_seq : Nat, events : Seq(Event)] /\ Newest(log)'
<1> DEFINE e == [seq |-> log.next_seq, kind |-> k, module |-> m]
           kept == IF Len(log.events) < MaxEvents THEN log.events
                                                  ELSE Tail(log.events)
<1>1. /\ e \in Event /\ MaxEvents \in Nat \ {0}
      /\ log.next_seq \in Nat /\ log.events \in Seq(Event)
      /\ Len(log.events) \in Nat /\ Len(log.events) <= MaxEvents
      /\ Len(log.events) <= log.next_seq
      /\ \A i \in 1 .. Len(log.events) :
           log.events[i].seq + Len(log.events) = log.next_seq + i - 1
  BY MaxEventsAssumption DEF Event, Newest
<1>2. /\ kept \in Seq(Event) /\ Len(kept) \in Nat
      /\ Len(kept) < MaxEvents /\ Len(kept) <= log.next_seq
      /\ \A i \in 1 .. Len(kept) :
           kept[i].seq + Len(kept) = log.next_seq + i - 1
  <2>1. CASE Len(log.events) < MaxEvents
    BY <2>1, <1>1
  <2>2. CASE Len(log.events) >= MaxEvents
    <3>1. /\ Len(log.events) # 0 /\ kept = Tail(log.events)
          /\ Len(kept) = Len(log.events) - 1
          /\ kept \in Seq(Event)
          /\ \A i \in 1 .. Len(kept) : kept[i] = log.events[i + 1]
      BY <2>2, <1>1
    <3> HIDE DEF kept
    <3>2. ASSUME NEW i \in 1 .. Len(kept)
          PROVE  kept[i].seq + Len(kept) = log.next_seq + i - 1
      <4>1. i + 1 \in 1 .. Len(log.events)
        BY <3>1, <1>1
      <4>2. log.events[i + 1].seq + Len(log.events)
              = log.next_seq + (i + 1) - 1
        BY <4>1, <1>1
      <4>3. log.events[i + 1] \in Event
        BY <4>1, <1>1
      <4>4. log.events[i + 1].seq \in Nat
        BY <4>3 DEF Event
      <4>5. kept[i].seq = log.events[i + 1].seq
        BY <3>1
      <4>6. /\ Len(kept) = Len(log.events) - 1 /\ Len(log.events) \in Nat
            /\ log.next_seq \in Nat /\ i \in Nat
        BY <3>1, <1>1
      <4>7. \A s, n \in Nat : s + n = log.next_seq + (i + 1) - 1 =>
              s + (n - 1) = log.next_seq + i - 1
        BY <4>6, Places
      <4>8. log.events[i + 1].seq + (Len(log.events) - 1)
              = log.next_seq + i - 1
        BY <4>2, <4>4, <4>6, <4>7
      <4> QED
        BY <4>5, <4>6, <4>8
    <3> QED
      BY <3>1, <3>2, <2>2, <1>1
  <2> QED
    BY <2>1, <2>2, <1>1
<1>3. log' = [next_seq |-> log.next_seq + 1, events |-> Append(kept, e)]
  BY DEF Emit
<1> HIDE DEF kept, e
<1>4. /\ log'.events = Append(kept, e) /\ log'.next_seq = log.next_seq + 1
      /\ Append(kept, e) \in Seq(Event)
      /\ Len(Append(kept, e)) = Len(kept) + 1
      /\ Append(kept, e)[Len(kept) + 1] = e
      /\ \A i \in 1 .. Len(kept) : Append(kept, e)[i] = kept[i]
  BY <1>1, <1>2, <1>3
<1>5. \A i \in 1 .. Len(kept) + 1 :
        Append(kept, e)[i].seq + (Len(kept) + 1) = (log.next_seq + 1) + i - 1
  <2> TAKE i \in 1 .. Len(kept) + 1
  <2>1. CASE i = Len(kept) + 1
    <3>1. Append(kept, e)[i].seq = log.next_seq
      BY <2>1, <1>4 DEF e
    <3> QED
      BY <3>1, <2>1, <1>1, <1>2
  <2>2. CASE i \in 1 .. Len(kept)
    <3>1. kept[i] \in Event /\ Append(kept, e)[i] = kept[i]
      BY <2>2, <1>2, <1>4
    <3>2. kept[i].seq \in Nat
      BY <3>1 DEF Event
    <3>3. kept[i].seq + Len(kept) = log.next_seq + i - 1
      BY <2>2, <1>2
    <3>4. Len(kept) \in Nat /\ log.next_seq \in Nat /\ i \in Nat
      BY <1>1, <1>2
    <3>5. \A s, n \in Nat : s + n = log.next_seq + i - 1 =>
            s + (n + 1) = (log.next_seq + 1) + i - 1
      BY <3>4, Places
    <3>6. kept[i].seq + (Len(kept) + 1) = (log.next_seq + 1) + i - 1
      BY <3>2, <3>3, <3>4, <3>5
    <3> QED
      BY <3>1, <3>6
  <2> QED
    BY <2>1, <2>2, <1>2
<1>6. log' \in [next_seq : Nat, events : Seq(Event)]
  BY <1>1, <1>3, <1>4
<1>7. Newest(log)'
  <2>1. /\ Len(log'.events) = Len(kept) + 1
        /\ log'.next_seq = log.next_seq + 1
    BY <1>4
  <2>2. log'.events # <<>>
    <3>1. Len(log'.events) # Len(<<>>)
      BY <2>1, <1>2
    <3> QED
      BY <3>1
  <2>3. \A i \in 1 .. Len(log'.events) :
          log'.events[i].seq + Len(log'.events) = log'.next_seq + i - 1
    BY <2>1, <1>4, <1>5
  <2>4. Len(kept) + 1 <= MaxEvents /\ Len(kept) + 1 <= log'.next_seq
    BY <2>1, <1>1, <1>2
  <2> QED
    BY <2>1, <2>2, <2>3, <2>4 DEF Newest
<1> QED
  BY <1>6, <1>7

-----------------------------------------------------------------------------
(* Steps that are alike *)

\* The end of a phase: a lock is taken or given back, and what is left to
\* register is of the next surface.
LEMMA PhaseSafe ==
    ASSUME LInv, NEW t \in Threads, OnlyThread(t), SameLoad(t),
           UNCHANGED <<loads, moduleOf, current, installed, registry, records,
                       log, overlapped>>,
           con' \in Threads \cup {NoThread},
           frame[t].pc \in Registering, frame'[t].pc \in Registering,
           frame'[t].registered = frame[t].registered,
           TodoInv', Tried(t)' \subseteq Tried(t)
    PROVE  LInv'
<1>1. TypeOK'
  BY DEF LInv, TypeOK, OnlyThread
<1>2. FrameInv'
  BY DEF LInv, FrameInv, Loading, OnlyThread, SameLoad, Registering
<1>3. TriedInv'
  <2>1. \A u \in Threads : Tried(u)' \subseteq Tried(u)
    BY TriedOthers
  <2> QED
    BY <2>1 DEF LInv, TriedInv
<1>4. ServedInv'
  BY DEF LInv, ServedInv, Served, OnlyThread, SameLoad
<1>5. CurrentInv'
  BY DEF LInv, CurrentInv, OnlyThread, SameLoad, Registering
<1>6. ListedCallable' /\ OneHandlePerStorage' /\ LogContiguous'
  BY DEF LInv, ListedCallable, OneHandlePerStorage, LogContiguous, Newest
<1>7. RecordCurrent'
  BY DEF LInv, RecordCurrent, OnlyThread, SameLoad
<1> QED
  BY <1>1, <1>2, <1>3, <1>4, <1>5, <1>6, <1>7 DEF LInv

\* One item x is handed to DuckDB: it takes it or leaves what it has, and what
\* it has of a function or an aggregate stays.
LEMMA ItemSafe ==
    ASSUME LInv, NEW t \in Threads, NEW x \in Items,
           OnlyThread(t), SameLoad(t),
           UNCHANGED <<loads, moduleOf, current, registry, records, con, log,
                       overlapped>>,
           frame[t].pc \in Registering, frame'[t].pc = frame[t].pc,
           installed' \in [Items -> 0 .. MaxLoads],
           \A y \in Items \ {x} : installed'[y] = installed[y],
           installed'[x] \in {installed[x], frame[t].load},
           x \in Functions \cup Aggregates =>
             installed[x] = 0 \/ installed'[x] = installed[x],
           \/ frame'[t].registered = frame[t].registered
           \/ /\ frame'[t].registered = frame[t].registered \cup {x}
              /\ x \in Functions \cup Aggregates
              /\ installed'[x] = frame[t].load,
           TodoInv', Tried(t)' \subseteq Tried(t) \cup {x},
           x \in Tried(t)' \ Refused => installed'[x] # 0
    PROVE  LInv'
<1>1. TypeOK'
  BY DEF LInv, TypeOK, OnlyThread
<1>2. /\ frame[t].load \in 1 .. loads /\ loads \in Nat
      /\ moduleOf[frame[t].load] = frame[t].module
  BY DEF LInv, FrameInv, Loading, Registering, TypeOK
<1>3. \A y \in Items :
        /\ installed[y] \in Nat /\ installed'[y] \in Nat
        /\ installed[y] # 0 => installed'[y] # 0
        /\ installed[y] <= loads => installed'[y] <= loads
        /\ y \in Functions \cup Aggregates /\ installed[y] # 0 =>
             installed'[y] = installed[y]
  BY <1>2 DEF LInv, TypeOK
<1>4. FrameInv'
  BY DEF LInv, FrameInv, Loading, OnlyThread, SameLoad, Registering
<1>5. TriedInv'
  <2>1. ASSUME NEW u \in Threads, NEW y \in Tried(u)' \ Refused
        PROVE  installed'[y] # 0
    <3>1. y \in Items
      BY <1>1 DEF Tried, TypeOK, Frame
    <3>2. CASE u = t /\ y = x
      BY <3>2
    <3>3. CASE ~(u = t /\ y = x)
      <4>1. y \in Tried(u)
        BY <3>3, TriedOthers
      <4> QED
        BY <4>1, <3>1, <1>3 DEF LInv, TriedInv
    <3> QED
      BY <3>2, <3>3
  <2> QED
    BY <2>1 DEF LInv, TriedInv
<1>6. ServedInv'
  <2>1. ASSUME NEW m, NEW items, Served(m, items)
        PROVE  Served(m, items)'
    BY <2>1, <1>3 DEF Served, Items
  <2>2. ASSUME NEW u \in Threads
        PROVE  Served(frame[u].module, frame[u].registered)'
    <3>1. CASE u # t \/ frame'[u].registered = frame[u].registered
      BY <3>1, <2>1 DEF LInv, ServedInv, OnlyThread, SameLoad
    <3>2. CASE u = t /\ frame'[t].registered = frame[t].registered \cup {x}
      <4> DEFINE m == frame[t].module
                 items == frame[t].registered
      <4>1. \A y \in items : /\ y \in Functions \cup Aggregates
                             /\ installed'[y] # 0
                             /\ moduleOf'[installed'[y]] = m
        BY <1>3 DEF LInv, ServedInv, Served, Items
      <4>2. /\ installed'[x] # 0 /\ moduleOf'[installed'[x]] = m
            /\ x \in Functions \cup Aggregates
        BY <3>2, <4>1, <1>2
      <4> QED
        BY <4>1, <4>2, <3>2 DEF Served, SameLoad
    <3> QED
      BY <3>1, <3>2
  <2> QED
    BY <2>1, <2>2, <1>3 DEF LInv, ServedInv
<1>7. CurrentInv'
  BY DEF LInv, CurrentInv, OnlyThread, SameLoad, Registering
<1>8. ListedCallable'
  BY <1>3 DEF LInv, ListedCallable, TriedInv
<1>9. OneHandlePerStorage' /\ LogContiguous'
  BY DEF LInv, OneHandlePerStorage, LogContiguous, Newest
<1>10. RecordCurrent'
  BY DEF LInv, RecordCurrent, OnlyThread, SameLoad
<1> QED
  BY <1>1, <1>4, <1>5, <1>6, <1>7, <1>8, <1>9, <1>10 DEF LInv

-----------------------------------------------------------------------------
(* The steps *)

LEMMA LockConnectionSafe ==
    ASSUME LInv, NEW t \in Threads, LockConnection(t)
    PROVE  LInv'
<1>1. /\ OnlyThread(t) /\ SameLoad(t)
      /\ frame'[t].pc = "functions"
      /\ frame'[t].todo = frame[t].declared \cap Functions
      /\ frame'[t].registered = frame[t].registered
  <2> DEFINE S == frame[t].declared \cap Functions
  <2>1. S \in SUBSET Items
    BY DEF LInv, TypeOK, Frame
  <2>2. frame' = [frame EXCEPT ![t].pc = "functions", ![t].todo = S]
    BY DEF LockConnection
  <2>3. TypeOK /\ "functions" \in Pc
    BY DEF LInv, Pc
  <2> HIDE DEF S
  <2>4. /\ OnlyThread(t) /\ SameLoad(t)
        /\ frame'[t].pc = "functions" /\ frame'[t].todo = S
        /\ frame'[t].registered = frame[t].registered
    BY <2>1, <2>2, <2>3, PhaseSteps
  <2> QED
    BY <2>4 DEF S
<1>2. TodoInv'
  BY <1>1 DEF LockConnection, LInv, TodoInv, OnlyThread
<1>3. Tried(t)' \subseteq Tried(t)
  BY <1>1 DEF LockConnection, Tried, SameLoad
<1>4. con' \in Threads \cup {NoThread}
  BY DEF LockConnection, LInv, TypeOK
<1> QED
  BY <1>1, <1>2, <1>3, <1>4, PhaseSafe DEF LockConnection, Registering, Pc

LEMMA UnlockConnectionSafe ==
    ASSUME LInv, NEW t \in Threads, UnlockConnection(t)
    PROVE  LInv'
<1>1. /\ OnlyThread(t) /\ SameLoad(t)
      /\ frame'[t].pc = "aggregates"
      /\ frame'[t].todo = frame[t].declared \cap Aggregates
      /\ frame'[t].registered = frame[t].registered
  <2> DEFINE S == frame[t].declared \cap Aggregates
  <2>1. S \in SUBSET Items
    BY DEF LInv, TypeOK, Frame
  <2>2. frame' = [frame EXCEPT ![t].pc = "aggregates", ![t].todo = S]
    BY DEF UnlockConnection
  <2>3. TypeOK /\ "aggregates" \in Pc
    BY DEF LInv, Pc
  <2> HIDE DEF S
  <2>4. /\ OnlyThread(t) /\ SameLoad(t)
        /\ frame'[t].pc = "aggregates" /\ frame'[t].todo = S
        /\ frame'[t].registered = frame[t].registered
    BY <2>1, <2>2, <2>3, PhaseSteps
  <2> QED
    BY <2>4 DEF S
<1>2. TodoInv'
  BY <1>1 DEF UnlockConnection, LInv, TodoInv, OnlyThread
<1>3. Tried(t)' \subseteq Tried(t)
  BY <1>1 DEF UnlockConnection, Tried, SameLoad
<1>4. con' \in Threads \cup {NoThread}
  BY DEF UnlockConnection, LInv, TypeOK
<1> QED
  BY <1>1, <1>2, <1>3, <1>4, PhaseSafe DEF UnlockConnection, Registering, Pc

LEMMA AggregatesDoneSafe ==
    ASSUME LInv, NEW t \in Threads, AggregatesDone(t)
    PROVE  LInv'
<1>1. /\ OnlyThread(t) /\ SameLoad(t)
      /\ frame'[t].pc = "additive"
      /\ frame'[t].todo = frame[t].declared \cap Additive
      /\ frame'[t].registered = frame[t].registered
  <2> DEFINE S == frame[t].declared \cap Additive
  <2>1. S \in SUBSET Items
    BY DEF LInv, TypeOK, Frame
  <2>2. frame' = [frame EXCEPT ![t].pc = "additive", ![t].todo = S]
    BY DEF AggregatesDone
  <2>3. TypeOK /\ "additive" \in Pc
    BY DEF LInv, Pc
  <2> HIDE DEF S
  <2>4. /\ OnlyThread(t) /\ SameLoad(t)
        /\ frame'[t].pc = "additive" /\ frame'[t].todo = S
        /\ frame'[t].registered = frame[t].registered
    BY <2>1, <2>2, <2>3, PhaseSteps
  <2> QED
    BY <2>4 DEF S
<1>2. TodoInv'
  BY <1>1 DEF AggregatesDone, LInv, TodoInv, OnlyThread
<1>3. Tried(t)' \subseteq Tried(t)
  BY <1>1 DEF AggregatesDone, Tried, SameLoad
<1>4. con' \in Threads \cup {NoThread}
  BY DEF AggregatesDone, LInv, TypeOK
<1> QED
  BY <1>1, <1>2, <1>3, <1>4, PhaseSafe DEF AggregatesDone, Registering, Pc

LEMMA AdditiveDoneSafe ==
    ASSUME LInv, NEW t \in Threads, AdditiveDone(t)
    PROVE  LInv'
<1>1. /\ OnlyThread(t) /\ SameLoad(t)
      /\ frame'[t].pc = "publish"
      /\ frame'[t].todo = frame[t].declared \cap LogStorages
      /\ frame'[t].registered = frame[t].registered
  <2> DEFINE S == frame[t].declared \cap LogStorages
  <2>1. S \in SUBSET Items
    BY DEF LInv, TypeOK, Frame
  <2>2. frame' = [frame EXCEPT ![t].pc = "publish", ![t].todo = S]
    BY DEF AdditiveDone
  <2>3. TypeOK /\ "publish" \in Pc
    BY DEF LInv, Pc
  <2> HIDE DEF S
  <2>4. /\ OnlyThread(t) /\ SameLoad(t)
        /\ frame'[t].pc = "publish" /\ frame'[t].todo = S
        /\ frame'[t].registered = frame[t].registered
    BY <2>1, <2>2, <2>3, PhaseSteps
  <2> QED
    BY <2>4 DEF S
<1>2. TodoInv'
  BY <1>1 DEF AdditiveDone, LInv, TodoInv, OnlyThread
<1>3. Tried(t)' \subseteq Tried(t)
  BY <1>1 DEF AdditiveDone, Tried, SameLoad
<1>4. con' \in Threads \cup {NoThread}
  BY DEF AdditiveDone, LInv, TypeOK
<1> QED
  BY <1>1, <1>2, <1>3, <1>4, PhaseSafe DEF AdditiveDone, Registering, Pc

LEMMA StoragesDoneSafe ==
    ASSUME LInv, NEW t \in Threads, StoragesDone(t)
    PROVE  LInv'
<1>1. /\ OnlyThread(t) /\ SameLoad(t)
      /\ frame'[t].pc = "relock" /\ frame'[t].todo = frame[t].todo
      /\ frame'[t].registered = frame[t].registered
  <2>1. frame[t] \in Frame
    BY DEF LInv, TypeOK
  <2>2. [frame[t] EXCEPT !.pc = "relock"] \in Frame
    BY <2>1 DEF Frame, Pc
  <2> QED
    BY <2>1, <2>2, ThreadSteps DEF StoragesDone, LInv, TypeOK, Frame, SameLoad
<1>2. TodoInv'
  BY <1>1 DEF StoragesDone, LInv, TodoInv, OnlyThread
<1>3. Tried(t)' \subseteq Tried(t)
  BY <1>1 DEF StoragesDone, Tried, SameLoad
<1>4. con' \in Threads \cup {NoThread}
  BY DEF StoragesDone, LInv, TypeOK
<1> QED
  BY <1>1, <1>2, <1>3, <1>4, PhaseSafe DEF StoragesDone, Registering, Pc

LEMMA RelockConnectionSafe ==
    ASSUME LInv, NEW t \in Threads, RelockConnection(t)
    PROVE  LInv'
<1>1. /\ OnlyThread(t) /\ SameLoad(t)
      /\ frame'[t].pc = "macros"
      /\ frame'[t].todo = frame[t].declared \cap Macros
      /\ frame'[t].registered = frame[t].registered
  <2> DEFINE S == frame[t].declared \cap Macros
  <2>1. S \in SUBSET Items
    BY DEF LInv, TypeOK, Frame
  <2>2. frame' = [frame EXCEPT ![t].pc = "macros", ![t].todo = S]
    BY DEF RelockConnection
  <2>3. TypeOK /\ "macros" \in Pc
    BY DEF LInv, Pc
  <2> HIDE DEF S
  <2>4. /\ OnlyThread(t) /\ SameLoad(t)
        /\ frame'[t].pc = "macros" /\ frame'[t].todo = S
        /\ frame'[t].registered = frame[t].registered
    BY <2>1, <2>2, <2>3, PhaseSteps
  <2> QED
    BY <2>4 DEF S
<1>2. TodoInv'
  BY <1>1 DEF RelockConnection, LInv, TodoInv, OnlyThread
<1>3. Tried(t)' \subseteq Tried(t)
  BY <1>1 DEF RelockConnection, Tried, SameLoad
<1>4. con' \in Threads \cup {NoThread}
  BY DEF RelockConnection, LInv, TypeOK
<1> QED
  BY <1>1, <1>2, <1>3, <1>4, PhaseSafe DEF RelockConnection, Registering, Pc

LEMMA MacrosDoneSafe ==
    ASSUME LInv, NEW t \in Threads, MacrosDone(t)
    PROVE  LInv'
<1>1. /\ OnlyThread(t) /\ SameLoad(t)
      /\ frame'[t].pc = "record" /\ frame'[t].todo = frame[t].todo
      /\ frame'[t].registered = frame[t].registered
  <2>1. frame[t] \in Frame
    BY DEF LInv, TypeOK
  <2>2. [frame[t] EXCEPT !.pc = "record"] \in Frame
    BY <2>1 DEF Frame, Pc
  <2> QED
    BY <2>1, <2>2, ThreadSteps DEF MacrosDone, LInv, TypeOK, Frame, SameLoad
<1>2. TodoInv'
  BY <1>1 DEF MacrosDone, LInv, TodoInv, OnlyThread
<1>3. Tried(t)' \subseteq Tried(t)
  BY <1>1 DEF MacrosDone, Tried, SameLoad
<1>4. con' \in Threads \cup {NoThread}
  BY DEF MacrosDone, LInv, TypeOK
<1> QED
  BY <1>1, <1>2, <1>3, <1>4, PhaseSafe DEF MacrosDone, Registering, Pc

LEMMA RegisterFunctionSafe ==
    ASSUME LInv, NEW t \in Threads, NEW x \in Items, RegisterFunction(t, x)
    PROVE  LInv'
<1> USE DEF RegisterFunction, Register
<1>1. /\ x \in Functions /\ frame[t].load \in 0 .. MaxLoads
      /\ installed \in [Items -> 0 .. MaxLoads]
  BY DEF LInv, TypeOK, Frame, TodoInv
<1>2. /\ OnlyThread(t) /\ SameLoad(t)
      /\ frame'[t].pc = "functions" /\ frame'[t].todo = frame[t].todo \ {x}
  <2> DEFINE todo == frame[t].todo \ {x}
         g == [frame[t] EXCEPT !.todo = todo]
         h == [g EXCEPT !.registered = frame[t].registered \cup {x}]
  <2>1. frame[t] \in Frame
    BY DEF LInv, TypeOK
  <2>2. g \in Frame /\ h \in Frame
    BY <2>1 DEF Frame, Items
  <2>3. \/ frame' = [frame EXCEPT ![t] = g]
        \/ frame' = [frame EXCEPT ![t] = h]
    BY <2>1 DEF Frame
  <2>4. OnlyThread(t) /\ frame'[t] \in {g, h}
    BY <2>2, <2>3, ThreadSteps DEF LInv
  <2> QED
    BY <2>1, <2>4 DEF Frame, SameLoad
<1>3. /\ installed' \in [Items -> 0 .. MaxLoads]
      /\ \A y \in Items \ {x} : installed'[y] = installed[y]
      /\ installed'[x] \in {installed[x], frame[t].load}
      /\ x \in Functions \cup Aggregates =>
           installed[x] = 0 \/ installed'[x] = installed[x]
  BY <1>1, SurfacesAssumption DEF Accepts
<1>4. \/ frame'[t].registered = frame[t].registered
      \/ /\ frame'[t].registered = frame[t].registered \cup {x}
         /\ x \in Functions \cup Aggregates
         /\ installed'[x] = frame[t].load
  BY <1>1 DEF LInv, TypeOK, Frame
<1>5. TodoInv'
  BY <1>2 DEF LInv, TodoInv, OnlyThread
<1>6. Tried(t)' \subseteq Tried(t) \cup {x}
  BY <1>2 DEF Tried, SameLoad
<1>7. x \in Tried(t)' \ Refused => installed'[x] # 0
  BY <1>1, <1>2, SurfacesAssumption DEF LInv, FrameInv, Loading, Tried, Accepts
<1> QED
  BY <1>2, <1>3, <1>4, <1>5, <1>6, <1>7, ItemSafe DEF Registering, Pc

LEMMA RegisterAggregateSafe ==
    ASSUME LInv, NEW t \in Threads, NEW x \in Items, RegisterAggregate(t, x)
    PROVE  LInv'
<1> USE DEF RegisterAggregate, Register
<1>1. /\ x \in Aggregates /\ frame[t].load \in 0 .. MaxLoads
      /\ installed \in [Items -> 0 .. MaxLoads]
  BY DEF LInv, TypeOK, Frame, TodoInv
<1>2. /\ OnlyThread(t) /\ SameLoad(t)
      /\ frame'[t].pc = "aggregates" /\ frame'[t].todo = frame[t].todo \ {x}
  <2> DEFINE todo == frame[t].todo \ {x}
         g == [frame[t] EXCEPT !.todo = todo]
         h == [g EXCEPT !.registered = frame[t].registered \cup {x}]
  <2>1. frame[t] \in Frame
    BY DEF LInv, TypeOK
  <2>2. g \in Frame /\ h \in Frame
    BY <2>1 DEF Frame, Items
  <2>3. \/ frame' = [frame EXCEPT ![t] = g]
        \/ frame' = [frame EXCEPT ![t] = h]
    BY <2>1 DEF Frame
  <2>4. OnlyThread(t) /\ frame'[t] \in {g, h}
    BY <2>2, <2>3, ThreadSteps DEF LInv
  <2> QED
    BY <2>1, <2>4 DEF Frame, SameLoad
<1>3. /\ installed' \in [Items -> 0 .. MaxLoads]
      /\ \A y \in Items \ {x} : installed'[y] = installed[y]
      /\ installed'[x] \in {installed[x], frame[t].load}
      /\ x \in Functions \cup Aggregates =>
           installed[x] = 0 \/ installed'[x] = installed[x]
  BY <1>1, SurfacesAssumption DEF Accepts
<1>4. \/ frame'[t].registered = frame[t].registered
      \/ /\ frame'[t].registered = frame[t].registered \cup {x}
         /\ x \in Functions \cup Aggregates
         /\ installed'[x] = frame[t].load
  BY <1>1 DEF LInv, TypeOK, Frame
<1>5. TodoInv'
  BY <1>2 DEF LInv, TodoInv, OnlyThread
<1>6. Tried(t)' \subseteq Tried(t) \cup {x}
  BY <1>2 DEF Tried, SameLoad
<1>7. x \in Tried(t)' \ Refused => installed'[x] # 0
  BY <1>1, <1>2, SurfacesAssumption DEF LInv, FrameInv, Loading, Tried, Accepts
<1> QED
  BY <1>2, <1>3, <1>4, <1>5, <1>6, <1>7, ItemSafe DEF Registering, Pc

LEMMA RegisterAdditiveSafe ==
    ASSUME LInv, NEW t \in Threads, NEW x \in Items, RegisterAdditive(t, x)
    PROVE  LInv'
<1> USE DEF RegisterAdditive, Register
<1>1. /\ x \in Additive /\ frame[t].load \in 0 .. MaxLoads
      /\ installed \in [Items -> 0 .. MaxLoads]
  BY DEF LInv, TypeOK, Frame, TodoInv
<1>2. /\ OnlyThread(t) /\ SameLoad(t)
      /\ frame'[t].pc = "additive" /\ frame'[t].todo = frame[t].todo \ {x}
  <2> DEFINE todo == frame[t].todo \ {x}
         g == [frame[t] EXCEPT !.todo = todo]
  <2>1. frame[t] \in Frame
    BY DEF LInv, TypeOK
  <2>2. g \in Frame
    BY <2>1 DEF Frame
  <2>3. frame' = [frame EXCEPT ![t] = g]
    BY <2>1 DEF Frame
  <2>4. OnlyThread(t) /\ frame'[t] = g
    BY <2>2, <2>3, ThreadSteps DEF LInv
  <2>5. /\ g.pc = frame[t].pc /\ g.todo = todo
        /\ g.module = frame[t].module /\ g.load = frame[t].load
        /\ g.declared = frame[t].declared
    BY <2>1 DEF Frame
  <2> QED
    BY <2>4, <2>5 DEF Frame, SameLoad
<1>3. /\ installed' \in [Items -> 0 .. MaxLoads]
      /\ \A y \in Items \ {x} : installed'[y] = installed[y]
      /\ installed'[x] \in {installed[x], frame[t].load}
      /\ x \in Functions \cup Aggregates =>
           installed[x] = 0 \/ installed'[x] = installed[x]
  BY <1>1, SurfacesAssumption DEF Accepts
<1>4. \/ frame'[t].registered = frame[t].registered
      \/ /\ frame'[t].registered = frame[t].registered \cup {x}
         /\ x \in Functions \cup Aggregates
         /\ installed'[x] = frame[t].load
  BY <1>1 DEF LInv, TypeOK, Frame
<1>5. TodoInv'
  BY <1>2 DEF LInv, TodoInv, OnlyThread
<1>6. Tried(t)' \subseteq Tried(t) \cup {x}
  BY <1>2 DEF Tried, SameLoad
<1>7. x \in Tried(t)' \ Refused => installed'[x] # 0
  BY <1>1, <1>2, SurfacesAssumption DEF LInv, FrameInv, Loading, Tried, Accepts
<1> QED
  BY <1>2, <1>3, <1>4, <1>5, <1>6, <1>7, ItemSafe DEF Registering, Pc

LEMMA InstallStorageSafe ==
    ASSUME LInv, NEW t \in Threads, NEW x \in Items, InstallStorage(t, x)
    PROVE  LInv'
<1> USE DEF InstallStorage, Register
<1>1. /\ x \in LogStorages /\ frame[t].load \in 0 .. MaxLoads
      /\ installed \in [Items -> 0 .. MaxLoads]
  BY DEF LInv, TypeOK, Frame, TodoInv
<1>2. /\ OnlyThread(t) /\ SameLoad(t)
      /\ frame'[t].pc = "publish" /\ frame'[t].todo = frame[t].todo \ {x}
  <2> DEFINE todo == frame[t].todo \ {x}
         g == [frame[t] EXCEPT !.todo = todo, !.published = {}]
  <2>1. frame[t] \in Frame
    BY DEF LInv, TypeOK
  <2>2. g \in Frame
    BY <2>1 DEF Frame
  <2>3. frame' = [frame EXCEPT ![t] = g]
    BY <2>1 DEF Frame
  <2>4. OnlyThread(t) /\ frame'[t] = g
    BY <2>2, <2>3, ThreadSteps DEF LInv
  <2>5. /\ g.pc = frame[t].pc /\ g.todo = todo
        /\ g.module = frame[t].module /\ g.load = frame[t].load
        /\ g.declared = frame[t].declared
    BY <2>1 DEF Frame
  <2> QED
    BY <2>4, <2>5 DEF Frame, SameLoad
<1>3. /\ installed' \in [Items -> 0 .. MaxLoads]
      /\ \A y \in Items \ {x} : installed'[y] = installed[y]
      /\ installed'[x] \in {installed[x], frame[t].load}
      /\ x \in Functions \cup Aggregates =>
           installed[x] = 0 \/ installed'[x] = installed[x]
  BY <1>1, SurfacesAssumption DEF Accepts
<1>4. \/ frame'[t].registered = frame[t].registered
      \/ /\ frame'[t].registered = frame[t].registered \cup {x}
         /\ x \in Functions \cup Aggregates
         /\ installed'[x] = frame[t].load
  BY <1>1 DEF LInv, TypeOK, Frame
<1>5. TodoInv'
  BY <1>2 DEF LInv, TodoInv, OnlyThread
<1>6. Tried(t)' \subseteq Tried(t) \cup {x}
  BY <1>2 DEF Tried, SameLoad
<1>7. x \in Tried(t)' \ Refused => installed'[x] # 0
  BY <1>1, <1>2, SurfacesAssumption DEF LInv, FrameInv, Loading, Tried, Accepts
<1> QED
  BY <1>2, <1>3, <1>4, <1>5, <1>6, <1>7, ItemSafe DEF Registering, Pc

LEMMA CreateMacroSafe ==
    ASSUME LInv, NEW t \in Threads, NEW x \in Items, CreateMacro(t, x)
    PROVE  LInv'
<1> USE DEF CreateMacro, Register
<1>1. /\ x \in Macros /\ frame[t].load \in 0 .. MaxLoads
      /\ installed \in [Items -> 0 .. MaxLoads]
  BY DEF LInv, TypeOK, Frame, TodoInv
<1>2. /\ OnlyThread(t) /\ SameLoad(t)
      /\ frame'[t].pc = "macros" /\ frame'[t].todo = frame[t].todo \ {x}
  <2> DEFINE todo == frame[t].todo \ {x}
         g == [frame[t] EXCEPT !.todo = todo]
  <2>1. frame[t] \in Frame
    BY DEF LInv, TypeOK
  <2>2. g \in Frame
    BY <2>1 DEF Frame
  <2>3. frame' = [frame EXCEPT ![t] = g]
    BY <2>1 DEF Frame
  <2>4. OnlyThread(t) /\ frame'[t] = g
    BY <2>2, <2>3, ThreadSteps DEF LInv
  <2>5. /\ g.pc = frame[t].pc /\ g.todo = todo
        /\ g.module = frame[t].module /\ g.load = frame[t].load
        /\ g.declared = frame[t].declared
    BY <2>1 DEF Frame
  <2> QED
    BY <2>4, <2>5 DEF Frame, SameLoad
<1>3. /\ installed' \in [Items -> 0 .. MaxLoads]
      /\ \A y \in Items \ {x} : installed'[y] = installed[y]
      /\ installed'[x] \in {installed[x], frame[t].load}
      /\ x \in Functions \cup Aggregates =>
           installed[x] = 0 \/ installed'[x] = installed[x]
  BY <1>1, SurfacesAssumption DEF Accepts
<1>4. \/ frame'[t].registered = frame[t].registered
      \/ /\ frame'[t].registered = frame[t].registered \cup {x}
         /\ x \in Functions \cup Aggregates
         /\ installed'[x] = frame[t].load
  BY <1>1 DEF LInv, TypeOK, Frame
<1>5. TodoInv'
  BY <1>2 DEF LInv, TodoInv, OnlyThread
<1>6. Tried(t)' \subseteq Tried(t) \cup {x}
  BY <1>2 DEF Tried, SameLoad
<1>7. x \in Tried(t)' \ Refused => installed'[x] # 0
  BY <1>1, <1>2, SurfacesAssumption DEF LInv, FrameInv, Loading, Tried, Accepts
<1> QED
  BY <1>2, <1>3, <1>4, <1>5, <1>6, <1>7, ItemSafe DEF Registering, Pc

LEMMA BeginSafe ==
    ASSUME LInv, NEW t \in Threads, NEW m \in Modules, Begin(t, m)
    PROVE  LInv'
<1> DEFINE g == [NotLoading EXCEPT !.pc = "engine", !.module = m,
                                   !.load = loads']
<1>1. /\ loads \in Nat /\ loads < MaxLoads /\ loads' = loads + 1
      /\ loads' \in Loads
      /\ moduleOf' = [moduleOf EXCEPT ![loads'] = m]
      /\ UNCHANGED <<current, installed, registry, records, con>>
  BY MaxLoadsAssumption DEF Begin, LInv, TypeOK, Loads
<1>2. /\ g \in Frame /\ g.pc = "engine" /\ g.module = m /\ g.load = loads'
      /\ g.registered = {} /\ g.declared = {}
  <2>1. /\ NotLoading \in Frame /\ NotLoading.registered = {}
        /\ NotLoading.declared = {}
    BY MaxLoadsAssumption DEF NotLoading, Frame, Pc
  <2>2. loads' \in 0 .. MaxLoads /\ "engine" \in Pc
    BY <1>1, MaxLoadsAssumption DEF Pc
  <2> QED
    BY <2>1, <2>2 DEF Frame
<1>3. OnlyThread(t) /\ frame'[t] = g
  BY <1>2, ThreadSteps DEF Begin, LInv
<1> HIDE DEF g
<1>4. /\ log' \in [next_seq : Nat, events : Seq(Event)]
      /\ LogContiguous'
  BY EmitKeepsNewest DEF Begin, LInv, TypeOK, LogContiguous
<1>5. /\ moduleOf' \in [Loads -> Modules \cup {NoModule}]
      /\ moduleOf'[loads'] = m
      /\ \A l \in Loads : l # loads' => moduleOf'[l] = moduleOf[l]
  BY <1>1 DEF LInv, TypeOK
<1>6. TypeOK'
  BY <1>1, <1>3, <1>4, <1>5, MaxLoadsAssumption
  DEF Begin, LInv, TypeOK, OnlyThread, Loads
<1>7. FrameInv'
  <2>1. ASSUME NEW u \in Threads \ {t}, Loading(u)
        PROVE  /\ frame[u].module \in Modules
               /\ frame[u].load \in 1 .. loads
               /\ frame[u].load \in Loads /\ frame[u].load # loads'
               /\ moduleOf[frame[u].load] = frame[u].module
    <3>1. /\ frame[u].module \in Modules /\ frame[u].load \in 1 .. loads
          /\ moduleOf[frame[u].load] = frame[u].module
      BY <2>1 DEF LInv, FrameInv
    <3>2. \A l \in 1 .. loads : l \in Loads /\ l # loads'
      BY <1>1, MaxLoadsAssumption DEF Loads
    <3> QED
      BY <3>1, <3>2
  <2> QED
    BY <2>1, <1>1, <1>2, <1>3, <1>5
    DEF LInv, FrameInv, Loading, OnlyThread, Loads
<1>8. TodoInv'
  BY <1>2, <1>3 DEF LInv, TodoInv, OnlyThread
<1>9. TriedInv' /\ ListedCallable'
  <2>1. Tried(t)' = {}
    BY <1>2, <1>3 DEF Tried
  <2> QED
    BY <2>1, <1>1, <1>3, TriedOthers DEF LInv, TriedInv, ListedCallable
<1>10. ServedInv'
  <2>1. \A x \in Items : /\ installed[x] \in 0 .. loads
                         /\ installed[x] # 0 =>
                              /\ installed[x] \in Loads
                              /\ installed[x] # loads'
    BY <1>1 DEF LInv, ServedInv, TypeOK, Loads
  <2>2. ASSUME NEW n, NEW items, Served(n, items)
        PROVE  Served(n, items)'
    BY <2>1, <2>2, <1>1, <1>5 DEF Served, Items
  <2>3. Served(frame[t].module, frame[t].registered)'
    BY <1>2, <1>3 DEF Served
  <2>4. ASSUME NEW u \in Threads \ {t}
        PROVE  Served(frame[u].module, frame[u].registered)'
    BY <2>2, <1>3 DEF LInv, ServedInv, OnlyThread
  <2>5. \A n \in Modules : Served(n, records[n].registered)'
    BY <2>2, <1>1 DEF LInv, ServedInv
  <2>6. \A x \in Items : installed'[x] <= loads'
    BY <2>1, <1>1
  <2> QED
    BY <2>3, <2>4, <2>5, <2>6 DEF ServedInv
<1>11. CurrentInv' /\ RecordCurrent'
  <2>1. /\ overlapped \subseteq overlapped'
        /\ m \notin overlapped' => \A u \in Threads : frame[u].module # m
    BY DEF Begin
  <2>2. ASSUME NEW n \in Modules \ overlapped', n # m
        PROVE  /\ n \in Modules \ overlapped
               /\ \A u \in Threads : frame'[u].module = n =>
                    u # t /\ frame'[u] = frame[u]
    BY <2>1, <2>2, <1>2, <1>3 DEF OnlyThread
  <2>3. frame[t].module = NoModule
    BY DEF Begin, LInv, FrameInv, Loading, NotLoading
  <2>4. CurrentInv'
    BY <2>1, <2>2, <2>3, <1>1, <1>2, <1>3, NoModuleAssumption
    DEF LInv, CurrentInv, RecordCurrent, OnlyThread
  <2>5. RecordCurrent'
    BY <2>1, <2>2, <2>3, <1>1, <1>2, <1>3, NoModuleAssumption
    DEF LInv, RecordCurrent, OnlyThread
  <2> QED
    BY <2>4, <2>5
<1>12. OneHandlePerStorage'
  BY <1>1 DEF LInv, OneHandlePerStorage
<1> QED
  BY <1>4, <1>6, <1>7, <1>8, <1>9, <1>10, <1>11, <1>12 DEF LInv

LEMMA EngineLoadsSafe ==
    ASSUME LInv, NEW t \in Threads, EngineLoads(t)
    PROVE  LInv'
<1> PICK component \in Components :
      frame' = [frame EXCEPT ![t].pc = "lock", ![t].declared = component]
  BY DEF EngineLoads
<1> DEFINE g == [frame[t] EXCEPT !.pc = "lock", !.declared = component]
<1>1. /\ frame[t] \in Frame /\ frame[t].pc = "engine"
      /\ frame[t].module \in Modules
      /\ UNCHANGED <<loads, moduleOf, installed, registry, records, con, log,
                     overlapped>>
      /\ current' = [current EXCEPT ![frame[t].module] = frame[t].load]
  BY DEF EngineLoads, LInv, TypeOK, FrameInv, Loading
<1>2. /\ g \in Frame /\ g.pc = "lock" /\ g.todo = frame[t].todo
      /\ g.module = frame[t].module /\ g.load = frame[t].load
      /\ g.registered = frame[t].registered
  BY <1>1, ComponentsAssumption DEF Frame, Pc
<1>3. OnlyThread(t) /\ frame'[t] = g
  <2>1. frame' = [frame EXCEPT ![t] = g]
    OBVIOUS
  <2> HIDE DEF g
  <2> QED
    BY <2>1, <1>2, ThreadSteps DEF LInv
<1> HIDE DEF g
<1>4. TypeOK'
  BY <1>1, <1>3 DEF LInv, TypeOK, OnlyThread, Frame
<1>5. FrameInv'
  BY <1>1, <1>2, <1>3 DEF LInv, FrameInv, Loading, OnlyThread
<1>6. TodoInv'
  BY <1>2, <1>3 DEF LInv, TodoInv, OnlyThread
<1>7. TriedInv' /\ ListedCallable'
  <2>1. Tried(t)' = {}
    BY <1>2, <1>3 DEF Tried
  <2> QED
    BY <2>1, <1>1, <1>3, TriedOthers DEF LInv, TriedInv, ListedCallable
<1>8. ServedInv'
  BY <1>1, <1>2, <1>3 DEF LInv, ServedInv, Served, OnlyThread
<1>9. CurrentInv' /\ RecordCurrent'
  <2>1. /\ current'[frame[t].module] = frame[t].load
        /\ \A m \in Modules : m # frame[t].module => current'[m] = current[m]
    BY <1>1 DEF LInv, TypeOK
  <2> QED
    BY <2>1, <1>1, <1>2, <1>3
    DEF LInv, CurrentInv, RecordCurrent, OnlyThread
<1>10. OneHandlePerStorage' /\ LogContiguous'
  BY <1>1 DEF LInv, OneHandlePerStorage, LogContiguous, Newest
<1> QED
  BY <1>4, <1>5, <1>6, <1>7, <1>8, <1>9, <1>10 DEF LInv

\* The end of a load, with its record written or without one.
LEMMA EndSafe ==
    ASSUME LInv, NEW t \in Threads,
           frame[t].pc \in {"engine", "report"},
           frame' = [frame EXCEPT ![t] = NotLoading],
           NEW k \in {"load_error", "load_ok"},
           log' = Emit(log, k, frame[t].module),
           UNCHANGED <<loads, moduleOf, current, installed, registry, records,
                       con, overlapped>>
    PROVE  LInv'
<1>1. frame[t].module \in Modules
  BY DEF LInv, FrameInv, Loading
<1>2. /\ NotLoading \in Frame /\ NotLoading.pc = "idle"
      /\ NotLoading.module = NoModule /\ NotLoading.registered = {}
  BY MaxLoadsAssumption DEF NotLoading, Frame, Pc
<1>3. OnlyThread(t) /\ frame'[t] = NotLoading
  BY <1>2, ThreadSteps DEF LInv
<1>4. /\ log' \in [next_seq : Nat, events : Seq(Event)]
      /\ LogContiguous'
  BY <1>1, EmitKeepsNewest DEF LInv, TypeOK, LogContiguous
<1>5. TypeOK'
  BY <1>3, <1>4 DEF LInv, TypeOK, OnlyThread
<1>6. FrameInv'
  BY <1>2, <1>3 DEF LInv, FrameInv, Loading, OnlyThread
<1>7. TodoInv'
  BY <1>2, <1>3 DEF LInv, TodoInv, OnlyThread
<1>8. TriedInv' /\ ListedCallable'
  <2>1. Tried(t)' = {}
    BY <1>2, <1>3 DEF Tried
  <2> QED
    BY <2>1, <1>3, TriedOthers DEF LInv, TriedInv, ListedCallable
<1>9. ServedInv'
  BY <1>2, <1>3 DEF LInv, ServedInv, Served, OnlyThread
<1>10. CurrentInv' /\ RecordCurrent'
  BY <1>1, <1>2, <1>3, NoModuleAssumption
  DEF LInv, CurrentInv, RecordCurrent, OnlyThread
<1>11. OneHandlePerStorage'
  BY DEF LInv, OneHandlePerStorage
<1> QED
  BY <1>4, <1>5, <1>6, <1>7, <1>8, <1>9, <1>10, <1>11 DEF LInv

LEMMA PublishStorageSafe ==
    ASSUME LInv, NEW t \in Threads, NEW x \in Items, PublishStorage(t, x)
    PROVE  LInv'
<1> DEFINE g == [frame[t] EXCEPT !.published = {x}]
           fresh == [module : {frame[t].module}, name : {x},
                     load : {frame[t].load}]
           kept == {r \in registry :
                      ~(r.module = frame[t].module /\ r.name = x)}
<1>1. /\ frame[t] \in Frame /\ frame[t].pc = "publish" /\ x \in LogStorages
      /\ frame[t].module \in Modules /\ frame[t].load \in Loads
  <2>1. frame[t] \in Frame /\ frame[t].pc = "publish" /\ x \in LogStorages
    BY DEF PublishStorage, LInv, TypeOK, TodoInv
  <2>2. frame[t].module \in Modules /\ frame[t].load \in 1 .. loads
    BY <2>1 DEF LInv, FrameInv, Loading
  <2>3. loads \in 0 .. MaxLoads
    BY DEF LInv, TypeOK
  <2> QED
    BY <2>1, <2>2, <2>3, MaxLoadsAssumption DEF Loads
<1>2. /\ g \in Frame /\ g.pc = frame[t].pc /\ g.todo = frame[t].todo
      /\ g.module = frame[t].module /\ g.load = frame[t].load
      /\ g.declared = frame[t].declared
      /\ g.registered = frame[t].registered
  BY <1>1 DEF Frame
<1>3. OnlyThread(t) /\ SameLoad(t) /\ frame'[t] = g
  BY <1>2, ThreadSteps DEF PublishStorage, LInv, SameLoad
<1>4. UNCHANGED <<loads, moduleOf, current, installed, records, con, log,
                  overlapped>>
  BY DEF PublishStorage
<1>5. registry' = kept \cup fresh
  BY DEF PublishStorage
<1>6. fresh \subseteq Registration /\ kept \subseteq Registration
  BY <1>1 DEF LInv, TypeOK, Registration
<1> HIDE DEF g
<1>7. TypeOK'
  BY <1>3, <1>4, <1>5, <1>6 DEF LInv, TypeOK, OnlyThread
<1>8. FrameInv'
  BY <1>2, <1>3, <1>4, <1>1 DEF LInv, FrameInv, Loading, OnlyThread
<1>9. TodoInv'
  BY <1>2, <1>3 DEF LInv, TodoInv, OnlyThread
<1>10. TriedInv' /\ ListedCallable'
  <2>1. Tried(t)' = Tried(t)
    BY <1>2, <1>3 DEF Tried
  <2> QED
    BY <2>1, <1>3, <1>4, TriedOthers DEF LInv, TriedInv, ListedCallable
<1>11. ServedInv'
  BY <1>2, <1>3, <1>4 DEF LInv, ServedInv, Served, OnlyThread
<1>12. CurrentInv' /\ RecordCurrent'
  BY <1>1, <1>2, <1>3, <1>4 DEF LInv, CurrentInv, RecordCurrent, OnlyThread
<1>13. OneHandlePerStorage'
  <2>1. \A r, s \in fresh : r = s
    OBVIOUS
  <2>2. \A r \in kept, s \in fresh : ~(r.module = s.module /\ r.name = s.name)
    OBVIOUS
  <2>3. \A r, s \in kept : r.module = s.module /\ r.name = s.name => r = s
    BY DEF LInv, OneHandlePerStorage
  <2> HIDE DEF fresh, kept
  <2> QED
    BY <2>1, <2>2, <2>3, <1>5 DEF OneHandlePerStorage
<1>14. LogContiguous'
  BY <1>4 DEF LInv, LogContiguous, Newest
<1> QED
  BY <1>7, <1>8, <1>9, <1>10, <1>11, <1>12, <1>13, <1>14 DEF LInv

LEMMA WriteRecordSafe ==
    ASSUME LInv, NEW t \in Threads, WriteRecord(t)
    PROVE  LInv'
<1> DEFINE g == [frame[t] EXCEPT !.pc = "report"]
           m == frame[t].module
           rec == LiveRecord(t)
<1>1. /\ frame[t] \in Frame /\ frame[t].pc = "record" /\ m \in Modules
      /\ UNCHANGED <<loads, moduleOf, current, installed, registry, con, log,
                     overlapped>>
  BY DEF WriteRecord, LInv, TypeOK, FrameInv, Loading
<1>2. /\ g \in Frame /\ g.pc = "report" /\ g.todo = frame[t].todo
      /\ g.module = m /\ g.load = frame[t].load
      /\ g.declared = frame[t].declared
      /\ g.registered = frame[t].registered
  BY <1>1 DEF Frame, Pc
<1>3. OnlyThread(t) /\ SameLoad(t) /\ frame'[t] = g
  BY <1>2, ThreadSteps DEF WriteRecord, LInv, SameLoad
<1>4. /\ rec \in Record /\ rec.load = frame[t].load
      /\ rec.registered = frame[t].registered
      /\ rec.listed \subseteq Tried(t)
  BY <1>1 DEF LiveRecord, Record, Frame, Tried
<1>5. /\ records' \in [Modules -> Record]
      /\ records'[m] = rec
      /\ \A n \in Modules : n # m => records'[n] = records[n]
  BY <1>1, <1>4 DEF WriteRecord, LInv, TypeOK
<1> HIDE DEF g, rec
<1>6. TypeOK'
  BY <1>1, <1>3, <1>5 DEF LInv, TypeOK, OnlyThread
<1>7. FrameInv'
  BY <1>1, <1>2, <1>3 DEF LInv, FrameInv, Loading, OnlyThread
<1>8. TodoInv'
  BY <1>2, <1>3 DEF LInv, TodoInv, OnlyThread
<1>9. TriedInv' /\ ListedCallable'
  <2>1. Tried(t)' = Tried(t)
    BY <1>1, <1>2, <1>3 DEF Tried
  <2>2. \A u \in Threads : \A x \in Tried(u)' \ Refused : installed'[x] # 0
    BY <2>1, <1>1, <1>3, TriedOthers DEF LInv, TriedInv
  <2>3. \A n \in Modules : \A x \in records'[n].listed \ Refused :
          installed'[x] # 0
    BY <1>1, <1>4, <1>5 DEF LInv, TriedInv, ListedCallable
  <2>4. \A n \in Modules : records'[n].listed \subseteq Items
    BY <1>5 DEF Record
  <2> QED
    BY <2>2, <2>3, <2>4 DEF TriedInv, ListedCallable
<1>10. ServedInv'
  BY <1>1, <1>2, <1>3, <1>4, <1>5 DEF LInv, ServedInv, Served, OnlyThread
<1>11. CurrentInv' /\ RecordCurrent'
  BY <1>1, <1>2, <1>3, <1>4, <1>5
  DEF LInv, CurrentInv, RecordCurrent, OnlyThread
<1>12. OneHandlePerStorage' /\ LogContiguous'
  BY <1>1 DEF LInv, OneHandlePerStorage, LogContiguous, Newest
<1> QED
  BY <1>6, <1>7, <1>8, <1>9, <1>10, <1>11, <1>12 DEF LInv

-----------------------------------------------------------------------------
(* The storages *)

\* What the registry knows, and what DuckDB has of the storages, stay.
LEMMA StoragesStay ==
    ASSUME LInv, StorageInv, StoragesKeepEntry,
           NEW t \in Threads, UNCHANGED registry,
           \A u \in Threads \ {t} : frame'[u] = frame[u],
           \/ frame'[t].published = {}
           \/ /\ frame'[t].published = frame[t].published
              /\ frame'[t].module = frame[t].module,
           \A x \in LogStorages :
             /\ installed'[x] = installed[x]
             /\ installed[x] # 0 =>
                  moduleOf'[installed[x]] = moduleOf[installed[x]]
    PROVE  StorageInv' /\ StoragesKeepEntry'
<1>1. StorageInv'
  BY DEF StorageInv, Known
<1>2. StoragesKeepEntry'
  BY DEF StoragesKeepEntry
<1> QED
  BY <1>1, <1>2

LEMMA PublishKeepsStorages ==
    ASSUME LInv, StorageInv, StoragesKeepEntry,
           NEW t \in Threads, NEW x \in Items, PublishStorage(t, x)
    PROVE  StorageInv' /\ StoragesKeepEntry'
<1> DEFINE m == frame[t].module
<1>1. /\ \A u \in Threads \ {t} : frame'[u] = frame[u]
      /\ frame'[t].published = {x} /\ frame'[t].module = m
  BY DEF PublishStorage, LInv, TypeOK, Frame
<1>2. Known(x, m)'
  <2> DEFINE r == [module |-> m, name |-> x, load |-> frame[t].load]
  <2>1. r \in registry' /\ r.name = x /\ r.module = m
    BY DEF PublishStorage
  <2> HIDE DEF r
  <2>2. \E q \in registry' : q.name = x /\ q.module = m
    BY <2>1
  <2> QED
    BY <2>2, <1>1 DEF Known
<1>3. \A y, n : Known(y, n) => \E r \in registry' : r.name = y /\ r.module = n
  <2>1. ASSUME NEW y, NEW n, NEW r \in registry, r.name = y, r.module = n,
               ~(n = m /\ y = x)
        PROVE  r \in registry'
    BY <2>1 DEF PublishStorage
  <2>2. \E r \in registry' : r.name = x /\ r.module = m
    BY <1>2, <1>1 DEF Known
  <2> QED
    BY <2>1, <2>2 DEF Known
<1>4. StorageInv'
  BY <1>1, <1>2, <1>3 DEF StorageInv, Known
<1>5. StoragesKeepEntry'
  <2>1. UNCHANGED <<installed, moduleOf>>
    BY DEF PublishStorage
  <2> QED
    BY <2>1, <1>3 DEF StoragesKeepEntry, Known
<1> QED
  BY <1>4, <1>5

LEMMA InstallKeepsStorages ==
    ASSUME LInv, StorageInv, StoragesKeepEntry,
           NEW t \in Threads, NEW x \in Items, InstallStorage(t, x)
    PROVE  StorageInv' /\ StoragesKeepEntry'
<1>1. /\ \A u \in Threads \ {t} : frame'[u] = frame[u]
      /\ frame'[t].published = {}
      /\ x \in frame[t].published
      /\ UNCHANGED <<registry, moduleOf>>
  BY DEF InstallStorage, LInv, TypeOK, Frame
<1>2. /\ \A y \in LogStorages \ {x} : installed'[y] = installed[y]
      /\ installed'[x] \in {installed[x], frame[t].load}
  BY DEF InstallStorage, LInv, TypeOK, Items
<1>3. moduleOf[frame[t].load] = frame[t].module /\ Known(x, frame[t].module)
  BY <1>1 DEF InstallStorage, LInv, FrameInv, Loading, StorageInv
<1>4. StorageInv'
  BY <1>1 DEF StorageInv, Known
<1>5. StoragesKeepEntry'
  BY <1>1, <1>2, <1>3 DEF StoragesKeepEntry, Known
<1> QED
  BY <1>4, <1>5

LEMMA BeginKeepsStorages ==
    ASSUME LInv, StorageInv, StoragesKeepEntry,
           NEW t \in Threads, NEW m \in Modules, Begin(t, m)
    PROVE  StorageInv' /\ StoragesKeepEntry'
<1>1. /\ \A u \in Threads \ {t} : frame'[u] = frame[u]
      /\ frame'[t].published = {}
      /\ UNCHANGED <<registry, installed>>
  BY DEF Begin, LInv, TypeOK, Frame, NotLoading
<1>2. \A x \in LogStorages : moduleOf'[installed[x]] = moduleOf[installed[x]]
  <2>1. \A x \in Items : installed[x] # loads + 1
    BY DEF LInv, TypeOK, ServedInv
  <2> QED
    BY <2>1 DEF Begin, LInv, TypeOK, Items, Loads
<1> QED
  BY <1>1, <1>2, StoragesStay

LEMMA NextKeepsStorages ==
    LInv /\ StorageInv /\ StoragesKeepEntry /\ [Next]_vars =>
        StorageInv' /\ StoragesKeepEntry'
<1> SUFFICES ASSUME LInv, StorageInv, StoragesKeepEntry, [Next]_vars
             PROVE  StorageInv' /\ StoragesKeepEntry'
  OBVIOUS
<1>1. CASE UNCHANGED vars
  BY <1>1 DEF vars, StorageInv, Known, StoragesKeepEntry
<1>2. ASSUME NEW t \in Threads, Progress(t)
      PROVE  StorageInv' /\ StoragesKeepEntry'
  <2> DEFINE Quiet ==
        /\ UNCHANGED <<registry, moduleOf>>
        /\ \A y \in LogStorages : installed'[y] = installed[y]
        /\ \A u \in Threads \ {t} : frame'[u] = frame[u]
        /\ \/ frame'[t].published = {}
           \/ /\ frame'[t].published = frame[t].published
              /\ frame'[t].module = frame[t].module
  <2>1. ASSUME Quiet PROVE StorageInv' /\ StoragesKeepEntry'
    BY <2>1, StoragesStay
  <2>2. /\ frame \in [Threads -> Frame] /\ frame[t] \in Frame
        /\ installed \in [Items -> 0 .. MaxLoads]
        /\ frame[t].pc = "functions" => frame[t].todo \subseteq Functions
        /\ frame[t].pc = "aggregates" => frame[t].todo \subseteq Aggregates
        /\ frame[t].pc = "additive" => frame[t].todo \subseteq Additive
        /\ frame[t].pc = "macros" => frame[t].todo \subseteq Macros
    BY DEF LInv, TypeOK, TodoInv
  <2>3. ASSUME EngineLoads(t) PROVE Quiet
    BY <2>3, <2>2 DEF EngineLoads, Frame
  <2>4. ASSUME EngineFails(t) \/ Report(t) PROVE Quiet
    BY <2>4, <2>2 DEF EngineFails, Report, NotLoading, Frame
  <2>5. ASSUME LockConnection(t) \/ UnlockConnection(t) \/ AggregatesDone(t)
               \/ AdditiveDone(t)
        PROVE  Quiet
    BY <2>5, <2>2 DEF LockConnection, UnlockConnection, AggregatesDone,
                      AdditiveDone, Frame
  <2>6. ASSUME StoragesDone(t) \/ RelockConnection(t) \/ MacrosDone(t)
               \/ WriteRecord(t)
        PROVE  Quiet
    BY <2>6, <2>2 DEF StoragesDone, RelockConnection, MacrosDone, WriteRecord,
                      Frame
  <2>7. ASSUME NEW x \in Items, RegisterFunction(t, x) PROVE Quiet
    <3>1. x \in Functions
      BY <2>7, <2>2 DEF RegisterFunction
    <3> QED
      BY <3>1, <2>7, <2>2, SurfacesAssumption
      DEF RegisterFunction, Register, Items, Frame
  <2>8. ASSUME NEW x \in Items, RegisterAggregate(t, x) PROVE Quiet
    <3>1. x \in Aggregates
      BY <2>8, <2>2 DEF RegisterAggregate
    <3> QED
      BY <3>1, <2>8, <2>2, SurfacesAssumption
      DEF RegisterAggregate, Register, Items, Frame
  <2>9. ASSUME NEW x \in Items, RegisterAdditive(t, x) PROVE Quiet
    <3>1. x \in Additive
      BY <2>9, <2>2 DEF RegisterAdditive
    <3> QED
      BY <3>1, <2>9, <2>2, SurfacesAssumption
      DEF RegisterAdditive, Items, Frame
  <2>10. ASSUME NEW x \in Items, CreateMacro(t, x) PROVE Quiet
    <3>1. x \in Macros
      BY <2>10, <2>2 DEF CreateMacro
    <3> QED
      BY <3>1, <2>10, <2>2, SurfacesAssumption DEF CreateMacro, Items, Frame
  <2>11. ASSUME NEW x \in Items, PublishStorage(t, x) \/ InstallStorage(t, x)
         PROVE  StorageInv' /\ StoragesKeepEntry'
    BY <2>11, PublishKeepsStorages, InstallKeepsStorages
  <2> HIDE DEF Quiet
  <2> QED
    BY <1>2, <2>1, <2>3, <2>4, <2>5, <2>6, <2>7, <2>8, <2>9, <2>10, <2>11
    DEF Progress
<1>3. ASSUME NEW t \in Threads, NEW m \in Modules, Begin(t, m)
      PROVE  StorageInv' /\ StoragesKeepEntry'
  BY <1>3, BeginKeepsStorages
<1> QED
  BY <1>1, <1>2, <1>3 DEF Next, AtRest

-----------------------------------------------------------------------------
(* The connection *)

\* A load takes the connection, gives it back, or does neither.
LEMMA ConnectionStep ==
    ASSUME ConnectionExact, NEW t \in Threads,
           \A u \in Threads \ {t} : frame'[u] = frame[u],
           \/ UNCHANGED con /\ Registers(t)' = Registers(t)
           \/ con = NoThread /\ con' = t /\ Registers(t)'
           \/ Registers(t) /\ con' = NoThread /\ ~Registers(t)'
    PROVE  ConnectionExact'
<1>1. \A u \in Threads \ {t} : Registers(u)' = Registers(u)
  BY DEF Registers
<1>2. con' = t <=> Registers(t)'
  BY NoThreadAssumption DEF ConnectionExact
<1>3. \A u \in Threads \ {t} : con' = u <=> con = u
  BY NoThreadAssumption DEF ConnectionExact
<1> QED
  BY <1>1, <1>2, <1>3 DEF ConnectionExact

LEMMA NextConnection ==
    LInv /\ ConnectionExact /\ [Next]_vars => ConnectionExact'
<1> SUFFICES ASSUME LInv, ConnectionExact, [Next]_vars
             PROVE  ConnectionExact'
  OBVIOUS
<1>0. /\ frame \in [Threads -> Frame]
      /\ \A t \in Threads : frame[t] \in Frame
  BY DEF LInv, TypeOK
<1>1. CASE UNCHANGED vars \/ AtRest
  BY <1>1 DEF vars, AtRest, ConnectionExact, Registers
<1>2. ASSUME NEW t \in Threads, NEW p \in Pc, NEW todo,
             \/ frame' = [frame EXCEPT ![t].pc = p]
             \/ frame' = [frame EXCEPT ![t].pc = p, ![t].todo = todo]
      PROVE  /\ frame'[t].pc = p
             /\ \A u \in Threads \ {t} : frame'[u] = frame[u]
  BY <1>0, <1>2 DEF Frame
<1>3. ASSUME NEW t \in Threads, LockConnection(t) \/ RelockConnection(t)
      PROVE  ConnectionExact'
  <2>1. /\ frame'[t].pc \in {"functions", "macros"}
        /\ \A u \in Threads \ {t} : frame'[u] = frame[u]
    BY <1>2, <1>3 DEF LockConnection, RelockConnection, Pc
  <2>2. con = NoThread /\ con' = t
    BY <1>3 DEF LockConnection, RelockConnection
  <2> QED
    BY <2>1, <2>2, ConnectionStep DEF Registers
<1>4. ASSUME NEW t \in Threads, UnlockConnection(t) \/ MacrosDone(t)
      PROVE  ConnectionExact'
  <2>1. /\ frame'[t].pc \in {"aggregates", "record"}
        /\ \A u \in Threads \ {t} : frame'[u] = frame[u]
    BY <1>2, <1>4 DEF UnlockConnection, MacrosDone, Pc
  <2>2. frame[t].pc \in {"functions", "macros"} /\ con' = NoThread
    BY <1>4 DEF UnlockConnection, MacrosDone
  <2> QED
    BY <2>1, <2>2, ConnectionStep DEF Registers
<1>5. ASSUME NEW t \in Threads, UNCHANGED con,
             frame'[t].pc \notin {"functions", "macros"},
             frame[t].pc \notin {"functions", "macros"},
             \A u \in Threads \ {t} : frame'[u] = frame[u]
      PROVE  ConnectionExact'
  BY <1>5, ConnectionStep DEF Registers
<1>6. ASSUME NEW t \in Threads,
             \/ AggregatesDone(t) \/ AdditiveDone(t) \/ StoragesDone(t)
             \/ WriteRecord(t)
      PROVE  ConnectionExact'
  <2>1. /\ frame'[t].pc \in {"additive", "publish", "relock", "report"}
        /\ \A u \in Threads \ {t} : frame'[u] = frame[u]
    BY <1>2, <1>6
    DEF AggregatesDone, AdditiveDone, StoragesDone, WriteRecord, Pc
  <2>2. /\ frame[t].pc \in {"aggregates", "additive", "publish", "record"}
        /\ UNCHANGED con
    BY <1>6 DEF AggregatesDone, AdditiveDone, StoragesDone, WriteRecord
  <2> QED
    BY <2>1, <2>2, <1>5
<1>7. ASSUME NEW t \in Threads, EngineLoads(t) PROVE ConnectionExact'
  <2>1. /\ frame'[t].pc = "lock"
        /\ \A u \in Threads \ {t} : frame'[u] = frame[u]
    BY <1>0, <1>7 DEF EngineLoads, Frame
  <2>2. frame[t].pc = "engine" /\ UNCHANGED con
    BY <1>7 DEF EngineLoads
  <2> QED
    BY <2>1, <2>2, <1>5
<1>8. ASSUME NEW t \in Threads, EngineFails(t) \/ Report(t)
      PROVE  ConnectionExact'
  <2>1. /\ frame'[t].pc = "idle"
        /\ \A u \in Threads \ {t} : frame'[u] = frame[u]
    BY <1>0, <1>8 DEF EngineFails, Report, NotLoading
  <2>2. frame[t].pc \in {"engine", "report"} /\ UNCHANGED con
    BY <1>8 DEF EngineFails, Report
  <2> QED
    BY <2>1, <2>2, <1>5
<1>9. ASSUME NEW t \in Threads, NEW m \in Modules, Begin(t, m)
      PROVE  ConnectionExact'
  <2>1. /\ frame'[t].pc = "engine"
        /\ \A u \in Threads \ {t} : frame'[u] = frame[u]
    BY <1>0, <1>9 DEF Begin, NotLoading
  <2>2. frame[t].pc = "idle" /\ UNCHANGED con
    BY <1>9 DEF Begin
  <2> QED
    BY <2>1, <2>2, <1>5
<1>10. ASSUME NEW t \in Threads, UNCHANGED con, frame'[t].pc = frame[t].pc,
              \A u \in Threads \ {t} : frame'[u] = frame[u]
       PROVE  ConnectionExact'
  BY <1>10, ConnectionStep DEF Registers
<1>11. ASSUME NEW t \in Threads, NEW x \in Items,
              RegisterFunction(t, x) \/ RegisterAggregate(t, x)
       PROVE  ConnectionExact'
  BY <1>0, <1>10, <1>11
  DEF RegisterFunction, RegisterAggregate, Register, Frame
<1>12. ASSUME NEW t \in Threads, NEW x \in Items,
              \/ RegisterAdditive(t, x) \/ PublishStorage(t, x)
              \/ InstallStorage(t, x) \/ CreateMacro(t, x)
       PROVE  ConnectionExact'
  BY <1>0, <1>10, <1>12
  DEF RegisterAdditive, PublishStorage, InstallStorage, CreateMacro, Frame
<1> QED
  BY <1>1, <1>3, <1>4, <1>6, <1>7, <1>8, <1>9, <1>11, <1>12
  DEF Next, Progress

-----------------------------------------------------------------------------
(* The theorems *)

LEMMA InitSafe == Init => LInv
<1> SUFFICES ASSUME Init PROVE LInv
  OBVIOUS
<1> USE DEF Init
<1>1. /\ \A t \in Threads : frame[t] = NotLoading
      /\ NotLoading \in Frame /\ NotLoading.pc = "idle"
      /\ NotLoading.module = NoModule /\ NotLoading.registered = {}
      /\ NoRecord \in Record /\ NoRecord.load = 0
      /\ NoRecord.listed = {} /\ NoRecord.registered = {}
  BY MaxLoadsAssumption DEF NotLoading, Frame, Pc, NoRecord, Record
<1>2. EmptyLog \in [next_seq : Nat, events : Seq(Event)] /\ Newest(EmptyLog)
  BY MaxEventsAssumption DEF EmptyLog, Newest
<1>3. TypeOK
  BY <1>1, <1>2, MaxLoadsAssumption DEF TypeOK, Loads
<1>4. FrameInv /\ TodoInv
  BY <1>1 DEF FrameInv, TodoInv, Loading
<1>5. TriedInv /\ ListedCallable
  BY <1>1 DEF TriedInv, Tried, ListedCallable
<1>6. ServedInv
  BY <1>1 DEF ServedInv, Served
<1>7. CurrentInv /\ RecordCurrent
  BY <1>1, NoModuleAssumption DEF CurrentInv, RecordCurrent
<1>8. OneHandlePerStorage /\ LogContiguous
  BY <1>2 DEF OneHandlePerStorage, LogContiguous
<1> QED
  BY <1>3, <1>4, <1>5, <1>6, <1>7, <1>8 DEF LInv

LEMMA NextSafe == LInv /\ [Next]_vars => LInv'
<1> SUFFICES ASSUME LInv, [Next]_vars PROVE LInv'
  OBVIOUS
<1>1. ASSUME UNCHANGED vars PROVE LInv'
  <2>1. TypeOK' /\ FrameInv' /\ TodoInv'
    BY <1>1 DEF vars, LInv, TypeOK, FrameInv, Loading, TodoInv
  <2>2. TriedInv' /\ ServedInv' /\ CurrentInv'
    BY <1>1 DEF vars, LInv, TriedInv, Tried, ServedInv, Served, CurrentInv
  <2>3. /\ ListedCallable' /\ RecordCurrent' /\ OneHandlePerStorage'
        /\ LogContiguous'
    BY <1>1 DEF vars, LInv, ListedCallable, RecordCurrent,
                OneHandlePerStorage, LogContiguous, Newest
  <2> QED
    BY <2>1, <2>2, <2>3 DEF LInv
<1>2. ASSUME NEW t \in Threads, Progress(t) PROVE LInv'
  <2>1. CASE EngineLoads(t)
    BY <2>1, EngineLoadsSafe
  <2>2. CASE EngineFails(t)
    BY <2>2, EndSafe DEF EngineFails
  <2>3. CASE LockConnection(t)
    BY <2>3, LockConnectionSafe
  <2>4. CASE UnlockConnection(t)
    BY <2>4, UnlockConnectionSafe
  <2>5. CASE AggregatesDone(t)
    BY <2>5, AggregatesDoneSafe
  <2>6. CASE AdditiveDone(t)
    BY <2>6, AdditiveDoneSafe
  <2>7. CASE StoragesDone(t)
    BY <2>7, StoragesDoneSafe
  <2>8. CASE RelockConnection(t)
    BY <2>8, RelockConnectionSafe
  <2>9. CASE MacrosDone(t)
    BY <2>9, MacrosDoneSafe
  <2>10. CASE WriteRecord(t)
    BY <2>10, WriteRecordSafe
  <2>11. CASE Report(t)
    BY <2>11, EndSafe DEF Report
  <2>12. ASSUME NEW x \in Items,
                \/ RegisterFunction(t, x) \/ RegisterAggregate(t, x)
                \/ RegisterAdditive(t, x) \/ PublishStorage(t, x)
                \/ InstallStorage(t, x) \/ CreateMacro(t, x)
         PROVE  LInv'
    BY <2>12, RegisterFunctionSafe, RegisterAggregateSafe,
       RegisterAdditiveSafe, PublishStorageSafe, InstallStorageSafe,
       CreateMacroSafe
  <2> QED
    BY <1>2, <2>1, <2>2, <2>3, <2>4, <2>5, <2>6, <2>7, <2>8, <2>9, <2>10,
       <2>11, <2>12 DEF Progress
<1>3. ASSUME NEW t \in Threads, NEW m \in Modules, Begin(t, m) PROVE LInv'
  BY <1>3, BeginSafe
<1> QED
  BY <1>1, <1>2, <1>3 DEF Next, AtRest

\* The inductive invariant holds in every reachable state.
THEOREM PipelineSafe == Spec => []LInv
BY InitSafe, NextSafe, PTL DEF Spec

\* Every reachable state of the load pipeline is well typed.
THEOREM PipelineTypeCorrect == Spec => []TypeOK
BY PipelineSafe, PTL DEF LInv

\* What a record lists can be called unless DuckDB refuses it, however many
\* loads register the same names at once.
THEOREM ListedAreCallable == Spec => []ListedCallable
BY PipelineSafe, PTL DEF LInv

\* What a record counts is served from a load of its module.
THEOREM CountsAreServed == Spec => []CountsServed
<1>1. LInv => CountsServed
  BY DEF LInv, ServedInv, Served, CountsServed
<1> QED
  BY <1>1, PipelineSafe, PTL

\* Where the loads of a name do not overlap, the record is that of the
\* instance the engine has.
THEOREM RecordsAreCurrent == Spec => []RecordCurrent
BY PipelineSafe, PTL DEF LInv

\* The registry of log storages has one handle for a module's storage.
THEOREM StoragesHaveOneHandle == Spec => []OneHandlePerStorage
BY PipelineSafe, PTL DEF LInv

\* A storage that DuckDB calls has an entry of its name and of its module in
\* the registry: only another load of that module can have taken its handle.
THEOREM StoragesKeepTheirEntry == Spec => []StoragesKeepEntry
<1>1. Init => StorageInv /\ StoragesKeepEntry
  <2>1. NotLoading.published = {}
    BY DEF NotLoading
  <2> QED
    BY <2>1 DEF Init, StorageInv, StoragesKeepEntry, Items
<1>2. Spec => []LInv
  BY PipelineSafe
<1>3. Spec => [](StorageInv /\ StoragesKeepEntry)
  BY <1>1, <1>2, NextKeepsStorages, PTL DEF Spec
<1> QED
  BY <1>3, PTL

\* The connection is used by one load at a time, and every way a load goes on
\* from it gives it back: a load that waits for it waits for one that has a
\* step to make.
THEOREM ConnectionIsGivenBack == Spec => []ConnectionExact
<1>1. Init => ConnectionExact
  BY NoThreadAssumption DEF Init, NotLoading, ConnectionExact, Registers
<1>2. Spec => []LInv
  BY PipelineSafe
<1> QED
  BY <1>1, <1>2, NextConnection, PTL DEF Spec

\* The event log holds the newest events, numbered without a gap.
THEOREM LogIsContiguous == Spec => []LogContiguous
BY PipelineSafe, PTL DEF LInv

=============================================================================
