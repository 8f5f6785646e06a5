--------------------------- MODULE SessionsProofs ---------------------------
(***************************************************************************)
(* Proofs about Sessions, for every number of statements, of loads and of  *)
(* batches.  The host passes a number to whichever instance is loaded, so  *)
(* that a stream is whole is proved under either of two conditions:        *)
(*   - instances never hand out a number of one another's (NumbersApart);  *)
(*   - or they hand out any numbers, and no load comes while a statement   *)
(*     has a reader, a writer or a cursor (LoadsBetween).                  *)
(***************************************************************************)
EXTENDS Sessions, TLAPS

NumbersApart ==
    \A i, j \in Loads : i # j => Numbers[i] \cap Numbers[j] = {}

\* What a load of the component may find, as a condition on a step.
LoadsBetween ==
    current' # current => \A s \in Sessions : frame[s].number = 0

-----------------------------------------------------------------------------
(* The inductive invariant *)

\* An instance has objects only under its own numbers, and none before it is
\* loaded.
ObjectsHaveOwners ==
    \A i \in Loads, n \in AllNumbers :
        /\ guest[i][n].is = "unused" => guest[i][n] = Unused
        /\ guest[i][n].is # "unused" =>
            /\ guest[i][n].of \in Sessions
            /\ n \in Numbers[i]
            /\ i <= current

\* The number in a frame is that of an object the session opened.
NumberHasObject(s) ==
    frame[s].number # 0 =>
        /\ frame[s].number \in AllNumbers
        /\ \E i \in Loads : guest[i][frame[s].number].of = s

\* Until it is gone, a session has no object but the one in its frame; while
\* it is open, as much went through the object as through the session.
ObjectsHaveFrame(s) ==
    \A i \in Loads, n \in AllNumbers : guest[i][n].of = s =>
        /\ frame[s].phase # "gone" => frame[s].number = n
        /\ frame[s].phase = "open" => guest[i][n].at = Len(received[s])

NothingBeforeOpen(s) ==
    frame[s].phase \in {"idle", "bound"} =>
        frame[s].number = 0 /\ received[s] = <<>> /\ frame[s].eof = FALSE

InOrder(s) == \A k \in DOMAIN received[s] : received[s][k] = k

NotCutOff(s) ==
    /\ frame[s].eof => Len(received[s]) = Batches
    /\ frame[s].phase = "finalized" => written[s] = Len(received[s])

\* NothingLeftOpen, of one session.
LeftClosed(s) ==
    frame[s].phase = "gone" /\ frame[s].kind # "write" =>
        \A n \in AllNumbers : guest[current][n].of = s =>
            guest[current][n].is \in {"closed", "kept"}

SessionSafe(s) ==
    /\ NumberHasObject(s)
    /\ ObjectsHaveFrame(s)
    /\ NothingBeforeOpen(s)
    /\ InOrder(s)
    /\ NotCutOff(s)
    /\ LeftClosed(s)

IInv ==
    /\ TypeOK
    /\ ObjectsHaveOwners
    /\ \A s \in Sessions : SessionSafe(s)

\* No number leads to another's object: what either condition is for.
OwnObjects ==
    \A s \in Sessions : IsOpen(frame[s].number) =>
        \A i \in Loads : guest[i][frame[s].number].of = s => i = current

\* Where loads come between statements, a statement has its object in the
\* instance that is loaded.
ObjectsHere ==
    \A s \in Sessions : frame[s].number # 0 =>
        \A i \in Loads : guest[i][frame[s].number].of = s => i = current

LEMMA SafeMeans ==
    IInv => BatchesInOrder /\ NothingCutOff /\ NothingLeftOpen
BY DEF IInv, SessionSafe, InOrder, NotCutOff, LeftClosed, BatchesInOrder,
       NothingCutOff, NothingLeftOpen

LEMMA InitSafe == Init => IInv
<1> SUFFICES ASSUME Init PROVE IInv
  OBVIOUS
<1> USE DEF Init, NoFrame, Unused
<1>1. TypeOK
  BY LoadsAssumption, BatchesAssumption DEF TypeOK, Object, Frame
<1>2. ObjectsHaveOwners
  BY NoSessionAssumption DEF ObjectsHaveOwners
<1>3. ASSUME NEW s \in Sessions PROVE SessionSafe(s)
  BY NoSessionAssumption
     DEF SessionSafe, NumberHasObject, ObjectsHaveFrame, NothingBeforeOpen,
         InOrder, NotCutOff, LeftClosed
<1> QED
  BY <1>1, <1>2, <1>3 DEF IInv

-----------------------------------------------------------------------------
(* What a step of a session leaves alone *)

\* Nothing but s and objects of s has changed.
OnlySession(s) ==
    /\ current' = current
    /\ TypeOK'
    /\ ObjectsHaveOwners'
    /\ \A u \in Sessions \ {s} :
        frame'[u] = frame[u] /\ received'[u] = received[u]
        /\ written'[u] = written[u]
    /\ \A u \in Sessions \ {s}, i \in Loads, n \in AllNumbers :
        guest[i][n].of = u \/ guest'[i][n].of = u => guest'[i][n] = guest[i][n]

LEMMA OthersSafe ==
    ASSUME IInv, NEW s \in Sessions, OnlySession(s), SessionSafe(s)'
    PROVE  IInv'
<1> SUFFICES ASSUME NEW u \in Sessions \ {s} PROVE SessionSafe(u)'
  BY DEF OnlySession, IInv
<1> USE DEF OnlySession
<1>0. SessionSafe(u) /\ current \in Loads
  BY DEF IInv, TypeOK
<1>1. NumberHasObject(u)'
  <2> SUFFICES ASSUME frame'[u].number # 0
               PROVE  NumberHasObject(u)'
    BY DEF NumberHasObject
  <2>1. PICK i \in Loads : guest[i][frame[u].number].of = u
    BY <1>0 DEF SessionSafe, NumberHasObject
  <2>2. frame[u].number \in AllNumbers
    BY <1>0 DEF SessionSafe, NumberHasObject
  <2>3. guest'[i][frame'[u].number].of = u
    BY <2>1, <2>2
  <2> QED
    BY <2>2, <2>3 DEF NumberHasObject
<1>2. ObjectsHaveFrame(u)'
  BY <1>0 DEF SessionSafe, ObjectsHaveFrame
<1>3. NothingBeforeOpen(u)' /\ InOrder(u)' /\ NotCutOff(u)'
  BY <1>0 DEF SessionSafe, NothingBeforeOpen, InOrder, NotCutOff
<1>4. LeftClosed(u)'
  BY <1>0 DEF SessionSafe, LeftClosed
<1> QED
  BY <1>1, <1>2, <1>3, <1>4 DEF SessionSafe

-----------------------------------------------------------------------------
(* Steps without the guest *)

\* A step that changes the frame of s only, and keeps its number.
LEMMA FrameStepSafe ==
    ASSUME IInv, NEW s \in Sessions, NEW f \in Frame,
           UNCHANGED <<current, guest, received, written>>,
           frame' = [frame EXCEPT ![s] = f],
           frame[s].phase # "gone", f.number = frame[s].number,
           f.phase \in {"idle", "bound"} =>
               frame[s].phase \in {"idle", "bound"} /\ f.eof = frame[s].eof,
           f.phase = "open" => frame[s].phase = "open",
           f.phase \notin {"finalized", "gone"},
           f.eof => frame[s].eof \/ Len(received[s]) = Batches
    PROVE  IInv'
<1>1. frame'[s] = f /\ \A u \in Sessions \ {s} : frame'[u] = frame[u]
  BY DEF IInv, TypeOK
<1>2. OnlySession(s)
  BY <1>1 DEF OnlySession, IInv, TypeOK, ObjectsHaveOwners
<1>3. SessionSafe(s)'
  <2>0. SessionSafe(s)
    BY DEF IInv
  <2>1. NumberHasObject(s)' /\ ObjectsHaveFrame(s)'
    BY <1>1, <2>0 DEF SessionSafe, NumberHasObject, ObjectsHaveFrame
  <2>2. NothingBeforeOpen(s)' /\ InOrder(s)' /\ NotCutOff(s)' /\ LeftClosed(s)'
    BY <1>1, <2>0
       DEF SessionSafe, NothingBeforeOpen, InOrder, NotCutOff, LeftClosed
  <2> QED
    BY <2>1, <2>2 DEF SessionSafe
<1> QED
  BY <1>2, <1>3, OthersSafe

\* A statement is through, and no object it has is open.
GoneStep(s) ==
    /\ UNCHANGED <<current, received, written>>
    /\ frame' \in [Sessions -> Frame]
    /\ \A u \in Sessions \ {s} : frame'[u] = frame[u]
    /\ frame'[s].phase = "gone" /\ frame'[s].number = 0
    /\ frame'[s].eof = frame[s].eof
    /\ guest' \in [Loads -> [AllNumbers -> Object]]
    /\ ObjectsHaveOwners'
    /\ \A i \in Loads, n \in AllNumbers :
        \/ guest'[i][n] = guest[i][n]
        \/ guest[i][n].of = s /\ guest'[i][n].of = s
    /\ LeftClosed(s)'

LEMMA GoneSafe ==
    ASSUME IInv, NEW s \in Sessions, GoneStep(s)
    PROVE  IInv'
<1>1. OnlySession(s)
  BY DEF OnlySession, IInv, TypeOK, GoneStep
<1>2. SessionSafe(s)'
  BY DEF IInv, SessionSafe, NumberHasObject, ObjectsHaveFrame,
         NothingBeforeOpen, InOrder, NotCutOff, GoneStep
<1> QED
  BY <1>1, <1>2, OthersSafe

LEMMA FailsSafe ==
    ASSUME IInv, NEW s \in Sessions, frame[s].phase # "gone", Fails(s),
           UNCHANGED current
    PROVE  IInv'
<1> DEFINE f == [frame[s] EXCEPT !.phase = "failed"]
<1>1. /\ f \in Frame /\ f.number = frame[s].number /\ f.phase = "failed"
      /\ f.eof = frame[s].eof
  BY DEF IInv, TypeOK, Frame
<1>2. frame' = [frame EXCEPT ![s] = f]
  BY DEF Fails, Goes
<1> HIDE DEF f
<1> QED
  BY <1>1, <1>2, FrameStepSafe DEF Fails

LEMMA BindsSafe ==
    ASSUME IInv, NEW s \in Sessions, NEW kind \in {"write", "scan"},
           Binds(s, kind)
    PROVE  IInv'
<1> DEFINE f == [frame[s] EXCEPT !.kind = kind, !.phase = "bound"]
<1>1. frame[s].phase = "idle"
  BY DEF Binds, NoFrame
<1>2. /\ f \in Frame /\ f.number = frame[s].number /\ f.phase = "bound"
      /\ f.eof = frame[s].eof
  BY DEF IInv, TypeOK, Frame
<1>3. frame' = [frame EXCEPT ![s] = f]
  BY DEF Binds
<1> HIDE DEF f
<1> QED
  BY <1>1, <1>2, <1>3, FrameStepSafe, ZenonT(30) DEF Binds

-----------------------------------------------------------------------------
(* Steps with the guest *)

LEMMA NumbersPositive == AllNumbers \subseteq Nat \ {0}
BY LoadsAssumption DEF AllNumbers

\* The number in the frame, if it is open at all, is that of the session's own
\* object: a number of another instance leads nowhere.
LEMMA Reached ==
    ASSUME IInv, OwnObjects, NEW s \in Sessions, IsOpen(frame[s].number)
    PROVE  /\ frame[s].number \in AllNumbers
           /\ current \in Loads
           /\ guest[current][frame[s].number].of = s
           /\ frame[s].phase = "open" =>
                guest[current][frame[s].number].at = Len(received[s])
<1> DEFINE n == frame[s].number
<1>1. n \in AllNumbers /\ guest[current][n].is = "open" /\ n # 0
  BY NumbersPositive DEF IsOpen
<1>2. PICK i \in Loads : guest[i][n].of = s
  BY <1>1 DEF IInv, SessionSafe, NumberHasObject
<1>3. current \in Loads
  BY DEF IInv, TypeOK
<1>4. i = current
  BY <1>2 DEF OwnObjects
<1> QED
  BY <1>1, <1>2, <1>3, <1>4 DEF IInv, SessionSafe, ObjectsHaveFrame

LEMMA OpeningSafe ==
    ASSUME IInv, NEW s \in Sessions, NEW n \in AllNumbers, NEW f \in Frame,
           Opens(s, n), UNCHANGED <<current, received, written>>,
           frame' = [frame EXCEPT ![s] = f],
           frame[s].phase \in {"idle", "bound"},
           f.phase \in {"open", "refused"}, f.number = n, f.eof = FALSE
    PROVE  IInv'
<1> DEFINE o == [is |-> "open", of |-> s, at |-> 0]
<1>0. SessionSafe(s) /\ current \in Loads /\ n \in Numbers[current]
  BY DEF IInv, TypeOK, Opens
<1>1. frame'[s] = f /\ \A u \in Sessions \ {s} : frame'[u] = frame[u]
  BY DEF IInv, TypeOK
<1>2. /\ guest'[current][n] = o
      /\ \A i \in Loads, m \in AllNumbers :
            i # current \/ m # n => guest'[i][m] = guest[i][m]
      /\ guest[current][n] = Unused
  BY <1>0 DEF IInv, TypeOK, Opens, ObjectsHaveOwners
<1>3. TypeOK'
  <2>1. o \in Object
    BY BatchesAssumption DEF Object
  <2>2. guest' \in [Loads -> [AllNumbers -> Object]]
    BY <1>0, <2>1 DEF IInv, TypeOK, Opens
  <2> QED
    BY <2>2 DEF IInv, TypeOK
<1>4. ObjectsHaveOwners'
  <2> SUFFICES ASSUME NEW i \in Loads, NEW m \in AllNumbers
               PROVE  /\ guest'[i][m].is = "unused" => guest'[i][m] = Unused
                      /\ guest'[i][m].is # "unused" =>
                            /\ guest'[i][m].of \in Sessions
                            /\ m \in Numbers[i]
                            /\ i <= current
    BY DEF ObjectsHaveOwners
  <2>1. CASE i = current /\ m = n
    BY <1>0, <1>2, <2>1, LoadsAssumption
  <2>2. CASE i # current \/ m # n
    BY <1>2, <2>2 DEF IInv, ObjectsHaveOwners
  <2> QED
    BY <2>1, <2>2
<1>5. OnlySession(s)
  BY <1>0, <1>1, <1>2, <1>3, <1>4, NoSessionAssumption DEF OnlySession, Unused
<1>6. SessionSafe(s)'
  <2>1. NumberHasObject(s)'
    BY <1>0, <1>1, <1>2 DEF NumberHasObject
  <2>2. ObjectsHaveFrame(s)'
    <3>1. \A i \in Loads, m \in AllNumbers : guest[i][m].of # s
      BY <1>0, NumbersPositive
         DEF SessionSafe, NothingBeforeOpen, ObjectsHaveFrame
    <3>2. Len(received'[s]) = 0
      BY <1>0 DEF SessionSafe, NothingBeforeOpen
    <3> QED
      BY <1>1, <1>2, <3>1, <3>2 DEF ObjectsHaveFrame
  <2>3. NothingBeforeOpen(s)' /\ InOrder(s)' /\ NotCutOff(s)' /\ LeftClosed(s)'
    BY <1>0, <1>1
       DEF SessionSafe, NothingBeforeOpen, InOrder, NotCutOff, LeftClosed
  <2> QED
    BY <2>1, <2>2, <2>3 DEF SessionSafe
<1> QED
  BY <1>5, <1>6, OthersSafe

\* A batch goes through the object: through the session too, or it is lost
\* and the session fails.
LEMMA AdvancingSafe ==
    ASSUME IInv, OwnObjects, NEW s \in Sessions, NEW f \in Frame,
           frame[s].phase = "open", IsOpen(frame[s].number),
           guest[current][frame[s].number].at < Batches,
           Advances(frame[s].number), UNCHANGED <<current, written>>,
           frame' = [frame EXCEPT ![s] = f],
           f.number = frame[s].number, f.eof = FALSE,
           \/ /\ f.phase = "open"
              /\ received' = [received EXCEPT ![s] = Append(@, Len(@) + 1)]
           \/ /\ f.phase = "failed"
              /\ received' = received
    PROVE  IInv'
<1> DEFINE n == frame[s].number
           o == [guest[current][n] EXCEPT !.at = @ + 1]
<1>0. /\ SessionSafe(s) /\ current \in Loads /\ n \in AllNumbers
      /\ guest[current][n] \in Object
      /\ guest[current][n].of = s /\ guest[current][n].is = "open"
      /\ guest[current][n].at = Len(received[s])
      /\ received[s] \in Seq(1 .. Batches)
  BY Reached DEF IInv, TypeOK, IsOpen
<1>1. frame'[s] = f /\ \A u \in Sessions \ {s} : frame'[u] = frame[u]
  BY DEF IInv, TypeOK
<1>2. /\ guest'[current][n] = o
      /\ \A i \in Loads, m \in AllNumbers :
            i # current \/ m # n => guest'[i][m] = guest[i][m]
  BY <1>0 DEF IInv, TypeOK, Advances
<1>3. o \in Object /\ o.of = s /\ o.is = "open" /\ o.at = Len(received[s]) + 1
  BY <1>0, BatchesAssumption DEF Object
<1>4. Append(received[s], Len(received[s]) + 1) \in Seq(1 .. Batches)
  BY <1>0, BatchesAssumption DEF Object
<1>5. TypeOK'
  <2>1. guest' \in [Loads -> [AllNumbers -> Object]]
    BY <1>0, <1>3 DEF IInv, TypeOK, Advances
  <2>2. received' \in [Sessions -> Seq(1 .. Batches)]
    BY <1>4 DEF IInv, TypeOK
  <2> QED
    BY <2>1, <2>2 DEF IInv, TypeOK
<1> HIDE DEF o
<1>6. ObjectsHaveOwners'
  <2> SUFFICES ASSUME NEW i \in Loads, NEW m \in AllNumbers
               PROVE  /\ guest'[i][m].is = "unused" => guest'[i][m] = Unused
                      /\ guest'[i][m].is # "unused" =>
                            /\ guest'[i][m].of \in Sessions
                            /\ m \in Numbers[i]
                            /\ i <= current
    BY DEF ObjectsHaveOwners
  <2>1. CASE i = current /\ m = n
    BY <1>0, <1>2, <1>3, <2>1 DEF IInv, ObjectsHaveOwners
  <2>2. CASE i # current \/ m # n
    BY <1>2, <2>2 DEF IInv, ObjectsHaveOwners
  <2> QED
    BY <2>1, <2>2
<1>7. \A u \in Sessions \ {s} : received'[u] = received[u]
  BY DEF IInv, TypeOK
<1>8. OnlySession(s)
  BY <1>0, <1>1, <1>2, <1>3, <1>5, <1>6, <1>7 DEF OnlySession
<1>9. SessionSafe(s)'
  <2>1. NumberHasObject(s)'
    BY <1>0, <1>1, <1>2, <1>3 DEF NumberHasObject
  <2>2. f.phase = "open" =>
          /\ received'[s] = Append(received[s], Len(received[s]) + 1)
          /\ Len(received'[s]) = Len(received[s]) + 1
    BY <1>0 DEF IInv, TypeOK
  <2>3. ObjectsHaveFrame(s)'
    <3> SUFFICES ASSUME NEW i \in Loads, NEW m \in AllNumbers,
                        guest'[i][m].of = s
                 PROVE  /\ f.number = m
                        /\ f.phase = "open" =>
                              guest'[i][m].at = Len(received'[s])
      BY <1>1 DEF ObjectsHaveFrame
    <3>1. f.number = m
      BY <1>0, <1>2 DEF SessionSafe, ObjectsHaveFrame
    <3>2. CASE i = current
      BY <1>2, <1>3, <2>2, <3>1, <3>2
    <3>3. CASE i # current
      <4>1. guest[i][m].of = s
        BY <1>2, <3>3
      <4>2. m = n
        BY <3>1
      <4> QED
        BY <3>3, <4>1, <4>2 DEF OwnObjects
    <3> QED
      BY <3>1, <3>2, <3>3
  <2>4. InOrder(s)'
    <3>1. CASE f.phase = "open"
      BY <1>0, <2>2, <3>1, SMTT(30) DEF SessionSafe, InOrder
    <3>2. CASE f.phase = "failed"
      BY <1>0, <3>2 DEF SessionSafe, InOrder
    <3> QED
      BY <3>1, <3>2
  <2>5. NothingBeforeOpen(s)' /\ NotCutOff(s)' /\ LeftClosed(s)'
    BY <1>1 DEF NothingBeforeOpen, NotCutOff, LeftClosed
  <2> QED
    BY <2>1, <2>3, <2>4, <2>5 DEF SessionSafe
<1> QED
  BY <1>8, <1>9, OthersSafe

\* Closing the object of a session changes no other object.
LEMMA Closed ==
    ASSUME IInv, OwnObjects, NEW s \in Sessions, Closes(frame[s].number),
           UNCHANGED current
    PROVE  /\ guest' \in [Loads -> [AllNumbers -> Object]]
           /\ ObjectsHaveOwners'
           /\ \A i \in Loads, n \in AllNumbers :
                \/ guest'[i][n] = guest[i][n]
                \/ guest[i][n].of = s /\ guest'[i][n].of = s
           /\ \A i \in Loads, n \in AllNumbers :
                /\ guest'[i][n].of = guest[i][n].of
                /\ guest'[i][n].at = guest[i][n].at
           /\ \A n \in AllNumbers :
                guest'[current][n].of = s /\ n = frame[s].number =>
                    guest'[current][n].is \in {"closed", "kept"}
<1> DEFINE n == frame[s].number
<1>1. CASE IsOpen(n)
  <2>0. PICK is \in {"closed", "kept"} : ObjectIs(n, is)
    BY <1>1 DEF Closes
  <2> DEFINE o == [guest[current][n] EXCEPT !.is = is]
  <2>1. /\ current \in Loads /\ n \in AllNumbers
        /\ guest[current][n] \in Object
        /\ guest[current][n].of = s /\ guest[current][n].is = "open"
    BY <1>1, Reached DEF IInv, TypeOK, IsOpen
  <2>2. /\ o \in Object /\ o.of = s /\ o.is = is
        /\ o.at = guest[current][n].at
    BY <2>1 DEF Object
  <2>3. guest' = [guest EXCEPT ![current][n].is = is]
    BY <2>0 DEF ObjectIs
  <2>4. /\ guest'[current][n] = o
        /\ \A i \in Loads, m \in AllNumbers :
              i # current \/ m # n => guest'[i][m] = guest[i][m]
    BY <2>1, <2>3 DEF IInv, TypeOK
  <2>5. guest' \in [Loads -> [AllNumbers -> Object]]
    BY <2>1, <2>2, <2>3 DEF IInv, TypeOK
  <2> HIDE DEF n, o
  <2>6. ObjectsHaveOwners'
    <3> SUFFICES ASSUME NEW i \in Loads, NEW m \in AllNumbers
                 PROVE  /\ guest'[i][m].is = "unused" => guest'[i][m] = Unused
                        /\ guest'[i][m].is # "unused" =>
                              /\ guest'[i][m].of \in Sessions
                              /\ m \in Numbers[i]
                              /\ i <= current
      BY DEF ObjectsHaveOwners
    <3>1. CASE i = current /\ m = n
      BY <2>1, <2>2, <2>4, <3>1 DEF IInv, ObjectsHaveOwners
    <3>2. CASE i # current \/ m # n
      BY <2>4, <3>2 DEF IInv, ObjectsHaveOwners
    <3> QED
      BY <3>1, <3>2
  <2> QED
    BY <2>0, <2>1, <2>2, <2>4, <2>5, <2>6 DEF n
<1>2. CASE ~IsOpen(n)
  <2>1. guest' = guest
    BY <1>2 DEF Closes
  <2>2. \A m \in AllNumbers : guest[current][m].of = s /\ m = n =>
          guest[current][m].is \in {"closed", "kept"}
    BY <1>2, NoSessionAssumption
       DEF IsOpen, IInv, TypeOK, ObjectsHaveOwners, Object, Unused
  <2> QED
    BY <2>1, <2>2 DEF IInv, TypeOK, ObjectsHaveOwners
<1> QED
  BY <1>1, <1>2

\* A statement that closes the object in its frame, and is gone.
LEMMA ClosingSafe ==
    ASSUME IInv, OwnObjects, NEW s \in Sessions,
           Closes(frame[s].number), frame[s].phase # "gone", Leaves(s),
           UNCHANGED <<current, received, written>>
    PROVE  IInv'
<1> DEFINE f == [frame[s] EXCEPT !.phase = "gone", !.number = 0]
<1>1. /\ f \in Frame /\ f.phase = "gone" /\ f.number = 0
      /\ f.eof = frame[s].eof
  BY DEF IInv, TypeOK, Frame
<1>2. frame' = [frame EXCEPT ![s] = f]
  BY DEF Leaves
<1>3. LeftClosed(s)'
  <2>1. \A n \in AllNumbers : guest'[current][n].of = s => n = frame[s].number
    BY Closed DEF IInv, TypeOK, SessionSafe, ObjectsHaveFrame
  <2> QED
    BY <2>1, Closed DEF LeftClosed
<1>4. \A i \in Loads, n \in AllNumbers :
          \/ guest'[i][n] = guest[i][n]
          \/ guest[i][n].of = s /\ guest'[i][n].of = s
  BY Closed
<1>5. ObjectsHaveOwners' /\ guest' \in [Loads -> [AllNumbers -> Object]]
  BY Closed
<1> HIDE DEF f
<1>6. GoneStep(s)
  BY <1>1, <1>2, <1>3, <1>4, <1>5 DEF GoneStep, IInv, TypeOK
<1> QED
  BY <1>6, GoneSafe

\* A statement that is gone and had opened nothing, or was a writer.
LEMMA LeavingSafe ==
    ASSUME IInv, NEW s \in Sessions, NEW f \in Frame, frame[s].phase # "gone",
           frame[s].number = 0 \/ f.kind = "write",
           frame' = [frame EXCEPT ![s] = f],
           f.phase = "gone", f.number = 0, f.eof = frame[s].eof,
           UNCHANGED <<current, guest, received, written>>
    PROVE  IInv'
<1>1. frame'[s] = f
  BY DEF IInv, TypeOK
<1>2. LeftClosed(s)'
  BY <1>1, NumbersPositive
     DEF LeftClosed, IInv, TypeOK, SessionSafe, ObjectsHaveFrame
<1>3. ObjectsHaveOwners' /\ guest' \in [Loads -> [AllNumbers -> Object]]
  BY DEF IInv, TypeOK, ObjectsHaveOwners
<1>4. GoneStep(s)
  BY <1>1, <1>2, <1>3 DEF GoneStep, IInv, TypeOK
<1> QED
  BY <1>4, GoneSafe

-----------------------------------------------------------------------------
(* The actions *)

LEMMA ReloadSafe == ASSUME IInv, Reload PROVE IInv'
<1> USE DEF Reload
<1>1. TypeOK' /\ current' \in Loads
  BY DEF IInv, TypeOK
<1>2. ObjectsHaveOwners'
  BY <1>1, LoadsAssumption DEF IInv, TypeOK, ObjectsHaveOwners
<1>3. ASSUME NEW s \in Sessions PROVE SessionSafe(s)'
  <2>1. SessionSafe(s)
    BY DEF IInv
  <2>2. /\ NumberHasObject(s)' /\ ObjectsHaveFrame(s)' /\ NothingBeforeOpen(s)'
        /\ InOrder(s)' /\ NotCutOff(s)'
    BY <2>1 DEF SessionSafe, NumberHasObject, ObjectsHaveFrame,
                NothingBeforeOpen, InOrder, NotCutOff
  <2>3. LeftClosed(s)'
    <3>1. \A n \in AllNumbers : guest[current'][n].is = "unused"
      BY <1>1, LoadsAssumption DEF IInv, TypeOK, ObjectsHaveOwners
    <3> QED
      BY <1>1, <3>1, NoSessionAssumption
         DEF IInv, ObjectsHaveOwners, Unused, LeftClosed
  <2> QED
    BY <2>2, <2>3 DEF SessionSafe
<1> QED
  BY <1>1, <1>2, <1>3 DEF IInv

LEMMA BindReaderSafe ==
    ASSUME IInv, NEW s \in Sessions, BindReader(s) PROVE IInv'
<1>1. frame[s].phase = "idle" /\ frame[s].number = 0 /\ frame[s].eof = FALSE
  BY DEF BindReader, NoFrame
<1>2. CASE \E n \in AllNumbers, phase \in {"open", "refused"} :
            /\ Opens(s, n)
            /\ frame' = [frame EXCEPT ![s] = [kind |-> "read",
                            phase |-> phase, number |-> n, eof |-> FALSE]]
  <2>1. PICK n \in AllNumbers, phase \in {"open", "refused"} :
            /\ Opens(s, n)
            /\ frame' = [frame EXCEPT ![s] = [kind |-> "read",
                            phase |-> phase, number |-> n, eof |-> FALSE]]
    BY <1>2
  <2> DEFINE f == [kind |-> "read", phase |-> phase, number |-> n, eof |-> FALSE]
  <2>2. /\ f \in Frame /\ f.phase = phase /\ f.number = n /\ f.eof = FALSE
        /\ frame' = [frame EXCEPT ![s] = f]
    BY <2>1 DEF Frame
  <2> HIDE DEF f
  <2> QED
    BY <1>1, <2>1, <2>2, OpeningSafe DEF BindReader
<1>3. CASE /\ frame' = [frame EXCEPT ![s] = [@ EXCEPT !.kind = "read",
                                                    !.phase = "gone"]]
           /\ UNCHANGED guest
  <2> DEFINE f == [frame[s] EXCEPT !.kind = "read", !.phase = "gone"]
  <2>1. /\ f \in Frame /\ f.phase = "gone" /\ f.number = frame[s].number
        /\ f.eof = frame[s].eof
    BY DEF IInv, TypeOK, Frame
  <2>2. frame' = [frame EXCEPT ![s] = f]
    BY <1>3
  <2> HIDE DEF f
  <2> QED
    BY <1>1, <1>3, <2>1, <2>2, LeavingSafe DEF BindReader
<1> QED
  BY <1>2, <1>3 DEF BindReader

LEMMA MakesObjectSafe ==
    ASSUME IInv, NEW s \in Sessions, NEW kind, MakesObject(s, kind)
    PROVE  IInv'
<1>1. /\ frame[s].phase = "bound" /\ frame[s].number = 0
      /\ frame[s].eof = FALSE
  BY DEF MakesObject, IInv, SessionSafe, NothingBeforeOpen
<1>2. CASE \E n \in AllNumbers :
            /\ Opens(s, n)
            /\ frame' = [frame EXCEPT ![s] = [@ EXCEPT !.phase = "open",
                                                       !.number = n]]
            /\ UNCHANGED <<received, written>>
  <2>1. PICK n \in AllNumbers :
            /\ Opens(s, n)
            /\ frame' = [frame EXCEPT ![s] = [@ EXCEPT !.phase = "open",
                                                       !.number = n]]
            /\ UNCHANGED <<received, written>>
    BY <1>2
  <2> DEFINE f == [frame[s] EXCEPT !.phase = "open", !.number = n]
  <2>2. /\ f \in Frame /\ f.phase = "open" /\ f.number = n
        /\ f.eof = frame[s].eof
    BY DEF IInv, TypeOK, Frame
  <2>3. frame' = [frame EXCEPT ![s] = f]
    BY <2>1
  <2> HIDE DEF f
  <2> QED
    BY <1>1, <2>1, <2>2, <2>3, OpeningSafe DEF MakesObject
<1>3. CASE Fails(s)
  BY <1>1, <1>3, FailsSafe DEF MakesObject
<1> QED
  BY <1>2, <1>3 DEF MakesObject

\* The frame of an open session fails in the same step.
LEMMA FailedFrame ==
    ASSUME IInv, NEW s \in Sessions, Goes(s, "failed")
    PROVE  \E f \in Frame :
            /\ frame' = [frame EXCEPT ![s] = f]
            /\ f.phase = "failed" /\ f.number = frame[s].number
            /\ f.eof = frame[s].eof
<1> DEFINE f == [frame[s] EXCEPT !.phase = "failed"]
<1>1. /\ f \in Frame /\ f.phase = "failed" /\ f.number = frame[s].number
      /\ f.eof = frame[s].eof
  BY DEF IInv, TypeOK, Frame
<1>2. frame' = [frame EXCEPT ![s] = f]
  BY DEF Goes
<1> QED
  BY <1>1, <1>2

LEMMA PullsSafe ==
    ASSUME IInv, OwnObjects, NEW s \in Sessions, NEW kind, Pulls(s, kind)
    PROVE  IInv'
<1> DEFINE n == frame[s].number
<1>1. /\ frame[s].phase = "open" /\ frame[s].eof = FALSE
      /\ frame[s] \in Frame /\ UNCHANGED current
  BY DEF Pulls, IInv, TypeOK, Frame
<1>2. CASE /\ IsOpen(n) /\ guest[current][n].at < Batches
           /\ Advances(n)
           /\ received' = [received EXCEPT ![s] =
                              Append(@, guest[current][n].at + 1)]
           /\ UNCHANGED <<frame, written>>
  <2>1. guest[current][n].at = Len(received[s])
    BY <1>1, <1>2, Reached
  <2>2. received' = [received EXCEPT ![s] = Append(@, Len(@) + 1)]
    BY <1>2, <2>1
  <2>3. frame' = [frame EXCEPT ![s] = frame[s]]
    BY <1>2 DEF IInv, TypeOK
  <2> QED
    BY <1>1, <1>2, <2>2, <2>3, AdvancingSafe
<1>3. CASE /\ IsOpen(n) /\ guest[current][n].at = Batches
           /\ frame' = [frame EXCEPT ![s] = [@ EXCEPT !.eof = TRUE]]
           /\ UNCHANGED <<guest, received, written>>
  <2> DEFINE f == [frame[s] EXCEPT !.eof = TRUE]
  <2>1. /\ f \in Frame /\ f.phase = "open" /\ f.number = frame[s].number
    BY <1>1 DEF Frame
  <2>2. frame' = [frame EXCEPT ![s] = f]
    BY <1>3
  <2>3. Len(received[s]) = Batches
    BY <1>1, <1>3, Reached
  <2> HIDE DEF f
  <2> QED
    BY <1>1, <1>3, <2>1, <2>2, <2>3, FrameStepSafe
<1>4. CASE /\ IsOpen(n) /\ guest[current][n].at < Batches
           /\ Advances(n) /\ Goes(s, "failed")
           /\ UNCHANGED <<received, written>>
  <2>1. PICK f \in Frame :
            /\ frame' = [frame EXCEPT ![s] = f]
            /\ f.phase = "failed" /\ f.number = frame[s].number
            /\ f.eof = frame[s].eof
    BY <1>4, FailedFrame
  <2> QED
    BY <1>1, <1>4, <2>1, AdvancingSafe
<1>5. CASE Fails(s)
  BY <1>1, <1>5, FailsSafe
<1> QED
  BY <1>2, <1>3, <1>4, <1>5 DEF Pulls

LEMMA SinkSafe ==
    ASSUME IInv, OwnObjects, NEW s \in Sessions, Sink(s) PROVE IInv'
<1> DEFINE n == frame[s].number
<1>1. /\ frame[s].phase = "open" /\ frame[s] \in Frame
      /\ Len(received[s]) < Batches /\ UNCHANGED current
  BY DEF Sink, IInv, TypeOK
<1>2. frame[s].eof = FALSE
  BY <1>1, BatchesAssumption
     DEF IInv, TypeOK, SessionSafe, NotCutOff, Frame
<1>3. CASE /\ IsOpen(n) /\ guest[current][n].at < Batches
           /\ Advances(n)
           /\ received' = [received EXCEPT ![s] = Append(@, Len(@) + 1)]
           /\ UNCHANGED <<frame, written>>
  <2>1. frame' = [frame EXCEPT ![s] = frame[s]]
    BY <1>3 DEF IInv, TypeOK
  <2> QED
    BY <1>1, <1>2, <1>3, <2>1, AdvancingSafe
<1>4. CASE Fails(s)
  BY <1>1, <1>4, FailsSafe
<1> QED
  BY <1>3, <1>4 DEF Sink

LEMMA FinalizeWriterSafe ==
    ASSUME IInv, OwnObjects, NEW s \in Sessions, FinalizeWriter(s)
    PROVE  IInv'
<1> DEFINE n == frame[s].number
<1>1. frame[s].phase = "open" /\ frame[s].kind = "write" /\ UNCHANGED current
  BY DEF FinalizeWriter
<1>2. CASE Fails(s)
  BY <1>1, <1>2, FailsSafe
<1>3. CASE /\ IsOpen(n) /\ ObjectIs(n, "closed")
           /\ written' = [written EXCEPT ![s] = guest[current][n].at]
           /\ Goes(s, "finalized")
           /\ UNCHANGED received
  <2>0. Closes(n)
    BY <1>3 DEF Closes
  <2> DEFINE f == [frame[s] EXCEPT !.phase = "finalized"]
  <2>1. /\ f \in Frame /\ f.phase = "finalized" /\ f.number = n
        /\ f.eof = frame[s].eof
    BY DEF IInv, TypeOK, Frame
  <2>2. frame' = [frame EXCEPT ![s] = f]
    BY <1>3 DEF Goes
  <2> HIDE DEF f
  <2>3. /\ frame'[s] = f /\ frame' \in [Sessions -> Frame]
        /\ \A u \in Sessions \ {s} : frame'[u] = frame[u]
    BY <2>1, <2>2 DEF IInv, TypeOK
  <2>4. /\ guest[current][n].at = Len(received[s])
        /\ guest[current][n].at \in 0 .. Batches
    BY <1>1, <1>3, Reached DEF IInv, TypeOK, Object
  <2>5. /\ written'[s] = Len(received[s])
        /\ written' \in [Sessions -> 0 .. Batches]
        /\ \A u \in Sessions \ {s} : written'[u] = written[u]
    BY <1>3, <2>4 DEF IInv, TypeOK
  <2>6. OnlySession(s)
    <3>1. TypeOK'
      BY <1>1, <1>3, <2>0, <2>3, <2>5, Closed DEF IInv, TypeOK
    <3>2. ObjectsHaveOwners'
      BY <1>1, <1>3, <2>0, Closed
    <3>3. \A i \in Loads, m \in AllNumbers :
            \/ guest'[i][m] = guest[i][m]
            \/ guest[i][m].of = s /\ guest'[i][m].of = s
      BY <1>1, <1>3, <2>0, Closed
    <3> QED
      BY <1>1, <1>3, <2>3, <2>5, <3>1, <3>2, <3>3 DEF OnlySession
  <2>7. SessionSafe(s)'
    <3>0. /\ SessionSafe(s)
          /\ \A i \in Loads, m \in AllNumbers : guest'[i][m].of = guest[i][m].of
      BY <1>1, <1>3, <2>0, Closed DEF IInv
    <3>1. NumberHasObject(s)'
      BY <2>1, <2>3, <3>0 DEF SessionSafe, NumberHasObject
    <3>2. ObjectsHaveFrame(s)'
      BY <1>1, <2>1, <2>3, <3>0 DEF SessionSafe, ObjectsHaveFrame
    <3>3. NothingBeforeOpen(s)' /\ InOrder(s)' /\ NotCutOff(s)' /\ LeftClosed(s)'
      BY <1>3, <2>1, <2>3, <2>5, <3>0
         DEF SessionSafe, NothingBeforeOpen, InOrder, NotCutOff, LeftClosed
    <3> QED
      BY <3>1, <3>2, <3>3 DEF SessionSafe
  <2> QED
    BY <2>6, <2>7, OthersSafe
<1> QED
  BY <1>2, <1>3 DEF FinalizeWriter

LEMMA DropsSafe ==
    ASSUME IInv, OwnObjects, NEW s \in Sessions,
           DropWriter(s) \/ DropReader(s) \/ DropCursor(s)
    PROVE  IInv'
<1> DEFINE f == [frame[s] EXCEPT !.phase = "gone", !.number = 0]
<1>1. /\ f \in Frame /\ f.phase = "gone" /\ f.number = 0
      /\ f.eof = frame[s].eof /\ f.kind = frame[s].kind
  BY DEF IInv, TypeOK, Frame
<1>2. Leaves(s) => frame' = [frame EXCEPT ![s] = f]
  BY DEF Leaves
<1> HIDE DEF f
<1>3. CASE DropWriter(s)
  BY <1>1, <1>2, <1>3, LeavingSafe DEF DropWriter, Dropped
<1>4. CASE DropReader(s)
  BY <1>4, ClosingSafe DEF DropReader, Dropped
<1>5. CASE DropCursor(s) /\ frame[s].number # 0
  BY <1>5, ClosingSafe DEF DropCursor, Dropped
<1>6. CASE DropCursor(s) /\ frame[s].number = 0
  BY <1>1, <1>2, <1>6, LeavingSafe DEF DropCursor, Dropped
<1> QED
  BY <1>3, <1>4, <1>5, <1>6

-----------------------------------------------------------------------------
(* The specification *)

LEMMA NextSafe == ASSUME IInv, OwnObjects, [Next]_vars PROVE IInv'
<1>1. CASE UNCHANGED vars
  BY <1>1
     DEF vars, IInv, TypeOK, ObjectsHaveOwners, SessionSafe, NumberHasObject,
         ObjectsHaveFrame, NothingBeforeOpen, InOrder, NotCutOff, LeftClosed
<1>2. CASE Reload
  BY <1>2, ReloadSafe
<1>3. ASSUME NEW s \in Sessions,
             BindWriter(s) \/ BindReader(s) \/ BindCursor(s)
      PROVE  IInv'
  BY <1>3, BindsSafe, BindReaderSafe DEF BindWriter, BindCursor
<1>4. ASSUME NEW s \in Sessions, CloseRefused(s) PROVE IInv'
  BY <1>4, ClosingSafe DEF CloseRefused
<1>5. ASSUME NEW s \in Sessions, OpenWriter(s) \/ OpenCursor(s) PROVE IInv'
  BY <1>5, MakesObjectSafe DEF OpenWriter, OpenCursor
<1>6. ASSUME NEW s \in Sessions, PullReader(s) \/ PullCursor(s) PROVE IInv'
  BY <1>6, PullsSafe DEF PullReader, PullCursor
<1>7. ASSUME NEW s \in Sessions, Sink(s) \/ FinalizeWriter(s) PROVE IInv'
  BY <1>7, SinkSafe, FinalizeWriterSafe
<1>8. ASSUME NEW s \in Sessions,
             DropWriter(s) \/ DropReader(s) \/ DropCursor(s)
      PROVE  IInv'
  BY <1>8, DropsSafe
<1>9. AtRest => UNCHANGED vars
  BY DEF AtRest
<1> QED
  BY <1>1, <1>2, <1>3, <1>4, <1>5, <1>6, <1>7, <1>8, <1>9 DEF Next

\* Instances that share no number: an object is of the instance that handed
\* its number out.
LEMMA ApartOwn == ASSUME IInv, NumbersApart PROVE OwnObjects
<1> SUFFICES ASSUME NEW s \in Sessions, IsOpen(frame[s].number),
                    NEW i \in Loads, guest[i][frame[s].number].of = s
             PROVE  i = current
  BY DEF OwnObjects
<1> DEFINE n == frame[s].number
<1>1. n \in AllNumbers /\ guest[current][n].is = "open"
  BY DEF IsOpen
<1>2. current \in Loads /\ n \in Numbers[current]
  BY <1>1 DEF IInv, TypeOK, ObjectsHaveOwners
<1>3. n \in Numbers[i]
  BY <1>1, NoSessionAssumption DEF IInv, ObjectsHaveOwners, Unused
<1> QED
  BY <1>2, <1>3 DEF NumbersApart

LEMMA Invariance == ASSUME NumbersApart PROVE Spec => []IInv
<1>1. IInv => OwnObjects
  BY ApartOwn
<1>2. IInv /\ OwnObjects /\ [Next]_vars => IInv'
  BY NextSafe
<1> QED
  BY <1>1, <1>2, InitSafe, PTL DEF Spec

\* The variables of the streams keep their types.
THEOREM SessionsTyped == ASSUME NumbersApart PROVE Spec => []TypeOK
<1>1. IInv => TypeOK
  BY DEF IInv
<1> QED
  BY <1>1, Invariance, PTL

\* COPY TO, COPY FROM and arrow scans: however many statements stream, and
\* whatever is loaded meanwhile, no batch is skipped, repeated or swapped.
THEOREM StreamsInOrder == ASSUME NumbersApart PROVE Spec => []BatchesInOrder
<1>1. IInv => BatchesInOrder
  BY SafeMeans
<1> QED
  BY <1>1, Invariance, PTL

\* The end of the data is the end: a scan that reports it has had every
\* batch, and a COPY TO that succeeds has all its batches on file.
THEOREM StreamsWhole == ASSUME NumbersApart PROVE Spec => []NothingCutOff
<1>1. IInv => NothingCutOff
  BY SafeMeans
<1> QED
  BY <1>1, Invariance, PTL

\* The destroy callbacks and the refusal in bind close what they must: a
\* reader or a cursor never outlives its statement in the loaded instance.
THEOREM StreamsClosed == ASSUME NumbersApart PROVE Spec => []NothingLeftOpen
<1>1. IInv => NothingLeftOpen
  BY SafeMeans
<1> QED
  BY <1>1, Invariance, PTL

-----------------------------------------------------------------------------
(* The streams *)

\* Only a reader is refused, and no writer sees an end of a source.
KindsInv ==
    \A s \in Sessions :
        /\ frame[s].phase = "refused" => frame[s].kind = "read"
        /\ frame[s].kind = "write" => ~frame[s].eof

\* A step of one statement, seen by who issued it.
LEMMA StatementSteps ==
    ASSUME NEW s \in Sessions,
           \A u \in Sessions \ {s} : frame'[u] = frame[u]
    PROVE  /\ Streams!Goes(s, Phase(s)')
           /\ [u \in Sessions |-> Direction(u)]' =
                [[u \in Sessions |-> Direction(u)] EXCEPT ![s] = Direction(s)']
           /\ Direction(s)' = Direction(s) =>
                UNCHANGED [u \in Sessions |-> Direction(u)]
           /\ Phase(s)' = Phase(s) => UNCHANGED [u \in Sessions |-> Phase(u)]
<1>1. \A u \in Sessions \ {s} :
        Phase(u)' = Phase(u) /\ Direction(u)' = Direction(u)
  BY DEF Phase, Direction
<1> QED
  BY <1>1 DEF Streams!Goes

\* What the phases and kinds of a frame mean.
LEMMA Meanings ==
    ASSUME TypeOK, NEW s \in Sessions
    PROVE  /\ frame[s].phase \in {"idle", "bound"} => Phase(s) = "waiting"
           /\ frame[s].phase = "open" /\ ~frame[s].eof => Phase(s) = "streaming"
           /\ frame[s].phase = "open" /\ frame[s].eof => Phase(s) = "complete"
           /\ frame[s].phase = "finalized" => Phase(s) = "complete"
           /\ frame[s].phase \in {"refused", "failed"} => Phase(s) = "failed"
           /\ frame[s].phase = "gone" => Phase(s) = "over"
           /\ frame[s].phase # "gone" => Phase(s) # "over"
           /\ frame[s].kind = "none" => Direction(s) = "none"
           /\ frame[s].kind = "write" => Direction(s) = "writes"
           /\ frame[s].kind \in {"read", "scan"} => Direction(s) = "reads"
           /\ frame[s].kind # "none" => Direction(s) # "none"
<1>1. frame[s] \in Frame
  BY DEF TypeOK
<1> QED
  BY <1>1 DEF Phase, Direction, Frame

\* The frame of s is f after the step, and DuckDB's other frames are as before.
Becomes(s, f) == f \in Frame /\ frame' = [frame EXCEPT ![s] = f]

LEMMA Become ==
    ASSUME IInv, NEW s \in Sessions, NEW f, Becomes(s, f)
    PROVE  /\ frame'[s] = f
           /\ \A u \in Sessions \ {s} : frame'[u] = frame[u]
           /\ frame[s] \in Frame
BY DEF IInv, TypeOK, Becomes

LEMMA BeginsStream ==
    ASSUME IInv, IInv', NEW s \in Sessions, NEW f, Becomes(s, f),
           frame[s] = NoFrame, UNCHANGED <<received, written>>,
           f.kind # "none",
           f.phase = "bound" \/ f.kind = "read",
           f.phase \in {"bound", "open", "refused", "gone"}, f.eof = FALSE
    PROVE  Streams!Next
<1>1. frame'[s] = f /\ \A u \in Sessions \ {s} : frame'[u] = frame[u]
  BY Become
<1>2. Phase(s) = "waiting" /\ Direction(s) = "none"
  BY Meanings DEF IInv, NoFrame
<1>3. /\ Phase(s)' \in {"waiting", "streaming", "failed", "over"}
      /\ Direction(s)' \in {"reads", "writes"}
      /\ Phase(s)' = "waiting" \/ Direction(s)' = "reads"
  BY <1>1 DEF Phase, Direction, Becomes, Frame
<1>4. Streams!Begin(s, Direction(s)', Phase(s)')
  BY <1>1, <1>2, <1>3, StatementSteps DEF Streams!Begin
<1> QED
  BY <1>3, <1>4 DEF Streams!Next

LEMMA StartsStream ==
    ASSUME IInv, IInv', NEW s \in Sessions, NEW f, Becomes(s, f),
           frame[s].phase = "bound", frame[s].kind # "none",
           UNCHANGED <<received, written>>,
           f.kind = frame[s].kind, f.phase = "open", f.eof = FALSE
    PROVE  Streams!Next
<1>1. frame'[s] = f /\ \A u \in Sessions \ {s} : frame'[u] = frame[u]
  BY Become
<1>2. Phase(s) = "waiting" /\ Direction(s) # "none"
  BY Meanings DEF IInv
<1>3. Phase(s)' = "streaming" /\ Direction(s)' = Direction(s)
  BY <1>1 DEF Phase, Direction
<1>4. Streams!Start(s)
  BY <1>1, <1>2, <1>3, StatementSteps DEF Streams!Start
<1> QED
  BY <1>4 DEF Streams!Next

LEMMA FailsStream ==
    ASSUME IInv, IInv', NEW s \in Sessions, NEW f, Becomes(s, f),
           frame[s].phase \in {"bound", "open"}, frame[s].kind # "none",
           ~frame[s].eof, UNCHANGED <<received, written>>,
           f.kind = frame[s].kind, f.phase = "failed"
    PROVE  Streams!Next
<1>1. frame'[s] = f /\ \A u \in Sessions \ {s} : frame'[u] = frame[u]
  BY Become
<1>2. Phase(s) \in {"waiting", "streaming"} /\ Direction(s) # "none"
  BY Meanings DEF IInv
<1>3. Phase(s)' = "failed" /\ Direction(s)' = Direction(s)
  BY <1>1 DEF Phase, Direction
<1>4. Streams!Fail(s)
  BY <1>1, <1>2, <1>3, StatementSteps DEF Streams!Fail
<1> QED
  BY <1>4 DEF Streams!Next

LEMMA LeavesStream ==
    ASSUME IInv, IInv', NEW s \in Sessions, NEW f, Becomes(s, f),
           frame[s].phase # "gone", frame[s].kind # "none",
           UNCHANGED <<received, written>>,
           f.kind = frame[s].kind, f.phase = "gone"
    PROVE  Streams!Next
<1>1. frame'[s] = f /\ \A u \in Sessions \ {s} : frame'[u] = frame[u]
  BY Become
<1>2. Phase(s) # "over" /\ Direction(s) # "none"
  BY Meanings DEF IInv
<1>3. Phase(s)' = "over" /\ Direction(s)' = Direction(s)
  BY <1>1 DEF Phase, Direction
<1>4. Streams!Leave(s)
  BY <1>1, <1>2, <1>3, StatementSteps DEF Streams!Leave
<1> QED
  BY <1>4 DEF Streams!Next

LEMMA MovesStream ==
    ASSUME IInv, NEW s \in Sessions, frame[s].phase = "open", ~frame[s].eof,
           Len(received[s]) < Batches,
           received' = [received EXCEPT ![s] = Append(@, Len(@) + 1)],
           UNCHANGED <<frame, written>>
    PROVE  Streams!Next
<1>1. Phase(s) = "streaming"
  BY Meanings DEF IInv
<1>2. /\ UNCHANGED [u \in Sessions |-> Phase(u)]
      /\ UNCHANGED [u \in Sessions |-> Direction(u)]
  BY DEF Phase, Direction
<1>3. Streams!Move(s)
  BY <1>1, <1>2 DEF Streams!Move
<1> QED
  BY <1>3 DEF Streams!Next

-----------------------------------------------------------------------------
(* The steps of the streams *)

\* What the callbacks make of a frame.
LEMMA Frames ==
    ASSUME IInv, NEW s \in Sessions
    PROVE  /\ Leaves(s) => \E f \in Frame :
                /\ Becomes(s, f) /\ f.kind = frame[s].kind
                /\ f.phase = "gone" /\ f.eof = frame[s].eof
           /\ Goes(s, "failed") => \E f \in Frame :
                /\ Becomes(s, f) /\ f.kind = frame[s].kind
                /\ f.phase = "failed" /\ f.eof = frame[s].eof
           /\ Goes(s, "finalized") => \E f \in Frame :
                /\ Becomes(s, f) /\ f.kind = frame[s].kind
                /\ f.phase = "finalized" /\ f.eof = frame[s].eof
<1> DEFINE left == [frame[s] EXCEPT !.phase = "gone", !.number = 0]
           went(p) == [frame[s] EXCEPT !.phase = p]
<1>1. frame[s] \in Frame
  BY DEF IInv, TypeOK
<1>2. /\ left \in Frame /\ left.kind = frame[s].kind /\ left.phase = "gone"
      /\ left.eof = frame[s].eof
  BY <1>1 DEF Frame
<1>3. \A p \in {"failed", "finalized"} :
        /\ went(p) \in Frame /\ went(p).kind = frame[s].kind
        /\ went(p).phase = p /\ went(p).eof = frame[s].eof
  BY <1>1 DEF Frame
<1>4. Leaves(s) => Becomes(s, left)
  BY <1>2 DEF Leaves, Becomes
<1>5. \A p \in {"failed", "finalized"} : Goes(s, p) => Becomes(s, went(p))
  BY <1>3 DEF Goes, Becomes
<1> HIDE DEF left, went
<1> QED
  BY <1>2, <1>3, <1>4, <1>5

\* A statement whose callback has failed, with a batch lost or without.
LEMMA FailingStreams ==
    ASSUME IInv, IInv', NEW s \in Sessions, Goes(s, "failed"),
           frame[s].phase \in {"bound", "open"}, frame[s].kind # "none",
           ~frame[s].eof, UNCHANGED <<received, written>>
    PROVE  Streams!Next
BY Frames, FailsStream

LEMMA LeavingStreams ==
    ASSUME IInv, IInv', NEW s \in Sessions, Leaves(s),
           frame[s].phase # "gone", frame[s].kind # "none",
           UNCHANGED <<received, written>>
    PROVE  Streams!Next
BY Frames, LeavesStream

LEMMA BindStreams ==
    ASSUME IInv, IInv', NEW s \in Sessions,
           BindWriter(s) \/ BindReader(s) \/ BindCursor(s)
    PROVE  Streams!Next
<1>1. ASSUME NEW kind \in {"write", "scan"}, Binds(s, kind)
      PROVE  Streams!Next
  <2> DEFINE f == [frame[s] EXCEPT !.kind = kind, !.phase = "bound"]
  <2>0. frame[s] \in Frame
    BY DEF IInv, TypeOK
  <2>9. frame[s].eof = FALSE
    BY <1>1 DEF Binds, NoFrame
  <2>1. f.kind = kind /\ f.phase = "bound" /\ f.eof = FALSE /\ f \in Frame
    BY <2>0, <2>9 DEF Frame
  <2>2. Becomes(s, f)
    BY <1>1, <2>1 DEF Binds, Becomes
  <2> HIDE DEF f
  <2> QED
    BY <1>1, <2>1, <2>2, BeginsStream DEF Binds
<1>2. ASSUME BindReader(s)
      PROVE  Streams!Next
  <2>1. ASSUME NEW n \in AllNumbers, NEW p \in {"open", "refused"},
               frame' = [frame EXCEPT ![s] = [kind |-> "read",
                            phase |-> p, number |-> n, eof |-> FALSE]]
        PROVE  Streams!Next
    <3> DEFINE f == [kind |-> "read", phase |-> p, number |-> n, eof |-> FALSE]
    <3>1. Becomes(s, f)
      BY <2>1 DEF Becomes, Frame
    <3>2. f.kind = "read" /\ f.phase = p /\ f.eof = FALSE
      OBVIOUS
    <3> HIDE DEF f
    <3> QED
      BY <1>2, <3>1, <3>2, BeginsStream DEF BindReader
  <2>2. ASSUME frame' = [frame EXCEPT ![s] = [@ EXCEPT !.kind = "read",
                                                     !.phase = "gone"]]
        PROVE  Streams!Next
    <3> DEFINE f == [frame[s] EXCEPT !.kind = "read", !.phase = "gone"]
    <3>0. frame[s] \in Frame
      BY DEF IInv, TypeOK
    <3>9. frame[s].eof = FALSE
      BY <1>2 DEF BindReader, NoFrame
    <3>1. /\ f.kind = "read" /\ f.phase = "gone" /\ f.eof = FALSE
          /\ f \in Frame
      BY <3>0, <3>9 DEF Frame
    <3>2. Becomes(s, f)
      BY <2>2, <3>1 DEF Becomes
    <3> HIDE DEF f
    <3> QED
      BY <1>2, <3>1, <3>2, BeginsStream DEF BindReader
  <2> QED
    BY <1>2, <2>1, <2>2 DEF BindReader
<1> QED
  BY <1>1, <1>2 DEF BindWriter, BindCursor

LEMMA MakesStreams ==
    ASSUME IInv, IInv', NEW s \in Sessions, NEW kind \in {"write", "scan"},
           MakesObject(s, kind)
    PROVE  Streams!Next
<1>1. /\ frame[s].phase = "bound" /\ frame[s].kind = kind
      /\ frame[s].eof = FALSE /\ frame[s] \in Frame
  BY DEF MakesObject, IInv, TypeOK, SessionSafe, NothingBeforeOpen
<1>2. ASSUME NEW n \in AllNumbers, UNCHANGED <<received, written>>,
             frame' = [frame EXCEPT ![s] = [@ EXCEPT !.phase = "open",
                                                     !.number = n]]
      PROVE  Streams!Next
  <2> DEFINE f == [frame[s] EXCEPT !.phase = "open", !.number = n]
  <2>1. /\ f.kind = frame[s].kind /\ f.phase = "open" /\ f.eof = FALSE
        /\ f \in Frame
    BY <1>1 DEF Frame
  <2>2. Becomes(s, f)
    BY <1>2, <2>1 DEF Becomes
  <2> HIDE DEF f
  <2> QED
    BY <1>1, <1>2, <2>1, <2>2, StartsStream
<1>3. ASSUME Fails(s) PROVE Streams!Next
  BY <1>1, <1>3, FailingStreams DEF Fails
<1> QED
  BY <1>2, <1>3 DEF MakesObject

LEMMA PullsStreams ==
    ASSUME IInv, IInv', OwnObjects, NEW s \in Sessions,
           NEW kind \in {"read", "scan"}, Pulls(s, kind)
    PROVE  Streams!Next
<1> DEFINE n == frame[s].number
<1>1. /\ frame[s].phase = "open" /\ frame[s].kind = kind /\ ~frame[s].eof
      /\ frame[s] \in Frame
  BY DEF Pulls, IInv, TypeOK
<1>2. IsOpen(n) => guest[current][n].at = Len(received[s])
  BY <1>1, Reached
<1>3. CASE /\ IsOpen(n) /\ guest[current][n].at < Batches
           /\ received' = [received EXCEPT ![s] =
                              Append(@, guest[current][n].at + 1)]
           /\ UNCHANGED <<frame, written>>
  <2>1. received' = [received EXCEPT ![s] = Append(@, Len(@) + 1)]
    BY <1>2, <1>3
  <2> QED
    BY <1>1, <1>2, <1>3, <2>1, MovesStream
<1>4. CASE /\ IsOpen(n) /\ guest[current][n].at = Batches
           /\ frame' = [frame EXCEPT ![s] = [@ EXCEPT !.eof = TRUE]]
           /\ UNCHANGED <<received, written>>
  <2> DEFINE f == [frame[s] EXCEPT !.eof = TRUE]
  <2>1. /\ f.kind = kind /\ f.phase = "open" /\ f.eof = TRUE /\ f \in Frame
    BY <1>1 DEF Frame
  <2>2. Becomes(s, f)
    BY <1>4, <2>1 DEF Becomes
  <2> HIDE DEF f
  <2>3. frame'[s] = f /\ \A u \in Sessions \ {s} : frame'[u] = frame[u]
    BY <2>2, Become
  <2>4. /\ Phase(s) = "streaming" /\ Direction(s) = "reads"
        /\ Phase(s)' = "complete" /\ Direction(s)' = Direction(s)
    <3>1. Phase(s) = "streaming" /\ Direction(s) = "reads"
      BY <1>1, Meanings DEF IInv
    <3>2. Phase(s)' = "complete" /\ Direction(s)' = Direction(s)
      BY <1>1, <2>1, <2>3 DEF Phase, Direction
    <3> QED
      BY <3>1, <3>2
  <2>5. Streams!EndReading(s)
    BY <1>2, <1>4, <2>3, <2>4, StatementSteps DEF Streams!EndReading
  <2> QED
    BY <2>5 DEF Streams!Next
<1>5. CASE Goes(s, "failed") /\ UNCHANGED <<received, written>>
  BY <1>1, <1>5, FailingStreams
<1> QED
  BY <1>3, <1>4, <1>5 DEF Pulls, Fails

LEMMA SinkStreams ==
    ASSUME IInv, IInv', KindsInv, NEW s \in Sessions, Sink(s)
    PROVE  Streams!Next
<1>1. /\ frame[s].phase = "open" /\ frame[s].kind = "write" /\ ~frame[s].eof
      /\ Len(received[s]) < Batches
  BY DEF Sink, KindsInv
<1>2. CASE /\ received' = [received EXCEPT ![s] = Append(@, Len(@) + 1)]
           /\ UNCHANGED <<frame, written>>
  BY <1>1, <1>2, MovesStream
<1>3. CASE Fails(s)
  BY <1>1, <1>3, FailingStreams DEF Fails
<1> QED
  BY <1>2, <1>3 DEF Sink

LEMMA FinalizeStreams ==
    ASSUME IInv, IInv', OwnObjects, KindsInv, NEW s \in Sessions,
           FinalizeWriter(s)
    PROVE  Streams!Next
<1> DEFINE n == frame[s].number
<1>1. frame[s].phase = "open" /\ frame[s].kind = "write" /\ ~frame[s].eof
  BY DEF FinalizeWriter, KindsInv
<1>2. CASE /\ IsOpen(n)
           /\ written' = [written EXCEPT ![s] = guest[current][n].at]
           /\ Goes(s, "finalized")
           /\ UNCHANGED received
  <2>1. PICK f \in Frame :
          /\ Becomes(s, f) /\ f.kind = frame[s].kind
          /\ f.phase = "finalized" /\ f.eof = frame[s].eof
    BY <1>2, Frames
  <2>2. frame'[s] = f /\ \A u \in Sessions \ {s} : frame'[u] = frame[u]
    BY <2>1, Become
  <2>3. Phase(s) = "streaming" /\ Direction(s) = "writes"
    BY <1>1, Meanings DEF IInv
  <2>4. Phase(s)' = "complete" /\ Direction(s)' = Direction(s)
    BY <2>1, <2>2 DEF Phase, Direction
  <2>5. written' = [written EXCEPT ![s] = Len(received[s])]
    BY <1>1, <1>2, Reached
  <2>6. Streams!EndWriting(s)
    BY <1>2, <2>2, <2>3, <2>4, <2>5, StatementSteps DEF Streams!EndWriting
  <2> QED
    BY <2>6 DEF Streams!Next
<1>3. CASE Fails(s)
  BY <1>1, <1>3, FailingStreams DEF Fails
<1> QED
  BY <1>2, <1>3 DEF FinalizeWriter

LEMMA EndStreams ==
    ASSUME IInv, IInv', KindsInv, NEW s \in Sessions,
           CloseRefused(s) \/ DropWriter(s) \/ DropReader(s) \/ DropCursor(s)
    PROVE  Streams!Next
<1>1. /\ Leaves(s) /\ frame[s].phase # "gone" /\ frame[s].kind # "none"
      /\ UNCHANGED <<received, written>>
  BY DEF CloseRefused, DropWriter, DropReader, DropCursor, Dropped, KindsInv
<1> QED
  BY <1>1, LeavingStreams

LEMMA NextStreams ==
    ASSUME IInv, IInv', OwnObjects, KindsInv, [Next]_vars
    PROVE  [Streams!Next]_(Streams!streams)
<1>1. UNCHANGED <<frame, received, written>> =>
        UNCHANGED Streams!streams
  BY DEF Streams!streams, Phase, Direction
<1>2. CASE UNCHANGED vars \/ Reload \/ AtRest
  BY <1>1, <1>2 DEF vars, Reload, AtRest
<1>3. ASSUME NEW s \in Sessions,
             \/ BindWriter(s) \/ BindReader(s) \/ BindCursor(s)
             \/ CloseRefused(s)
             \/ DropWriter(s) \/ DropReader(s) \/ DropCursor(s)
      PROVE  Streams!Next
  BY <1>3, BindStreams, EndStreams
<1>4. ASSUME NEW s \in Sessions,
             \/ OpenWriter(s) \/ OpenCursor(s)
             \/ PullReader(s) \/ PullCursor(s)
      PROVE  Streams!Next
  BY <1>4, MakesStreams, PullsStreams
  DEF OpenWriter, OpenCursor, PullReader, PullCursor
<1>5. ASSUME NEW s \in Sessions, Sink(s) \/ FinalizeWriter(s)
      PROVE  Streams!Next
  BY <1>5, SinkStreams, FinalizeStreams
<1> QED
  BY <1>2, <1>3, <1>4, <1>5 DEF Next

LEMMA NextKinds ==
    ASSUME IInv, KindsInv, [Next]_vars
    PROVE  KindsInv'
<1>1. CASE UNCHANGED vars \/ Reload \/ AtRest
  BY <1>1 DEF vars, Reload, AtRest, KindsInv
<1>2. ASSUME NEW s \in Sessions, NEW f, Becomes(s, f),
             f.phase = "refused" => f.kind = "read",
             f.kind = "write" => ~f.eof
      PROVE  KindsInv'
  BY <1>2, Become DEF KindsInv
<1>3. ASSUME NEW s \in Sessions, UNCHANGED frame
      PROVE  KindsInv'
  BY <1>3 DEF KindsInv
<1>4. ASSUME NEW s \in Sessions, Leaves(s) \/ Goes(s, "failed")
                                 \/ Goes(s, "finalized")
      PROVE  KindsInv'
  <2>1. PICK f \in Frame : /\ Becomes(s, f) /\ f.kind = frame[s].kind
                           /\ f.phase # "refused" /\ f.eof = frame[s].eof
    BY <1>4, Frames
  <2> QED
    BY <1>2, <2>1 DEF KindsInv
<1>5. ASSUME NEW s \in Sessions, BindWriter(s) \/ BindCursor(s)
      PROVE  KindsInv'
  <2>1. PICK kind \in {"write", "scan"} : Binds(s, kind)
    BY <1>5 DEF BindWriter, BindCursor
  <2> DEFINE f == [frame[s] EXCEPT !.kind = kind, !.phase = "bound"]
  <2>0. frame[s] \in Frame
    BY DEF IInv, TypeOK
  <2>9. frame[s].eof = FALSE
    BY <2>1 DEF Binds, NoFrame
  <2>2. f.phase = "bound" /\ f.eof = FALSE /\ f \in Frame
    BY <2>0, <2>9 DEF Frame
  <2>3. Becomes(s, f)
    BY <2>1, <2>2 DEF Binds, Becomes
  <2> HIDE DEF f
  <2> QED
    BY <1>2, <2>2, <2>3
<1>6. ASSUME NEW s \in Sessions, BindReader(s) PROVE KindsInv'
  <2>1. frame \in [Sessions -> Frame] /\ frame[s] \in Frame
    BY DEF IInv, TypeOK
  <2>2. /\ frame'[s].kind = "read"
        /\ \A u \in Sessions \ {s} : frame'[u] = frame[u]
    <3>1. CASE \E n \in AllNumbers, phase \in {"open", "refused"} :
                 frame' = [frame EXCEPT ![s] = [kind |-> "read",
                            phase |-> phase, number |-> n, eof |-> FALSE]]
      BY <3>1, <2>1
    <3>2. CASE frame' = [frame EXCEPT ![s] = [@ EXCEPT !.kind = "read",
                                                    !.phase = "gone"]]
      BY <3>2, <2>1 DEF Frame
    <3> QED
      BY <1>6, <3>1, <3>2 DEF BindReader
  <2> QED
    BY <2>2 DEF KindsInv
<1>7. ASSUME NEW s \in Sessions, OpenWriter(s) \/ OpenCursor(s)
      PROVE  KindsInv'
  <2>1. PICK kind \in {"write", "scan"} : MakesObject(s, kind)
    BY <1>7 DEF OpenWriter, OpenCursor
  <2>2. CASE Fails(s)
    BY <1>4, <2>2 DEF Fails
  <2>3. ASSUME NEW n \in AllNumbers,
               frame' = [frame EXCEPT ![s] = [@ EXCEPT !.phase = "open",
                                                       !.number = n]]
        PROVE  KindsInv'
    <3> DEFINE f == [frame[s] EXCEPT !.phase = "open", !.number = n]
    <3>1. /\ f.phase = "open" /\ f.eof = frame[s].eof
          /\ f.kind = frame[s].kind /\ f \in Frame
      BY DEF IInv, TypeOK, Frame
    <3>2. Becomes(s, f)
      BY <2>3, <3>1 DEF Becomes
    <3> HIDE DEF f
    <3> QED
      BY <1>2, <3>1, <3>2 DEF KindsInv
  <2> QED
    BY <2>1, <2>2, <2>3 DEF MakesObject
<1>8. ASSUME NEW s \in Sessions, PullReader(s) \/ PullCursor(s)
      PROVE  KindsInv'
  <2>1. PICK kind \in {"read", "scan"} : Pulls(s, kind)
    BY <1>8 DEF PullReader, PullCursor
  <2>2. CASE frame' = [frame EXCEPT ![s] = [@ EXCEPT !.eof = TRUE]]
    <3> DEFINE f == [frame[s] EXCEPT !.eof = TRUE]
    <3>1. f.phase = "open" /\ f.kind = kind /\ f \in Frame
      BY <2>1 DEF Pulls, IInv, TypeOK, Frame
    <3>2. Becomes(s, f)
      BY <2>2, <3>1 DEF Becomes
    <3> HIDE DEF f
    <3> QED
      BY <1>2, <3>1, <3>2
  <2> QED
    BY <1>3, <1>4, <2>1, <2>2 DEF Pulls, Fails
<1>9. ASSUME NEW s \in Sessions, Sink(s) \/ FinalizeWriter(s)
      PROVE  KindsInv'
  BY <1>3, <1>4, <1>9 DEF Sink, FinalizeWriter, Fails
<1>10. ASSUME NEW s \in Sessions,
              CloseRefused(s) \/ DropWriter(s) \/ DropReader(s) \/ DropCursor(s)
       PROVE  KindsInv'
  BY <1>4, <1>10 DEF CloseRefused, DropWriter, DropReader, DropCursor, Dropped
<1> QED
  BY <1>1, <1>5, <1>6, <1>7, <1>8, <1>9, <1>10 DEF Next

-----------------------------------------------------------------------------
(* Loads between statements *)

\* What a step with the guest leaves: whose an object is.
LEMMA OwnersStay ==
    ASSUME IInv, NEW n,
           \/ UNCHANGED guest
           \/ Closes(n)
           \/ IsOpen(n) /\ Advances(n)
    PROVE  \A i \in Loads, m \in AllNumbers :
             guest'[i][m].of = guest[i][m].of
<1>1. /\ guest \in [Loads -> [AllNumbers -> Object]] /\ current \in Loads
      /\ IsOpen(n) => n \in AllNumbers /\ guest[current][n] \in Object
  BY DEF IInv, TypeOK, IsOpen
<1>2. CASE UNCHANGED guest
  BY <1>2
<1>3. ASSUME NEW is, IsOpen(n), ObjectIs(n, is)
      PROVE  \A i \in Loads, m \in AllNumbers :
               guest'[i][m].of = guest[i][m].of
  BY <1>1, <1>3 DEF Object, ObjectIs
<1>4. CASE IsOpen(n) /\ guest' = [guest EXCEPT ![current][n].at = @ + 1]
  BY <1>1, <1>4 DEF Object
<1> QED
  BY <1>2, <1>3, <1>4 DEF Closes, Advances

\* A number is kept or forgotten, and objects stay whose they are.
LEMMA NumbersStayHere ==
    ASSUME IInv, ObjectsHere, UNCHANGED current,
           \A s \in Sessions : frame'[s].number \in {0, frame[s].number},
           \A i \in Loads, m \in AllNumbers :
             guest'[i][m].of = guest[i][m].of
    PROVE  ObjectsHere'
<1> SUFFICES ASSUME NEW s \in Sessions, frame'[s].number # 0,
                    NEW i \in Loads, guest'[i][frame'[s].number].of = s
             PROVE  i = current
  BY DEF ObjectsHere
<1>1. frame'[s].number = frame[s].number /\ frame[s].number \in AllNumbers
  BY DEF IInv, SessionSafe, NumberHasObject
<1> QED
  BY <1>1 DEF ObjectsHere

\* The only object of a statement is made in the instance that is loaded.
LEMMA OpensHere ==
    ASSUME IInv, ObjectsHere, UNCHANGED current,
           NEW s \in Sessions, NEW n \in AllNumbers, NEW f, Becomes(s, f),
           Opens(s, n), f.number = n, frame[s].phase \in {"idle", "bound"}
    PROVE  ObjectsHere'
<1>1. frame'[s] = f /\ \A u \in Sessions \ {s} : frame'[u] = frame[u]
  BY Become
<1>2. \A i \in Loads, m \in AllNumbers : guest[i][m].of # s
  BY NumbersPositive DEF IInv, SessionSafe, NothingBeforeOpen, ObjectsHaveFrame
<1>3. \A i \in Loads, m \in AllNumbers :
        \/ guest'[i][m] = guest[i][m]
        \/ i = current /\ m = n /\ guest'[i][m].of = s
  BY DEF Opens, IInv, TypeOK
<1>4. ASSUME NEW u \in Sessions, frame'[u].number # 0,
             NEW i \in Loads, guest'[i][frame'[u].number].of = u
      PROVE  i = current
  <2>1. CASE u = s
    BY <2>1, <1>1, <1>2, <1>3, <1>4
  <2>2. CASE u # s
    <3>1. frame'[u].number = frame[u].number /\ frame[u].number \in AllNumbers
      BY <2>2, <1>1, <1>4 DEF IInv, SessionSafe, NumberHasObject
    <3> QED
      BY <3>1, <2>2, <1>3, <1>4 DEF ObjectsHere
  <2> QED
    BY <2>1, <2>2
<1> QED
  BY <1>4 DEF ObjectsHere

LEMMA NextHere ==
    ASSUME IInv, ObjectsHere, LoadsBetween, [Next]_vars
    PROVE  ObjectsHere'
<1>0. frame \in [Sessions -> Frame]
  BY DEF IInv, TypeOK
<1>1. CASE UNCHANGED vars \/ AtRest
  BY <1>1 DEF vars, AtRest, ObjectsHere
<1>2. CASE Reload
  <2>1. UNCHANGED frame /\ current' # current
    BY <1>2, LoadsAssumption DEF Reload, IInv, TypeOK
  <2> QED
    BY <2>1 DEF LoadsBetween, ObjectsHere
<1>3. ASSUME NEW s \in Sessions, UNCHANGED current,
             \/ Leaves(s) \/ Goes(s, "failed")
             \/ Goes(s, "finalized") \/ UNCHANGED frame,
             \/ UNCHANGED guest
             \/ Closes(frame[s].number)
             \/ IsOpen(frame[s].number) /\ Advances(frame[s].number)
      PROVE  ObjectsHere'
  <2>1. frame[s] \in Frame
    BY <1>0
  <2>2. frame'[s].number \in {0, frame[s].number}
    <3>1. CASE UNCHANGED frame
      BY <3>1
    <3>2. CASE Leaves(s)
      BY <1>0, <2>1, <3>2 DEF Leaves, Frame
    <3>3. CASE Goes(s, "failed") \/ Goes(s, "finalized")
      BY <1>0, <2>1, <3>3 DEF Goes, Frame
    <3> QED
      BY <1>3, <3>1, <3>2, <3>3
  <2>3. \A u \in Sessions \ {s} : frame'[u] = frame[u]
    BY <1>0, <1>3 DEF Leaves, Goes
  <2>4. \A u \in Sessions : frame'[u].number \in {0, frame[u].number}
    BY <2>2, <2>3
  <2> QED
    BY <2>4, <1>3, OwnersStay, NumbersStayHere
<1>4. ASSUME NEW s \in Sessions, BindWriter(s) \/ BindCursor(s)
      PROVE  ObjectsHere'
  <2>0. \A u \in Sessions : frame[u] \in Frame
    BY <1>0
  <2>1. \A u \in Sessions : frame'[u].number = frame[u].number
    <3>1. PICK kind \in {"write", "scan"} :
            frame' = [frame EXCEPT ![s] = [@ EXCEPT !.kind = kind,
                                                    !.phase = "bound"]]
      BY <1>4 DEF BindWriter, BindCursor, Binds
    <3> QED
      BY <1>0, <2>0, <3>1 DEF Frame
  <2>2. UNCHANGED <<current, guest>>
    BY <1>4 DEF BindWriter, BindCursor, Binds
  <2> QED
    BY <2>1, <2>2, NumbersStayHere
<1>5. ASSUME NEW s \in Sessions, BindReader(s) PROVE ObjectsHere'
  <2>1. frame[s].phase = "idle" /\ frame[s].number = 0 /\ UNCHANGED current
    BY <1>5 DEF BindReader, NoFrame
  <2>2. ASSUME NEW n \in AllNumbers, NEW p \in {"open", "refused"},
               Opens(s, n),
               frame' = [frame EXCEPT ![s] = [kind |-> "read",
                            phase |-> p, number |-> n, eof |-> FALSE]]
        PROVE  ObjectsHere'
    <3> DEFINE f == [kind |-> "read", phase |-> p, number |-> n, eof |-> FALSE]
    <3>1. Becomes(s, f) /\ f.number = n
      BY <2>2 DEF Becomes, Frame
    <3> HIDE DEF f
    <3> QED
      BY <2>1, <2>2, <3>1, OpensHere
  <2>3. ASSUME frame' = [frame EXCEPT ![s] = [@ EXCEPT !.kind = "read",
                                                     !.phase = "gone"]],
               UNCHANGED guest
        PROVE  ObjectsHere'
    <3>1. \A u \in Sessions : frame'[u].number = frame[u].number
      BY <1>0, <2>3 DEF Frame
    <3> QED
      BY <2>1, <2>3, <3>1, NumbersStayHere
  <2> QED
    BY <1>5, <2>2, <2>3 DEF BindReader
<1>6. ASSUME NEW s \in Sessions, OpenWriter(s) \/ OpenCursor(s)
      PROVE  ObjectsHere'
  <2>1. PICK kind : MakesObject(s, kind)
    BY <1>6 DEF OpenWriter, OpenCursor
  <2>2. frame[s].phase = "bound" /\ UNCHANGED current
    BY <2>1 DEF MakesObject
  <2>3. CASE Fails(s)
    BY <1>3, <2>2, <2>3 DEF Fails
  <2>4. ASSUME NEW n \in AllNumbers, Opens(s, n),
               frame' = [frame EXCEPT ![s] = [@ EXCEPT !.phase = "open",
                                                       !.number = n]]
        PROVE  ObjectsHere'
    <3> DEFINE f == [frame[s] EXCEPT !.phase = "open", !.number = n]
    <3>1. f \in Frame /\ f.number = n
      BY <1>0 DEF Frame
    <3>2. Becomes(s, f)
      BY <2>4, <3>1 DEF Becomes
    <3> HIDE DEF f
    <3> QED
      BY <2>2, <2>4, <3>1, <3>2, OpensHere
  <2> QED
    BY <2>1, <2>3, <2>4 DEF MakesObject
<1>7. ASSUME NEW s \in Sessions, PullReader(s) \/ PullCursor(s)
      PROVE  ObjectsHere'
  <2>1. PICK kind : Pulls(s, kind)
    BY <1>7 DEF PullReader, PullCursor
  <2>2. CASE frame' = [frame EXCEPT ![s] = [@ EXCEPT !.eof = TRUE]]
             /\ UNCHANGED guest
    <3>1. \A u \in Sessions : frame'[u].number = frame[u].number
      BY <1>0, <2>2 DEF Frame
    <3> QED
      BY <2>1, <2>2, <3>1, NumbersStayHere DEF Pulls
  <2> QED
    BY <1>3, <2>1, <2>2 DEF Pulls, Fails
<1>8. ASSUME NEW s \in Sessions, Sink(s) \/ FinalizeWriter(s)
      PROVE  ObjectsHere'
  BY <1>3, <1>8 DEF Sink, FinalizeWriter, Fails, Closes
<1>9. ASSUME NEW s \in Sessions,
             CloseRefused(s) \/ DropWriter(s) \/ DropReader(s) \/ DropCursor(s)
      PROVE  ObjectsHere'
  BY <1>3, <1>9 DEF CloseRefused, DropWriter, DropReader, DropCursor, Dropped
<1> QED
  BY <1>1, <1>2, <1>4, <1>5, <1>6, <1>7, <1>8, <1>9 DEF Next

LEMMA HereInvariance ==
    Spec /\ [][LoadsBetween]_vars => [](IInv /\ ObjectsHere)
<1>1. Init => ObjectsHere
  BY DEF Init, NoFrame, ObjectsHere
<1>2. IInv /\ ObjectsHere => OwnObjects
  <2>1. \A s \in Sessions : IsOpen(frame[s].number) => frame[s].number # 0
    BY NumbersPositive DEF IsOpen
  <2> QED
    BY <2>1 DEF ObjectsHere, OwnObjects
<1>3. IInv /\ ObjectsHere /\ [Next]_vars /\ [LoadsBetween]_vars =>
        (IInv /\ ObjectsHere)'
  <2> SUFFICES ASSUME IInv, ObjectsHere, [Next]_vars, [LoadsBetween]_vars
               PROVE  IInv' /\ ObjectsHere'
    OBVIOUS
  <2>1. LoadsBetween
    BY DEF LoadsBetween, vars
  <2> QED
    BY <1>2, <2>1, NextSafe, NextHere
<1> QED
  BY <1>1, <1>3, InitSafe, PTL DEF Spec

\* COPY TO, COPY FROM and arrow scans are streams of batches: each step of a
\* callback moves the next batch, begins, ends or fails one statement, or is
\* nothing to who issued it, as a load of the component always is.
THEOREM SessionsImplementStreams ==
    ASSUME NumbersApart PROVE Spec => ImplementsStreams
<1>1. Init => Streams!Init /\ KindsInv
  BY DEF Init, NoFrame, Streams!Init, Phase, Direction, KindsInv
<1>2. IInv => OwnObjects
  BY ApartOwn
<1>3. IInv /\ IInv' /\ OwnObjects /\ KindsInv /\ [Next]_vars =>
        [Streams!Next]_(Streams!streams)
  BY NextStreams
<1>4. IInv /\ KindsInv /\ [Next]_vars => KindsInv'
  BY NextKinds
<1> QED
  BY <1>1, <1>2, <1>3, <1>4, Invariance, PTL
  DEF Spec, ImplementsStreams, Streams!Spec

\* The same for components whose instances hand out the same numbers, as those
\* do that count from 1, if the component is loaded between statements only:
\* then each statement finds its own object, and leaves none open.
THEOREM StreamsBetweenLoads ==
    Spec /\ [][LoadsBetween]_vars => ImplementsStreams /\ []NothingLeftOpen
<1>1. Init => Streams!Init /\ KindsInv
  BY DEF Init, NoFrame, Streams!Init, Phase, Direction, KindsInv
<1>2. IInv /\ ObjectsHere => OwnObjects /\ NothingLeftOpen
  <2>1. \A s \in Sessions : IsOpen(frame[s].number) => frame[s].number # 0
    BY NumbersPositive DEF IsOpen
  <2> QED
    BY <2>1, SafeMeans DEF ObjectsHere, OwnObjects
<1>3. IInv /\ IInv' /\ OwnObjects /\ KindsInv /\ [Next]_vars =>
        [Streams!Next]_(Streams!streams)
  BY NextStreams
<1>4. IInv /\ KindsInv /\ [Next]_vars => KindsInv'
  BY NextKinds
<1> QED
  BY <1>1, <1>2, <1>3, <1>4, HereInvariance, PTL
  DEF Spec, ImplementsStreams, Streams!Spec
=============================================================================
