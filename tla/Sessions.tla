------------------------------ MODULE Sessions ------------------------------
(***************************************************************************)
(* The streams between DuckDB and a component (src/reg_duckdb.rs): COPY TO *)
(* (a writer), COPY FROM (a reader) and scans of arrow tables (a cursor).  *)
(* The guest makes the object and hands out a number; DuckDB's callbacks   *)
(* keep the number in bind, init or global state and pass it with each     *)
(* later call.  Calls go to the instance that is loaded at the time.       *)
(*                                                                         *)
(* A session is one statement.  Its data are batches: a source yields 1,   *)
(* 2, ..., Batches, and then the empty batch that means the end.           *)
(***************************************************************************)
EXTENDS Integers, Sequences

CONSTANTS
    Sessions,
    NoSession,
    Loads,        \* 1 .. how often the component may be loaded
    Numbers,      \* Numbers[i]: what instance i may hand out
    Batches       \* bound on the batches of a session

ASSUME NoSessionAssumption == NoSession \notin Sessions
ASSUME LoadsAssumption ==
    /\ Loads \subseteq Nat \ {0} /\ 1 \in Loads
    /\ Numbers \in [Loads -> SUBSET (Nat \ {0})]
ASSUME BatchesAssumption == Batches \in Nat

VARIABLES
    current,      \* the instance calls reach
    guest,        \* guest[i][n]: what number n means to instance i
    frame,        \* what DuckDB keeps for each session
    received,     \* the batches that went through, in order
    written       \* what the guest has on file for each finalized writer

vars == <<current, guest, frame, received, written>>

-----------------------------------------------------------------------------
(* Types *)

AllNumbers == UNION {Numbers[i] : i \in Loads}

\* at is the number of batches that went through the object; one that is kept
\* was to be closed, and its guest failed.
Object == [is : {"unused", "open", "closed", "kept"},
           of : Sessions \cup {NoSession}, at : 0 .. Batches]
Unused == [is |-> "unused", of |-> NoSession, at |-> 0]

\* number 0: nothing has been opened.  A failed session is one whose
\* statement has been told of an error.
Frame == [kind : {"none", "write", "read", "scan"},
          phase : {"idle", "bound", "open", "refused", "finalized", "failed",
                   "gone"},
          number : AllNumbers \cup {0}, eof : BOOLEAN]
NoFrame == [kind |-> "none", phase |-> "idle", number |-> 0, eof |-> FALSE]

TypeOK ==
    /\ current \in Loads
    /\ guest \in [Loads -> [AllNumbers -> Object]]
    /\ frame \in [Sessions -> Frame]
    /\ received \in [Sessions -> Seq(1 .. Batches)]
    /\ written \in [Sessions -> 0 .. Batches]

Init ==
    /\ current = 1
    /\ guest = [i \in Loads |-> [n \in AllNumbers |-> Unused]]
    /\ frame = [s \in Sessions |-> NoFrame]
    /\ received = [s \in Sessions |-> <<>>]
    /\ written = [s \in Sessions |-> 0]

-----------------------------------------------------------------------------
(* The guest: external.  A number that is not open is an error.            *)

IsOpen(n) == n \in AllNumbers /\ guest[current][n].is = "open"

\* The guest makes an object for s and calls it n.
Opens(s, n) ==
    /\ n \in Numbers[current] /\ guest[current][n].is = "unused"
    /\ guest' = [guest EXCEPT ![current][n] =
                    [is |-> "open", of |-> s, at |-> 0]]

Advances(n) ==
    guest' = [guest EXCEPT ![current][n].at = @ + 1]

ObjectIs(n, is) ==
    guest' = [guest EXCEPT ![current][n].is = is]

\* A close that fails is logged, and not tried again.
Closes(n) ==
    IF IsOpen(n) THEN ObjectIs(n, "closed") \/ ObjectIs(n, "kept")
    ELSE UNCHANGED guest

-----------------------------------------------------------------------------
(* Steps of a session *)

Goes(s, phase) == frame' = [frame EXCEPT ![s] = [@ EXCEPT !.phase = phase]]

\* DuckDB has destroyed what it kept of the statement.
Leaves(s) ==
    frame' = [frame EXCEPT ![s] = [@ EXCEPT !.phase = "gone", !.number = 0]]

\* The callback sets an error and changes nothing else.
Fails(s) == Goes(s, "failed") /\ UNCHANGED <<guest, received, written>>

\* Engine2::load of the component, once more.
Reload ==
    /\ current + 1 \in Loads
    /\ current' = current + 1
    /\ UNCHANGED <<guest, frame, received, written>>

Binds(s, kind) ==
    /\ frame[s] = NoFrame
    /\ frame' = [frame EXCEPT ![s] = [@ EXCEPT !.kind = kind,
                                               !.phase = "bound"]]
    /\ UNCHANGED <<current, guest, received, written>>

\* ducklink_copy_bind: the schema only, and no writer yet.
BindWriter(s) == Binds(s, "write")

\* ArrowShim::bind and init: the columns, and a slot for the cursor.
BindCursor(s) == Binds(s, "scan")

\* ducklink_copy_from_bind: the reader is opened here.  One that has not the
\* columns of the target is refused.
BindReader(s) ==
    /\ frame[s] = NoFrame
    /\ \/ \E n \in AllNumbers, phase \in {"open", "refused"} :
            /\ Opens(s, n)
            /\ frame' = [frame EXCEPT ![s] = [kind |-> "read",
                            phase |-> phase, number |-> n, eof |-> FALSE]]
       \/ /\ frame' = [frame EXCEPT ![s] = [@ EXCEPT !.kind = "read",
                                                  !.phase = "gone"]]
          /\ UNCHANGED guest
    /\ UNCHANGED <<current, received, written>>

\* Mutant: the reader is forgotten.
CloseRefusedNever(s) ==
    /\ frame[s].phase = "refused"
    /\ Leaves(s)
    /\ UNCHANGED <<current, guest, received, written>>

\* No bind data was set, so nobody else will close the reader.
CloseRefused(s) ==
    /\ frame[s].phase = "refused"
    /\ Closes(frame[s].number)
    /\ Leaves(s)
    /\ UNCHANGED <<current, received, written>>

MakesObject(s, kind) ==
    /\ frame[s].phase = "bound" /\ frame[s].kind = kind
    /\ \/ \E n \in AllNumbers :
            /\ Opens(s, n)
            /\ frame' = [frame EXCEPT ![s] = [@ EXCEPT !.phase = "open",
                                                       !.number = n]]
            /\ UNCHANGED <<received, written>>
       \/ Fails(s)
    /\ UNCHANGED current

\* ducklink_copy_global_init.
OpenWriter(s) == MakesObject(s, "write")

\* The first call of ArrowShim::func, which keeps the number under the mutex
\* of the cursor and goes on to pull.
OpenCursor(s) == MakesObject(s, "scan")

\* Mutant: a batch that does not fit is passed over.
PullsSkipping(s, kind) ==
    LET n == frame[s].number
    IN /\ frame[s].phase = "open" /\ frame[s].kind = kind
       /\ ~frame[s].eof /\ IsOpen(n)
       /\ \/ /\ guest[current][n].at < Batches
             /\ Advances(n)
             /\ received' = [received EXCEPT ![s] =
                                Append(@, guest[current][n].at + 1)]
             /\ UNCHANGED frame
          \/ /\ guest[current][n].at < Batches
             /\ Advances(n)
             /\ UNCHANGED <<frame, received>>
          \/ /\ guest[current][n].at = Batches
             /\ frame' = [frame EXCEPT ![s] = [@ EXCEPT !.eof = TRUE]]
             /\ UNCHANGED <<guest, received>>
       /\ UNCHANGED <<current, written>>

\* Mutant: the end is not remembered, and the guest is asked once more.
PullsAfterEnd(s, kind) ==
    LET n == frame[s].number
    IN /\ frame[s].phase = "open" /\ frame[s].kind = kind
       /\ \/ /\ IsOpen(n) /\ guest[current][n].at < Batches
             /\ Advances(n)
             /\ received' = [received EXCEPT ![s] =
                                Append(@, guest[current][n].at + 1)]
             /\ UNCHANGED <<frame, written>>
          \/ /\ IsOpen(n) /\ guest[current][n].at = Batches
             /\ frame' = [frame EXCEPT ![s] = [@ EXCEPT !.eof = TRUE]]
             /\ UNCHANGED <<guest, received, written>>
          \/ Fails(s)
       /\ UNCHANGED current

\* A batch, the empty batch, or an error of the guest; a batch that is too
\* large or has rows of another width is an error too, and is lost.
Pulls(s, kind) ==
    LET n == frame[s].number
    IN /\ frame[s].phase = "open" /\ frame[s].kind = kind
       /\ ~frame[s].eof
       /\ \/ /\ IsOpen(n) /\ guest[current][n].at < Batches
             /\ Advances(n)
             /\ received' = [received EXCEPT ![s] =
                                Append(@, guest[current][n].at + 1)]
             /\ UNCHANGED <<frame, written>>
          \/ /\ IsOpen(n) /\ guest[current][n].at = Batches
             /\ frame' = [frame EXCEPT ![s] = [@ EXCEPT !.eof = TRUE]]
             /\ UNCHANGED <<guest, received, written>>
          \/ /\ IsOpen(n) /\ guest[current][n].at < Batches
             /\ Advances(n) /\ Goes(s, "failed")
             /\ UNCHANGED <<received, written>>
          \/ Fails(s)
       /\ UNCHANGED current

\* ducklink_copy_from_function.
PullReader(s) == Pulls(s, "read")

\* The rest of ArrowShim::func.
PullCursor(s) == Pulls(s, "scan")

\* Mutant: the error of the guest is not passed on.
SinkIgnoringErrors(s) ==
    LET n == frame[s].number
    IN /\ frame[s].phase = "open" /\ frame[s].kind = "write"
       /\ Len(received[s]) < Batches
       /\ \/ /\ IsOpen(n) /\ guest[current][n].at < Batches /\ Advances(n)
          \/ UNCHANGED guest
       /\ received' = [received EXCEPT ![s] = Append(@, Len(@) + 1)]
       /\ UNCHANGED <<current, frame, written>>

\* ducklink_copy_sink: DuckDB's next chunk.
Sink(s) ==
    LET n == frame[s].number
    IN /\ frame[s].phase = "open" /\ frame[s].kind = "write"
       /\ Len(received[s]) < Batches
       /\ \/ /\ IsOpen(n) /\ guest[current][n].at < Batches
             /\ Advances(n)
             /\ received' = [received EXCEPT ![s] = Append(@, Len(@) + 1)]
             /\ UNCHANGED <<frame, written>>
          \/ Fails(s)
       /\ UNCHANGED current

\* ducklink_copy_finalize.
FinalizeWriter(s) ==
    LET n == frame[s].number
    IN /\ frame[s].phase = "open" /\ frame[s].kind = "write"
       /\ \/ /\ IsOpen(n) /\ ObjectIs(n, "closed")
             /\ written' = [written EXCEPT ![s] = guest[current][n].at]
             /\ Goes(s, "finalized")
             /\ UNCHANGED received
          \/ Fails(s)
       /\ UNCHANGED current

\* DuckDB is through with the statement, after its end, an error, or a LIMIT.
Dropped(s, kind) ==
    /\ frame[s].phase \in {"bound", "open", "finalized", "failed"}
    /\ frame[s].kind = kind
    /\ Leaves(s)
    /\ UNCHANGED <<current, received, written>>

\* copy_bind_state_destroy, copy_writer_destroy: a writer has no close.
DropWriter(s) == Dropped(s, "write") /\ UNCHANGED guest

\* copy_from_bind_state_destroy.  An error or a panic goes to the log.
DropReader(s) == Dropped(s, "read") /\ Closes(frame[s].number)

\* Drop for ArrowShimInit: likewise, if a cursor was opened.
DropCursor(s) ==
    /\ Dropped(s, "scan")
    /\ IF frame[s].number # 0 THEN Closes(frame[s].number)
       ELSE UNCHANGED guest

AtRest ==
    /\ \A s \in Sessions : frame[s].phase = "gone"
    /\ UNCHANGED vars

Next ==
    \/ Reload
    \/ \E s \in Sessions :
         \/ BindWriter(s) \/ BindReader(s) \/ BindCursor(s)
         \/ CloseRefused(s)
         \/ OpenWriter(s) \/ OpenCursor(s)
         \/ Sink(s) \/ PullReader(s) \/ PullCursor(s)
         \/ FinalizeWriter(s)
         \/ DropWriter(s) \/ DropReader(s) \/ DropCursor(s)
    \/ AtRest

Spec == Init /\ [][Next]_vars

-----------------------------------------------------------------------------
(* Properties *)

\* A batch reaches DuckDB once and in its place: a session receives the
\* batches of its own source, from the first on, without a gap.
BatchesInOrder ==
    \A s \in Sessions : \A k \in DOMAIN received[s] : received[s][k] = k

\* A statement that has seen the end of its source has had all of it, and one
\* that finalized its writer has all it sank on file.
NothingCutOff ==
    \A s \in Sessions :
        /\ frame[s].eof => Len(received[s]) = Batches
        /\ frame[s].phase = "finalized" => written[s] = Len(received[s])

\* Once its statement is gone, the guest has been told to close the reader or
\* the cursor, in each instance that the statement's calls reached while it was
\* loaded: the object is closed, or its guest failed to close it.
NothingLeftOpen ==
    \A s \in Sessions : frame[s].phase = "gone" /\ frame[s].kind # "write" =>
        \A n \in AllNumbers : guest[current][n].of = s =>
            guest[current][n].is \in {"closed", "kept"}

\* Whether a statement reads or writes, and how far it is, for who issued it.
Direction(s) ==
    CASE frame[s].kind = "none" -> "none"
      [] frame[s].kind = "write" -> "writes"
      [] frame[s].kind \in {"read", "scan"} -> "reads"

Phase(s) ==
    CASE frame[s].phase \in {"idle", "bound"} -> "waiting"
      [] frame[s].phase = "open" /\ ~frame[s].eof -> "streaming"
      [] frame[s].phase = "open" /\ frame[s].eof -> "complete"
      [] frame[s].phase = "finalized" -> "complete"
      [] frame[s].phase \in {"refused", "failed"} -> "failed"
      [] frame[s].phase = "gone" -> "over"

Streams == INSTANCE BatchStreams WITH
    Statements <- Sessions,
    direction <- [s \in Sessions |-> Direction(s)],
    phase <- [s \in Sessions |-> Phase(s)],
    moved <- received,
    file <- written

\* The callbacks, the numbers they keep and the loads between them amount to a
\* stream of batches: a statement moves the next batch or none, no batch after
\* its end or its error, and a load moves, ends and fails nothing by itself.
ImplementsStreams == Streams!Spec
=============================================================================
