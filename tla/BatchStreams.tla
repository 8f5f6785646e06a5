---------------------------- MODULE BatchStreams ----------------------------
(***************************************************************************)
(* What a stream between DuckDB and a component promises (module Sessions *)
(* implements it): a statement moves the batches 1, 2, 3, ... one by one,  *)
(* until it ends or fails, and nothing after that.  A statement that reads *)
(* ends with the last batch of its source only; one that writes may end    *)
(* after any batch, and then all it has moved is on file.                  *)
(***************************************************************************)
EXTENDS Naturals, Sequences

CONSTANTS
    Statements,
    Batches       \* how many batches there are to move

VARIABLES
    direction,    \* whether a statement reads or writes, once that is known
    phase,
    moved,        \* the batches that reached the other side, in order
    file          \* how many of them a statement that writes has on file

streams == <<direction, phase, moved, file>>

Init ==
    /\ direction = [s \in Statements |-> "none"]
    /\ phase = [s \in Statements |-> "waiting"]
    /\ moved = [s \in Statements |-> <<>>]
    /\ file = [s \in Statements |-> 0]

Goes(s, p) == phase' = [phase EXCEPT ![s] = p]

\* A statement begins.  One that reads may have its stream at once, or be told
\* that there is none.
Begin(s, d, p) ==
    /\ direction[s] = "none" /\ phase[s] = "waiting"
    /\ p = "waiting" \/ d = "reads"
    /\ direction' = [direction EXCEPT ![s] = d]
    /\ Goes(s, p)
    /\ UNCHANGED <<moved, file>>

Start(s) ==
    /\ phase[s] = "waiting" /\ direction[s] # "none"
    /\ Goes(s, "streaming")
    /\ UNCHANGED <<direction, moved, file>>

\* The next batch, and no other.
Move(s) ==
    /\ phase[s] = "streaming"
    /\ Len(moved[s]) < Batches
    /\ moved' = [moved EXCEPT ![s] = Append(@, Len(@) + 1)]
    /\ UNCHANGED <<direction, phase, file>>

EndReading(s) ==
    /\ phase[s] = "streaming" /\ direction[s] = "reads"
    /\ Len(moved[s]) = Batches
    /\ Goes(s, "complete")
    /\ UNCHANGED <<direction, moved, file>>

EndWriting(s) ==
    /\ phase[s] = "streaming" /\ direction[s] = "writes"
    /\ file' = [file EXCEPT ![s] = Len(moved[s])]
    /\ Goes(s, "complete")
    /\ UNCHANGED <<direction, moved>>

Fail(s) ==
    /\ phase[s] \in {"waiting", "streaming"} /\ direction[s] # "none"
    /\ Goes(s, "failed")
    /\ UNCHANGED <<direction, moved, file>>

\* The statement is over; it may be cut short, by a LIMIT for instance.
Leave(s) ==
    /\ phase[s] # "over" /\ direction[s] # "none"
    /\ Goes(s, "over")
    /\ UNCHANGED <<direction, moved, file>>

Next ==
    \E s \in Statements :
        \/ \E d \in {"reads", "writes"},
              p \in {"waiting", "streaming", "failed", "over"} :
             Begin(s, d, p)
        \/ Start(s) \/ Move(s) \/ EndReading(s) \/ EndWriting(s)
        \/ Fail(s) \/ Leave(s)

Spec == Init /\ [][Next]_streams
=============================================================================
