---------------------------- MODULE ColumnState ----------------------------
(***************************************************************************)
(* The column-native accumulator of a wasm aggregate (ColNativeState in    *)
(* src/reg_duckdb.rs), as a value and the operators on it.  The rows of a  *)
(* group are kept by column: a sequence of cells, and a mask of whole      *)
(* bytes that says which of them are NULL.  The mask is lazy: it does not  *)
(* exist before the first NULL, and rows that are not NULL do not grow it. *)
(***************************************************************************)
EXTENDS Masks

CONSTANTS
    Columns,    \* the arguments of the aggregate
    Values,
    Null,
    Default     \* what push_default_into stores where a NULL was

ASSUME NullAssumption == Null \notin Values
ASSUME DefaultAssumption == Default \in Values

Row == [Columns -> Values \cup {Null}]

ColumnStates == [cells : [Columns -> Seq(Values)],
                 validity : [Columns -> Seq(BOOLEAN)],
                 n : Nat]

NewState == [cells |-> [c \in Columns |-> <<>>],
             validity |-> [c \in Columns |-> <<>>],
             n |-> 0]

\* ColNativeState::new(&[]), which agg_combine leaves in the source.
Gutted == [cells |-> <<>>, validity |-> <<>>, n |-> 0]

-----------------------------------------------------------------------------
(* Operations *)

\* push_from_vector, push_default_into
Stored(value) == IF value = Null THEN Default ELSE value

\* push_row: mark_null covers the row it is about to clear.
PushRow(st, row) ==
    [cells |-> [c \in Columns |-> Append(st.cells[c], Stored(row[c]))],
     validity |-> [c \in Columns |->
                      Grown(st.validity[c], st.n, <<row[c] = Null>>)],
     n |-> st.n + 1]

\* append_chunk, primitive columns.  DuckDB's data under a NULL, which is
\* copied with the rest, may be anything: `under`.
AppendChunk(st, rows, under) ==
    [cells |-> [c \in Columns |-> st.cells[c] \o
                  [i \in 1 .. Len(rows) |->
                      IF rows[i][c] = Null THEN under ELSE rows[i][c]]],
     validity |-> [c \in Columns |->
                      Grown(st.validity[c], st.n,
                            [i \in 1 .. Len(rows) |-> rows[i][c] = Null])],
     n |-> st.n + Len(rows)]

\* append_col_variant, of each column
JoinedCells(st, other) == [c \in Columns |-> st.cells[c] \o other.cells[c]]

\* Mutant: the other state's bits are not moved to where its rows go.
JoinedUnshifted(st, other) ==
    [cells |-> JoinedCells(st, other),
     validity |-> [c \in Columns |->
        IF st.validity[c] = <<>> /\ other.validity[c] = <<>> THEN <<>>
        ELSE Cleared(Covering(st.validity[c], st.n + other.n), 0,
                     [i \in 1 .. other.n |-> ~Bit(other.validity[c], i)])],
     n |-> st.n + other.n]

\* append: other's cells after those of st, other's bits from st.n on.
Joined(st, other) ==
    [cells |-> JoinedCells(st, other),
     validity |-> [c \in Columns |->
        IF st.validity[c] = <<>> /\ other.validity[c] = <<>> THEN <<>>
        ELSE Cleared(Covering(st.validity[c], st.n + other.n), st.n,
                     [i \in 1 .. other.n |-> ~Bit(other.validity[c], i)])],
     n |-> st.n + other.n]

-----------------------------------------------------------------------------
(* What a reader of the columns sees: a bit past the mask's end is a one.  *)

CellAt(st, c, i) ==
    IF Bit(st.validity[c], i) THEN st.cells[c][i] ELSE Null

RowsOf(st) == [i \in 1 .. st.n |-> [c \in Columns |-> CellAt(st, c, i)]]

\* Cells keep step with the rows, and bits past the last row are ones.
InStep(st) ==
    \A c \in Columns : /\ Len(st.cells[c]) = st.n
                       /\ \A i \in DOMAIN st.validity[c] :
                             i > st.n => st.validity[c][i]
=============================================================================
