----------------------------- MODULE Delegation -----------------------------
(***************************************************************************)
(* The nested query of a delegating aggregate (src/delegating_agg.rs).  A  *)
(* column that has one value throughout the group is written into the call *)
(* as a literal, because some aggregates insist on a constant argument;    *)
(* the other columns are bound row by row.  Neither step keeps the value:  *)
(* -0.0 counts as 0.0, NaN as unlike itself, and a literal is text that    *)
(* SQL reads in its own way (the DOUBLE 1.0 is written 1, an INTEGER).     *)
(***************************************************************************)
EXTENDS Integers, Sequences

CONSTANTS
    Columns,
    Alike,      \* values_equal, as a set of pairs
    Literal,    \* what SQL reads where value_to_sql_literal wrote a value
    NoReading   \* of a literal that SQL cannot read (NaN, inf)

\* constant_literal_for_col: no row differs from the first.
ConstantColumns(rows) ==
    {c \in Columns :
        \A i \in 2 .. Len(rows) : <<rows[1][c], rows[i][c]>> \in Alike}

Literals(rows) == [c \in ConstantColumns(rows) |-> Literal[rows[1][c]]]

\* Mutant: one synthetic row, whatever the number of rows.
DelegationQueryCollapsed(rows) ==
    LET varying == Columns \ ConstantColumns(rows)
    IN [literal |-> Literals(rows),
        tuples |-> IF varying = {} THEN << <<>> >>
                   ELSE [i \in 1 .. Len(rows) |->
                            [c \in varying |-> rows[i][c]]]]

\* build_delegation_sql: SELECT target(literals and columns) FROM (VALUES ..).
\* A tuple has the varying columns only; without any it is the synthetic (1).
DelegationQuery(rows) ==
    LET varying == Columns \ ConstantColumns(rows)
    IN [literal |-> Literals(rows),
        tuples |-> [i \in 1 .. Len(rows) |-> [c \in varying |-> rows[i][c]]]]

\* DuckDB can prepare the query.
Readable(query) == \A c \in DOMAIN query.literal : query.literal[c] # NoReading

\* The rows the target aggregate is called with.
SeenByTarget(query) ==
    [i \in 1 .. Len(query.tuples) |-> [c \in Columns |->
        IF c \in DOMAIN query.literal THEN query.literal[c]
        ELSE query.tuples[i][c]]]
=============================================================================
