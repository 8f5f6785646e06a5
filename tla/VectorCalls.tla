----------------------------- MODULE VectorCalls -----------------------------
(***************************************************************************)
(* How DuckDB's vectors reach a component and come back (src/reg_duckdb.rs *)
(* and the dispatch of src/engine.rs): scalar functions by columns, scalar *)
(* functions and casts by rows, and scans of table functions.              *)
(*                                                                         *)
(* The module follows one thread.  A call has a chunk of rows; the columns *)
(* of its arguments are read into a scratch that the thread keeps from one *)
(* call to the next, whatever the function and however the call ended.  No *)
(* call starts inside another: QueryReentrancyGuard refuses the query.     *)
(*                                                                         *)
(* A cell stands for its value: no two cells of a behaviour are equal.     *)
(***************************************************************************)
EXTENDS Masks

CONSTANTS
    Functions,    \* scalar functions, casts and table functions
    Surface,      \* what it was registered as
    Overloaded,   \* scalar functions that share their name with another
    Takes,        \* the types of its arguments
    Returns,      \* the type of its result
    Types,
    Wide,         \* types without an arm of their own: DECIMAL, UUID, ..
    Nested,       \* LIST, STRUCT, MAP, ARRAY: no encoding is wired yet
    Bindable,     \* types a parameter of a table function can be read as
    Null,
    Failed,       \* the answer to a row that the guest fails on
    Lost,         \* what the guest finds where a nested value was
    Unset,        \* what DuckDB's vector held before the call
    MaskChoices,  \* the masks that are tried, DuckDB's and the guest's
    MaxChunk,     \* STANDARD_VECTOR_SIZE
    MaxRows,      \* bound on the rows of a table function
    MaxCalls      \* bound on the calls of a behaviour

Surfaces == {"scalar", "scalar_ex", "cast", "table"}

ASSUME FunctionsAssumption ==
    /\ Functions # {}
    /\ Surface \in [Functions -> Surfaces]
    /\ Overloaded \subseteq {f \in Functions : Surface[f] = "scalar"}
    /\ Takes \in [Functions -> Seq(Types)]
    /\ Returns \in [Functions -> Types]
ASSUME TypesAssumption ==
    /\ Wide \subseteq Types /\ Nested \subseteq Types /\ Bindable \subseteq Types
    /\ Wide \cap Nested = {} /\ Bindable \cap (Wide \cup Nested) = {}
    /\ Types \ (Wide \cup Nested) # {}
ASSUME MasksAssumption == MaskChoices \subseteq Seq(BOOLEAN)
ASSUME BoundsAssumption ==
    MaxChunk \in Nat \ {0} /\ MaxRows \in Nat /\ MaxCalls \in Nat

VARIABLES
    scratch,     \* SCALAR_ARGS_SCRATCH
    nulls,       \* SCALAR_NULL_MASK_SCRATCH
    call,        \* the call in progress, or the last one
    out,         \* DuckDB's output vector
    scan,        \* WasmTableBind and the cursor of WasmTableInit
    calls,
    seen,        \* history: the columns, or the rows, the guest was passed
    meant,       \* history: what the guest answered, row by row
    delivered    \* history: the rows of the scan that DuckDB has got

vars == <<scratch, nulls, call, out, scan, calls, seen, meant, delivered>>

-----------------------------------------------------------------------------
(* Types *)

Cell == [of : {"argument", "answer"}, type : Types, call : 1 .. MaxCalls,
         column : Nat, row : Nat]
ASSUME NullAssumption ==
    Null \notin Cell /\ Failed \notin Cell /\ Failed # Null

Argument(t, k, j, i) ==
    [of |-> "argument", type |-> t, call |-> k, column |-> j, row |-> i]
Answer(t, k, i) ==
    [of |-> "answer", type |-> t, call |-> k, column |-> 1, row |-> i]

Colvec == [type : Types, cells : Seq(Cell), mask : Seq(BOOLEAN), rows : Nat]

\* A cell as a reader of the column finds it.
CellAt(col, i) ==
    IF ~Bit(col.mask, i) THEN Null
    ELSE IF i \in DOMAIN col.cells THEN col.cells[i]
    ELSE Lost

\* at is the next column to read, or the next row to dispatch.
Call == [pc : {"idle", "read", "write", "rows", "bind", "scan", "end", "ok",
               "error"},
         fn : Functions, n : 0 .. MaxChunk, chunk : Seq(Colvec), at : Nat]

TypeOK ==
    /\ scratch \in Seq(Colvec)
    /\ nulls \in Seq(BOOLEAN)
    /\ call \in Call
    /\ out \in Seq(Cell \cup {Null, Unset})
    /\ scan \in [rows : 0 .. MaxRows, odd : 0 .. MaxRows, cursor : 0 .. MaxRows]
    /\ calls \in 0 .. MaxCalls
    /\ seen \in Seq(Seq(Cell \cup {Null, Lost}))
    /\ meant \in Seq(Cell \cup {Null, Failed})
    /\ delivered \in Seq(1 .. MaxRows)

Init ==
    /\ scratch = <<>>
    /\ nulls = <<>>
    /\ call = [pc |-> "idle", fn |-> CHOOSE f \in Functions : TRUE, n |-> 0,
               chunk |-> <<>>, at |-> 1]
    /\ out = <<>>
    /\ scan = [rows |-> 0, odd |-> 0, cursor |-> 0]
    /\ calls = 0
    /\ seen = <<>> /\ meant = <<>> /\ delivered = <<>>

-----------------------------------------------------------------------------
(* Calls *)

Arity(f) == Len(Takes[f])

\* register_scalar_ex, register_casts and register_tables
IsScalarEx(f) == Surface[f] = "scalar_ex"
IsCast(f) == Surface[f] = "cast"
IsTable(f) == Surface[f] = "table"

\* register_scalars: by columns, unless the name is overloaded.
ByColumns(f) == Surface[f] = "scalar" /\ f \notin Overloaded
ByRows(f) == f \in Overloaded \/ IsScalarEx(f) \/ IsCast(f)

\* The columns of n rows that DuckDB may pass.  It gives a mask or none; the
\* bits past the last row, and the cells that are NULL, may be anything.
ChunksFor(f, n, k) ==
    {[j \in 1 .. Arity(f) |->
        [type |-> Takes[f][j], mask |-> masks[j], rows |-> n,
         cells |-> [i \in 1 .. n |-> Argument(Takes[f][j], k, j, i)]]] :
     masks \in [1 .. Arity(f) ->
                   {m \in MaskChoices : Len(m) \in {0, WholeBytes(n)}}]}

Running == call.pc \in {"read", "write", "rows", "bind"}

Begins(f, n, pc) ==
    /\ ~Running /\ calls < MaxCalls
    /\ calls' = calls + 1
    /\ \E chunk \in ChunksFor(f, n, calls + 1) :
         call' = [pc |-> pc, fn |-> f, n |-> n, chunk |-> chunk, at |-> 1]
    /\ out' = [i \in 1 .. n |-> Unset]
    /\ seen' = <<>> /\ meant' = <<>>

Ends(pc) == call' = [call EXCEPT !.pc = pc]

-----------------------------------------------------------------------------
(* By columns: do_scalar_batch_col *)

Placeholder == [type |-> CHOOSE t \in Types \ (Wide \cup Nested) : TRUE,
                cells |-> <<>>, mask |-> <<>>, rows |-> 0]

\* The scratch is grown or truncated to the columns of the function.
BeginColumns(f) ==
    /\ ByColumns(f)
    /\ \E n \in 1 .. MaxChunk : Begins(f, n, "read")
    /\ scratch' = [j \in 1 .. Arity(f) |->
                      IF j <= Len(scratch) THEN scratch[j] ELSE Placeholder]
    /\ nulls' = <<>>
    /\ UNCHANGED <<scan, delivered>>

\* read_col_to_colvec: a column of its own; of a nested one the mask only.
Fresh(col) == IF col.type \in Nested THEN [col EXCEPT !.cells = <<>>] ELSE col

\* Slots that are overwritten in place, and keep what they have allocated.
Reusable(slot, col) == slot.type = col.type /\ col.type \notin Wide \cup Nested

\* Mutant: the mask of the slot is not cleared first.
RefilledKeepingMask(slot, col) ==
    IF Reusable(slot, col)
    THEN [slot EXCEPT !.cells = col.cells, !.rows = col.rows,
                      !.mask = IF col.mask = <<>> THEN @ ELSE col.mask]
    ELSE Fresh(col)

\* refill_colvec
Refilled(slot, col) ==
    IF Reusable(slot, col)
    THEN [slot EXCEPT !.cells = col.cells, !.mask = col.mask, !.rows = col.rows]
    ELSE Fresh(col)

\* validity_has_any_null: of the first n rows only.
HasNull(col, n) == \E i \in 1 .. n : ~Bit(col.mask, i)

ReadColumn ==
    /\ call.pc = "read" /\ call.at <= Arity(call.fn)
    /\ LET j == call.at
           col == call.chunk[j]
       IN /\ scratch' = [scratch EXCEPT ![j] = Refilled(@, col)]
          /\ nulls' = IF HasNull(col, call.n)
                      THEN [i \in 1 .. call.n |->
                              (nulls # <<>> /\ nulls[i]) \/ ~Bit(col.mask, i)]
                      ELSE nulls
    /\ call' = [call EXCEPT !.at = @ + 1]
    /\ UNCHANGED <<out, scan, calls, seen, meant, delivered>>

\* What the guest may return: a column of any type and size, and any mask.
Results ==
    {[type |-> t, mask |-> m, rows |-> n,
      cells |-> [i \in 1 .. size |-> Answer(t, calls, i)]] :
     t \in Types, m \in MaskChoices, n \in {0, call.n},
     size \in 0 .. call.n + 1}

NullIn(i) == nulls # <<>> /\ nulls[i]

\* Mutant: the NULLs of the input are left to the guest.
WritePlainWithoutMask(r) ==
    IF r.type = Returns[call.fn] /\ Len(r.cells) = call.n
    THEN /\ out' = [i \in 1 .. call.n |-> CellAt(r, i)]
         /\ Ends("ok")
    ELSE Ends("error") /\ UNCHANGED out

\* write_colvec: cells of the declared type, and as many as there are rows.
WritePlain(r) ==
    IF r.type = Returns[call.fn] /\ Len(r.cells) = call.n
    THEN /\ out' = [i \in 1 .. call.n |->
                       IF NullIn(i) THEN Null ELSE CellAt(r, i)]
         /\ Ends("ok")
    ELSE Ends("error") /\ UNCHANGED out

\* colvec_to_witvals: as many values as the guest returned, but of a nested
\* column a NULL for each row.
Lowered(r) ==
    IF r.type \in Nested THEN [i \in 1 .. r.rows |-> Null]
    ELSE [i \in DOMAIN r.cells |-> CellAt(r, i)]

\* write_ret refuses a value of another type.  A value past the chunk is out of
\* the bounds of the null mask, or of the vector.
Refused(values, i) ==
    IF i > call.n THEN nulls # <<>> \/ values[i] # Null
    ELSE /\ ~NullIn(i) /\ values[i] # Null
         /\ values[i].type # Returns[call.fn]

WriteWide(r) ==
    LET values == Lowered(r)
    IN IF \E i \in DOMAIN values : Refused(values, i)
       THEN Ends("error") /\ UNCHANGED out
       ELSE /\ out' = [i \in 1 .. call.n |->
                          IF i \notin DOMAIN values THEN out[i]
                          ELSE IF NullIn(i) THEN Null ELSE values[i]]
            /\ Ends("ok")

\* Engine2::dispatch_scalar_batch_col: the guest reads the scratch.
DispatchColumns ==
    /\ call.pc = "read" /\ call.at > Arity(call.fn)
    /\ seen' = [j \in DOMAIN scratch |->
                  [i \in 1 .. scratch[j].rows |-> CellAt(scratch[j], i)]]
    /\ \/ \E r \in Results :
            /\ meant' = Lowered(r)
            /\ IF r.rows # call.n THEN Ends("error") /\ UNCHANGED out
               ELSE IF Returns[call.fn] \in Wide \cup Nested THEN WriteWide(r)
               ELSE WritePlain(r)
       \/ Ends("error") /\ UNCHANGED <<out, meant>>
    /\ UNCHANGED <<scratch, nulls, scan, calls, delivered>>

-----------------------------------------------------------------------------
(* By rows: ducklink_scalar_ex_invoke, ducklink_cast_invoke *)

BeginRows(f) ==
    /\ ByRows(f)
    /\ \E n \in 1 .. MaxChunk : Begins(f, n, "rows")
    /\ UNCHANGED <<scratch, nulls, scan, delivered>>

\* read_arg_neutral: a nested value is passed as NULL.
ArgumentAt(col, i) == IF col.type \in Nested THEN Null ELSE CellAt(col, i)

\* write_row_out: so is one written, and one of another type;
\* duckdb_cast_function_set_row_error makes the row of a failed cast NULL.
Written(answer) ==
    IF answer \notin {Null, Failed} /\ answer.type = Returns[call.fn]
       /\ answer.type \notin Nested
    THEN answer ELSE Null

\* What the guest may answer to a row: Engine2::dispatch_cast_col and alike.
RowAnswers == {Answer(t, calls, call.at) : t \in Types} \cup {Null}

\* The row is answered, and the next one is due.
Answered(answer) ==
    /\ meant' = Append(meant, answer)
    /\ out' = [out EXCEPT ![call.at] = Written(answer)]
    /\ call' = [call EXCEPT !.at = @ + 1,
                            !.pc = IF call.at = call.n THEN "ok" ELSE @]

\* The guest answers a value or NULL, or fails: a cast goes on to the next row
\* and succeeds all the same, any other function stops after the rows before.
DispatchRow ==
    /\ call.pc = "rows"
    /\ seen' = Append(seen, [j \in 1 .. Arity(call.fn) |->
                               ArgumentAt(call.chunk[j], call.at)])
    /\ \/ \E answer \in RowAnswers : Answered(answer)
       \/ IsCast(call.fn) /\ Answered(Failed)
       \/ /\ ~IsCast(call.fn)
          /\ Ends("error")
          /\ UNCHANGED <<out, meant>>
    /\ UNCHANGED <<scratch, nulls, scan, calls, delivered>>

-----------------------------------------------------------------------------
(* Scans: WasmTable *)

\* The parameters are a chunk of one row.
BindTable(f) ==
    /\ IsTable(f)
    /\ Begins(f, 1, "bind")
    /\ UNCHANGED <<scratch, nulls, scan, delivered>>

\* param_to_neutral
Parameter(col) == IF col.type \in Bindable THEN CellAt(col, 1) ELSE Null

\* bind and init: all the rows, before the first is asked for, of which the odd
\* one, if it is not 0, has a value of another type; or an error, of the guest
\* or because a row has another width.
DispatchTable ==
    /\ call.pc = "bind"
    /\ seen' = <<[j \in 1 .. Arity(call.fn) |-> Parameter(call.chunk[j])]>>
    /\ \/ \E m \in 0 .. MaxRows : \E odd \in 0 .. m :
            /\ scan' = [rows |-> m, odd |-> odd, cursor |-> 0]
            /\ Ends("scan")
       \/ Ends("error") /\ UNCHANGED scan
    /\ delivered' = <<>>
    /\ UNCHANGED <<scratch, nulls, out, calls, meant>>

NextChunk ==
    IF scan.rows - scan.cursor > MaxChunk THEN MaxChunk
    ELSE scan.rows - scan.cursor

\* write_col_from refuses a value of another type.
HasOdd(chunk) == \E i \in DOMAIN chunk : chunk[i] = scan.odd

\* func: the rows from the cursor on; none means the end.
ScanChunk ==
    LET chunk == [i \in 1 .. NextChunk |-> scan.cursor + i]
    IN /\ call.pc = "scan"
       /\ IF chunk = <<>>
          THEN Ends("end") /\ UNCHANGED <<scan, delivered>>
          ELSE IF HasOdd(chunk)
          THEN Ends("error") /\ UNCHANGED <<scan, delivered>>
          ELSE /\ delivered' = delivered \o chunk
               /\ scan' = [scan EXCEPT !.cursor = @ + Len(chunk)]
               /\ UNCHANGED call
       /\ UNCHANGED <<scratch, nulls, out, calls, seen, meant>>

\* The same statement once more, of a prepared one: init, but no bind.
Rescan ==
    /\ call.pc = "end" /\ calls < MaxCalls
    /\ calls' = calls + 1
    /\ scan' = [scan EXCEPT !.cursor = 0]
    /\ delivered' = <<>>
    /\ Ends("scan")
    /\ UNCHANGED <<scratch, nulls, out, seen, meant>>

-----------------------------------------------------------------------------

AtRest ==
    /\ ~Running /\ call.pc # "scan" /\ calls = MaxCalls
    /\ UNCHANGED vars

Next ==
    \/ \E f \in Functions : BeginColumns(f) \/ BeginRows(f) \/ BindTable(f)
    \/ ReadColumn
    \/ DispatchColumns
    \/ DispatchRow
    \/ DispatchTable
    \/ ScanChunk
    \/ Rescan
    \/ AtRest

Spec == Init /\ [][Next]_vars

-----------------------------------------------------------------------------
(* Properties *)

Given(j, i) == CellAt(call.chunk[j], i)
GivenNull(i) == \E j \in 1 .. Arity(call.fn) : Given(j, i) = Null

\* Values of these types do not survive the way to the guest.
Drops(j) ==
    LET t == Takes[call.fn][j]
    IN t \in Nested \/ (IsTable(call.fn) /\ t \notin Bindable)

\* x is what was given at row i of column j; only a value of a type that is
\* dropped, never a NULL, may be another thing: Lost by columns, else NULL.
Passed(x, j, i) ==
    IF Drops(j) /\ Given(j, i) # Null
    THEN x = (IF ByColumns(call.fn) THEN Lost ELSE Null)
    ELSE x = Given(j, i)

\* A guest is passed the chunk that DuckDB passed and nothing else, NULLs where
\* they were: nothing of the chunks, functions and failed calls before it that
\* used the same scratch.
ArgumentsExact ==
    IF ByColumns(call.fn)
    THEN seen # <<>> =>
            /\ Len(seen) = Arity(call.fn)
            /\ \A j \in DOMAIN seen :
                 /\ Len(seen[j]) = call.n
                 /\ \A i \in 1 .. call.n : Passed(seen[j][i], j, i)
    ELSE \A i \in DOMAIN seen :
            /\ Len(seen[i]) = Arity(call.fn)
            /\ \A j \in DOMAIN seen[i] : Passed(seen[i][j], j, i)

\* Answers by rows that DuckDB gets a NULL for.
Unwritable(answer) ==
    \/ IsCast(call.fn) /\ answer = Failed
    \/ /\ answer \notin {Null, Failed}
       /\ answer.type \in Nested \cup (Types \ {Returns[call.fn]})

\* A call that succeeds has written each row: by columns NULL where an argument
\* is NULL, elsewhere what the guest answered there.  By rows, an answer of
\* another type or a nested one is NULL, and so is a cast that failed, which no
\* other function's call survives; by columns, a wide result with fewer cells
\* than rows leaves the last ones as they were.  A scan that ends has delivered
\* each row of its bind once, in order, and none of another type.
ResultsExact ==
    /\ call.pc = "ok" =>
         \A i \in 1 .. call.n :
            IF ByColumns(call.fn)
            THEN \/ GivenNull(i) /\ out[i] = Null
                 \/ ~GivenNull(i) /\ i \in DOMAIN meant /\ out[i] = meant[i]
                 \/ Returns[call.fn] \in Wide \cup Nested /\ i > Len(meant)
            ELSE \/ out[i] = meant[i]
                 \/ out[i] = Null /\ Unwritable(meant[i])
    /\ call.pc = "end" =>
         delivered = [i \in 1 .. scan.rows |-> i] /\ scan.odd = 0
=============================================================================
