------------------------- MODULE VectorCallsProofs --------------------------
(***************************************************************************)
(* Proofs about VectorCalls, for any functions, types, masks, chunks and   *)
(* width of a byte: what the guest reads in the scratch is the chunk, and  *)
(* what DuckDB reads in its vectors is the answer.                         *)
(***************************************************************************)
EXTENDS VectorCalls, SequenceTheorems, TLAPS

-----------------------------------------------------------------------------
(* The inductive invariant *)

\* The chunk has a column for each argument, and each column its rows.
ChunkInv ==
    call.pc # "idle" =>
        /\ calls >= 1
        /\ Len(call.chunk) = Arity(call.fn)
        /\ \A j \in 1 .. Arity(call.fn) :
            /\ call.chunk[j].type = Takes[call.fn][j]
            /\ call.chunk[j].rows = call.n
            /\ Len(call.chunk[j].cells) = call.n

ModeInv ==
    /\ call.pc = "idle" => seen = <<>>
    /\ call.pc = "read" => ByColumns(call.fn)
    /\ call.pc = "rows" => ByRows(call.fn)
    /\ call.pc = "bind" => IsTable(call.fn)

\* The rows with a NULL in one of the first k columns.
NullsKnown(k) ==
    /\ nulls = <<>> \/ Len(nulls) = call.n
    /\ \A i \in 1 .. call.n :
        NullIn(i) <=> \E j \in 1 .. k : ~Bit(call.chunk[j].mask, i)

\* The columns before the next one are those of the chunk, whatever the slots
\* of the scratch held before.
ReadInv ==
    call.pc = "read" =>
        /\ seen = <<>> /\ Len(out) = call.n
        /\ Len(scratch) = Arity(call.fn)
        /\ call.at \in 1 .. Arity(call.fn) + 1
        /\ \A j \in 1 .. call.at - 1 : scratch[j] = Fresh(call.chunk[j])
        /\ NullsKnown(call.at - 1)

\* What became of the answer for row i of a call by rows.
RowWritten(i) ==
    \/ out[i] = meant[i]
    \/ out[i] = Null /\ Unwritable(meant[i])

RowsInv ==
    call.pc = "rows" =>
        /\ call.at \in 1 .. call.n
        /\ Len(seen) = call.at - 1 /\ Len(meant) = call.at - 1
        /\ Len(out) = call.n
        /\ \A i \in 1 .. call.at - 1 : RowWritten(i)

\* The odd row is still ahead.
ScanInv ==
    call.pc \in {"scan", "end"} =>
        /\ scan.cursor <= scan.rows /\ scan.odd <= scan.rows
        /\ scan.odd = 0 \/ scan.odd > scan.cursor
        /\ delivered = [i \in 1 .. scan.cursor |-> i]

IInv ==
    /\ TypeOK
    /\ ChunkInv /\ ModeInv /\ ReadInv /\ RowsInv /\ ScanInv
    /\ ArgumentsExact /\ ResultsExact

-----------------------------------------------------------------------------
(* Facts about functions, cells and columns *)

\* A function is called in one way.
LEMMA OneSurface ==
    ASSUME NEW f \in Functions
    PROVE  /\ ByColumns(f) => ~ByRows(f) /\ ~IsTable(f)
           /\ ByRows(f) => ~IsTable(f)
BY FunctionsAssumption
DEF ByColumns, ByRows, IsTable, IsCast, IsScalarEx, Surfaces

LEMMA SeqMade ==
    ASSUME NEW S, NEW n \in Nat, NEW s, s = [i \in 1 .. n |-> s[i]],
           \A i \in 1 .. n : s[i] \in S
    PROVE  s \in Seq(S) /\ Len(s) = n
OBVIOUS

LEMMA ArityTyped ==
    ASSUME NEW f \in Functions
    PROVE  /\ Arity(f) \in Nat /\ Returns[f] \in Types
           /\ \A j \in 1 .. Arity(f) : Takes[f][j] \in Types
BY FunctionsAssumption DEF Arity

LEMMA CellTyped ==
    ASSUME NEW col \in Colvec, NEW i
    PROVE  CellAt(col, i) \in Cell \cup {Null, Lost}
BY DEF CellAt, Colvec

\* With a cell for each row, NULL is what the mask says.
LEMMA NullByMask ==
    ASSUME NEW col \in Colvec, NEW i \in 1 .. Len(col.cells)
    PROVE  CellAt(col, i) = Null <=> ~Bit(col.mask, i)
BY NullAssumption DEF CellAt, Colvec

LEMMA FreshTyped ==
    ASSUME NEW col \in Colvec
    PROVE  /\ Fresh(col) \in Colvec
           /\ Fresh(col).rows = col.rows
           /\ \A i \in 1 .. Len(col.cells) :
                CellAt(Fresh(col), i) =
                    IF CellAt(col, i) # Null /\ col.type \in Nested THEN Lost
                    ELSE CellAt(col, i)
<1>1. CASE col.type \in Nested
  <2>1. /\ Fresh(col) \in Colvec /\ Fresh(col).rows = col.rows
        /\ Fresh(col).mask = col.mask /\ Fresh(col).cells = <<>>
    <3>1. Fresh(col) = [col EXCEPT !.cells = <<>>] /\ <<>> \in Seq(Cell)
      BY <1>1 DEF Fresh
    <3> HIDE DEF Fresh
    <3> QED
      BY <3>1 DEF Colvec
  <2>2. ASSUME NEW i \in 1 .. Len(col.cells)
        PROVE  CellAt(Fresh(col), i) = IF CellAt(col, i) # Null THEN Lost
                                       ELSE CellAt(col, i)
    BY <2>1, NullByMask DEF CellAt
  <2> QED
    BY <1>1, <2>1, <2>2
<1>2. CASE col.type \notin Nested
  BY <1>2 DEF Fresh
<1> QED
  BY <1>1, <1>2

\* Whatever a slot held, after the refill it is the column, as if read anew.
LEMMA RefillIsFresh ==
    ASSUME NEW slot \in Colvec, NEW col \in Colvec
    PROVE  Refilled(slot, col) = Fresh(col)
BY DEF Refilled, Reusable, Fresh, Colvec

-----------------------------------------------------------------------------
(* How a call begins *)

\* DuckDB's chunk, well formed.
ChunkOf(f, n, chunk) ==
    /\ chunk \in Seq(Colvec)
    /\ Len(chunk) = Arity(f)
    /\ \A j \in 1 .. Arity(f) :
        /\ chunk[j].type = Takes[f][j]
        /\ chunk[j].rows = n
        /\ Len(chunk[j].cells) = n

LEMMA ChunksTyped ==
    ASSUME NEW f \in Functions, NEW n \in Nat, NEW k \in 1 .. MaxCalls,
           NEW chunk \in ChunksFor(f, n, k)
    PROVE  ChunkOf(f, n, chunk)
<1>1. PICK masks \in [1 .. Arity(f) -> MaskChoices] :
        chunk = [j \in 1 .. Arity(f) |->
                   [type |-> Takes[f][j], mask |-> masks[j], rows |-> n,
                    cells |-> [i \in 1 .. n |-> Argument(Takes[f][j], k, j, i)]]]
  BY DEF ChunksFor
<1>2. ASSUME NEW j \in 1 .. Arity(f)
      PROVE  /\ chunk[j] \in Colvec
             /\ chunk[j].type = Takes[f][j] /\ chunk[j].rows = n
             /\ Len(chunk[j].cells) = n
  <2> DEFINE cells == [i \in 1 .. n |-> Argument(Takes[f][j], k, j, i)]
  <2>1. Takes[f][j] \in Types /\ j \in Nat
    BY ArityTyped
  <2>2. \A i \in 1 .. n : Argument(Takes[f][j], k, j, i) \in Cell
    BY <2>1 DEF Argument, Cell
  <2>3. cells \in Seq(Cell) /\ Len(cells) = n
    BY <2>2
  <2>4. masks[j] \in Seq(BOOLEAN)
    BY MasksAssumption
  <2>5. chunk[j] = [type |-> Takes[f][j], mask |-> masks[j], rows |-> n,
                    cells |-> cells]
    BY <1>1
  <2> HIDE DEF cells
  <2> QED
    BY <2>1, <2>3, <2>4, <2>5 DEF Colvec
<1>3. chunk \in Seq(Colvec) /\ Len(chunk) = Arity(f)
  <2>1. Arity(f) \in Nat /\ DOMAIN chunk = 1 .. Arity(f)
    BY <1>1, ArityTyped
  <2>2. chunk = [j \in 1 .. Arity(f) |-> chunk[j]]
    BY <1>1
  <2> QED
    BY <1>2, <2>1, <2>2
<1> QED
  BY <1>2, <1>3 DEF ChunkOf

\* What the beginning of a call leaves, whichever it is.
LEMMA CallBegun ==
    ASSUME IInv, NEW f \in Functions, NEW n \in 1 .. MaxChunk,
           NEW pc \in {"read", "rows", "bind"}, Begins(f, n, pc)
    PROVE  /\ calls' \in 1 .. MaxCalls
           /\ call' \in Call /\ call'.pc = pc /\ call'.fn = f /\ call'.n = n
           /\ call'.at = 1
           /\ out' \in Seq(Cell \cup {Null, Unset}) /\ Len(out') = n
           /\ seen' = <<>> /\ meant' = <<>>
           /\ ChunkInv' /\ ArgumentsExact' /\ ResultsExact' /\ ScanInv'
<1>1. /\ calls < MaxCalls /\ calls' = calls + 1
      /\ out' = [i \in 1 .. n |-> Unset]
      /\ seen' = <<>> /\ meant' = <<>>
  BY DEF Begins
<1>2. calls' \in 1 .. MaxCalls /\ n \in Nat /\ n \in 0 .. MaxChunk
  BY <1>1, BoundsAssumption DEF IInv, TypeOK
<1>3. PICK chunk \in ChunksFor(f, n, calls + 1) :
        call' = [pc |-> pc, fn |-> f, n |-> n, chunk |-> chunk, at |-> 1]
  BY DEF Begins
<1>4. ChunkOf(f, n, chunk)
  BY <1>1, <1>2, ChunksTyped
<1>5. call' \in Call
  BY <1>2, <1>3, <1>4 DEF Call, ChunkOf
<1>6. out' \in Seq(Cell \cup {Null, Unset}) /\ Len(out') = n
  BY <1>1, <1>2
<1>7. ChunkInv'
  <2>1. call'.chunk = chunk /\ call'.fn = f /\ call'.n = n /\ calls' >= 1
    BY <1>2, <1>3
  <2> QED
    BY <1>4, <2>1 DEF ChunkInv, ChunkOf
<1>8. ArgumentsExact'
  BY <1>1 DEF ArgumentsExact
<1>9. ResultsExact' /\ ScanInv'
  BY <1>3 DEF ResultsExact, ScanInv
<1> QED
  BY <1>1, <1>2, <1>3, <1>5, <1>6, <1>7, <1>8, <1>9

LEMMA BeginRowsSafe ==
    ASSUME IInv, NEW f \in Functions, BeginRows(f)
    PROVE  IInv'
<1>1. PICK n \in 1 .. MaxChunk : Begins(f, n, "rows")
  BY DEF BeginRows
<1>2. ByRows(f) /\ UNCHANGED <<scratch, nulls, scan, delivered>>
  BY DEF BeginRows
<1>3. /\ calls' \in 1 .. MaxCalls
      /\ call' \in Call /\ call'.pc = "rows" /\ call'.fn = f /\ call'.n = n
      /\ call'.at = 1
      /\ out' \in Seq(Cell \cup {Null, Unset}) /\ Len(out') = n
      /\ seen' = <<>> /\ meant' = <<>>
      /\ ChunkInv' /\ ArgumentsExact' /\ ResultsExact' /\ ScanInv'
  BY <1>1, CallBegun
<1>4. TypeOK'
  BY <1>2, <1>3 DEF IInv, TypeOK
<1>5. ModeInv' /\ ReadInv'
  BY <1>2, <1>3 DEF ModeInv, ReadInv
<1>6. RowsInv'
  <2>1. 1 \in 1 .. n /\ n \in Nat
    BY BoundsAssumption
  <2> QED
    BY <1>3, <2>1 DEF RowsInv
<1> QED
  BY <1>3, <1>4, <1>5, <1>6 DEF IInv

LEMMA BindTableSafe ==
    ASSUME IInv, NEW f \in Functions, BindTable(f)
    PROVE  IInv'
<1>1. Begins(f, 1, "bind") /\ IsTable(f)
      /\ UNCHANGED <<scratch, nulls, scan, delivered>>
  BY DEF BindTable
<1>2. 1 \in 1 .. MaxChunk
  BY BoundsAssumption
<1>3. /\ calls' \in 1 .. MaxCalls
      /\ call' \in Call /\ call'.pc = "bind" /\ call'.fn = f
      /\ out' \in Seq(Cell \cup {Null, Unset})
      /\ seen' = <<>> /\ meant' = <<>>
      /\ ChunkInv' /\ ArgumentsExact' /\ ResultsExact' /\ ScanInv'
  BY <1>1, <1>2, CallBegun
<1>4. TypeOK'
  BY <1>1, <1>3 DEF IInv, TypeOK
<1>5. ModeInv' /\ ReadInv' /\ RowsInv'
  BY <1>1, <1>3 DEF ModeInv, ReadInv, RowsInv
<1> QED
  BY <1>3, <1>4, <1>5 DEF IInv

LEMMA BeginColumnsSafe ==
    ASSUME IInv, NEW f \in Functions, BeginColumns(f)
    PROVE  IInv'
<1>1. PICK n \in 1 .. MaxChunk : Begins(f, n, "read")
  BY DEF BeginColumns
<1>2. /\ ByColumns(f) /\ nulls' = <<>> /\ UNCHANGED <<scan, delivered>>
      /\ scratch' = [j \in 1 .. Arity(f) |->
                        IF j <= Len(scratch) THEN scratch[j] ELSE Placeholder]
  BY DEF BeginColumns
<1>3. /\ calls' \in 1 .. MaxCalls
      /\ call' \in Call /\ call'.pc = "read" /\ call'.fn = f /\ call'.n = n
      /\ call'.at = 1
      /\ out' \in Seq(Cell \cup {Null, Unset}) /\ Len(out') = n
      /\ seen' = <<>> /\ meant' = <<>>
      /\ ChunkInv' /\ ArgumentsExact' /\ ResultsExact' /\ ScanInv'
  BY <1>1, CallBegun
<1>4. Placeholder \in Colvec
  <2>1. (CHOOSE t \in Types \ (Wide \cup Nested) : TRUE) \in Types
    BY TypesAssumption
  <2>2. <<>> \in Seq(Cell) /\ <<>> \in Seq(BOOLEAN)
    OBVIOUS
  <2> QED
    BY <2>1, <2>2 DEF Placeholder, Colvec
<1>5. scratch' \in Seq(Colvec) /\ Len(scratch') = Arity(f)
  <2>1. Arity(f) \in Nat
    BY ArityTyped
  <2>2. \A j \in 1 .. Arity(f) :
          (IF j <= Len(scratch) THEN scratch[j] ELSE Placeholder) \in Colvec
    <3>1. \A j \in 1 .. Len(scratch) : scratch[j] \in Colvec
      BY DEF IInv, TypeOK
    <3>2. Len(scratch) \in Nat
      BY DEF IInv, TypeOK
    <3> QED
      BY <1>4, <2>1, <3>1, <3>2
  <2> QED
    BY <1>2, <2>1, <2>2
<1>6. TypeOK'
  BY <1>2, <1>3, <1>5 DEF IInv, TypeOK
<1>7. ModeInv' /\ RowsInv'
  BY <1>2, <1>3 DEF ModeInv, RowsInv
<1>8. ReadInv'
  <2>1. 1 \in 1 .. Arity(f) + 1
    BY ArityTyped
  <2>2. NullsKnown(0)'
    BY <1>2, <1>3 DEF NullsKnown, NullIn
  <2>3. NullsKnown(call.at - 1)'
    <3>1. call'.at - 1 = 0
      BY <1>3
    <3> QED
      BY <2>2, <3>1 DEF NullsKnown
  <2> QED
    BY <1>3, <1>5, <2>1, <2>3 DEF ReadInv
<1> QED
  BY <1>3, <1>6, <1>7, <1>8 DEF IInv

-----------------------------------------------------------------------------
(* By columns *)

\* The call in progress, or the last one, as the invariant has it.
LEMMA CallTyped ==
    ASSUME IInv, call.pc # "idle"
    PROVE  /\ call.fn \in Functions /\ call.n \in Nat /\ calls \in 1 .. MaxCalls
           /\ Arity(call.fn) \in Nat /\ Returns[call.fn] \in Types
           /\ \A j \in 1 .. Arity(call.fn) :
                /\ call.chunk[j] \in Colvec
                /\ call.chunk[j].type = Takes[call.fn][j]
                /\ call.chunk[j].rows = call.n
                /\ Len(call.chunk[j].cells) = call.n
<1>1. call \in Call /\ calls \in 0 .. MaxCalls
  BY DEF IInv, TypeOK
<1>2. call.fn \in Functions /\ call.n \in Nat /\ call.chunk \in Seq(Colvec)
  BY <1>1, BoundsAssumption DEF Call
<1>3. /\ calls >= 1 /\ Len(call.chunk) = Arity(call.fn)
      /\ \A j \in 1 .. Arity(call.fn) :
            /\ call.chunk[j].type = Takes[call.fn][j]
            /\ call.chunk[j].rows = call.n
            /\ Len(call.chunk[j].cells) = call.n
  BY DEF IInv, ChunkInv
<1>4. \A j \in 1 .. Arity(call.fn) : call.chunk[j] \in Colvec
  BY <1>2, <1>3
<1> QED
  BY <1>1, <1>2, <1>3, <1>4, ArityTyped, BoundsAssumption

\* A column that is refilled is the column of the chunk, and its NULLs are known.
LEMMA ReadColumnSafe ==
    ASSUME IInv, ReadColumn
    PROVE  IInv'
<1> DEFINE j == call.at
           col == call.chunk[j]
           k == call.at - 1
<1>1. /\ call.pc = "read" /\ j <= Arity(call.fn)
      /\ scratch' = [scratch EXCEPT ![j] = Refilled(@, col)]
      /\ nulls' = IF HasNull(col, call.n)
                  THEN [i \in 1 .. call.n |->
                          (nulls # <<>> /\ nulls[i]) \/ ~Bit(col.mask, i)]
                  ELSE nulls
      /\ call' = [call EXCEPT !.at = @ + 1]
      /\ UNCHANGED <<out, scan, calls, seen, meant, delivered>>
  BY DEF ReadColumn
<1>2. /\ seen = <<>> /\ Len(out) = call.n /\ Len(scratch) = Arity(call.fn)
      /\ j \in 1 .. Arity(call.fn) + 1
      /\ \A m \in 1 .. k : scratch[m] = Fresh(call.chunk[m])
      /\ NullsKnown(k)
      /\ ByColumns(call.fn)
  BY <1>1 DEF IInv, ReadInv, ModeInv
<1>3. /\ Arity(call.fn) \in Nat /\ call.n \in Nat /\ call.fn \in Functions
      /\ \A m \in 1 .. Arity(call.fn) : call.chunk[m] \in Colvec
  BY <1>1, CallTyped
<1>4. j \in 1 .. Arity(call.fn) /\ k \in Nat /\ col \in Colvec
  BY <1>1, <1>2, <1>3
<1>5. scratch \in Seq(Colvec) /\ nulls \in Seq(BOOLEAN) /\ call \in Call
  BY DEF IInv, TypeOK
<1>6. /\ call' \in Call /\ call'.pc = "read" /\ call'.fn = call.fn
      /\ call'.n = call.n /\ call'.chunk = call.chunk /\ call'.at = j + 1
  BY <1>1, <1>4, <1>5 DEF Call
<1> HIDE DEF j
<1>7. /\ scratch' \in Seq(Colvec) /\ Len(scratch') = Arity(call.fn)
      /\ \A m \in 1 .. Arity(call.fn) :
            scratch'[m] = IF m = j THEN Fresh(call.chunk[j]) ELSE scratch[m]
  <2>1. scratch[j] \in Colvec
    BY <1>2, <1>4, <1>5
  <2>2. Refilled(scratch[j], call.chunk[j]) = Fresh(call.chunk[j])
        /\ Fresh(call.chunk[j]) \in Colvec
    BY <1>4, <2>1, RefillIsFresh, FreshTyped
  <2>3. scratch' = [scratch EXCEPT ![j] = Fresh(call.chunk[j])]
    BY <1>1, <2>2
  <2> QED
    BY <1>2, <1>4, <1>5, <2>2, <2>3, ExceptSeq
<1>8. /\ nulls' \in Seq(BOOLEAN) /\ (nulls' = <<>> \/ Len(nulls') = call.n)
      /\ \A i \in 1 .. call.n :
            NullIn(i)' <=> NullIn(i) \/ ~Bit(call.chunk[j].mask, i)
  <2> DEFINE merged == [i \in 1 .. call.n |-> NullIn(i) \/ ~Bit(call.chunk[j].mask, i)]
  <2>1. CASE HasNull(col, call.n)
    <3>1. nulls' = merged
      BY <1>1, <2>1 DEF NullIn
    <3>2. merged \in [1 .. call.n -> BOOLEAN]
      BY Zenon
    <3>3. \A i \in 1 .. call.n :
            merged[i] <=> NullIn(i) \/ ~Bit(call.chunk[j].mask, i)
      BY Zenon
    <3>4. \E i \in 1 .. call.n : TRUE
      BY <2>1 DEF HasNull
    <3> HIDE DEF merged
    <3>5. merged \in Seq(BOOLEAN) /\ Len(merged) = call.n
      BY <1>3, <3>2
    <3>6. merged # <<>>
      BY <1>3, <3>4, <3>5
    <3> QED
      BY <3>1, <3>3, <3>5, <3>6 DEF NullIn
  <2>2. CASE ~HasNull(col, call.n)
    <3>1. nulls' = nulls /\ \A i \in 1 .. call.n : Bit(call.chunk[j].mask, i)
      BY <1>1, <2>2 DEF HasNull
    <3> QED
      BY <1>2, <1>5, <3>1 DEF NullIn, NullsKnown
  <2> QED
    BY <2>1, <2>2
<1>9. TypeOK'
  BY <1>1, <1>6, <1>7, <1>8 DEF IInv, TypeOK
<1>10. ReadInv'
  <2>1. j + 1 \in 1 .. Arity(call.fn) + 1 /\ (j + 1) - 1 = j /\ k = j - 1
    BY <1>3, <1>4 DEF j
  <2>2. \A m \in 1 .. j : scratch'[m] = Fresh(call.chunk[m])
    BY <1>2, <1>3, <1>4, <1>7, <2>1
  <2>3. \A i \in 1 .. call.n :
          NullIn(i)' <=> \E m \in 1 .. j : ~Bit(call.chunk[m].mask, i)
    <3> SUFFICES ASSUME NEW i \in 1 .. call.n
                 PROVE  NullIn(i)' <=> \E m \in 1 .. j : ~Bit(call.chunk[m].mask, i)
      OBVIOUS
    <3>1. NullIn(i) <=> \E m \in 1 .. k : ~Bit(call.chunk[m].mask, i)
      BY <1>2 DEF NullsKnown
    <3>2. \A m : m \in 1 .. j <=> m \in 1 .. k \/ m = j
      BY <1>4, <2>1
    <3> QED
      BY <1>8, <3>1, <3>2, Zenon
  <2>4. call'.at - 1 = j
    BY <1>6, <2>1
  <2>5. NullsKnown(call.at - 1)'
    BY <1>6, <1>8, <2>3, <2>4 DEF NullsKnown
  <2> QED
    BY <1>1, <1>2, <1>6, <1>7, <2>1, <2>2, <2>4, <2>5 DEF ReadInv
<1>11. ChunkInv' /\ ModeInv' /\ RowsInv' /\ ScanInv'
  BY <1>1, <1>2, <1>6 DEF IInv, ChunkInv, ModeInv, RowsInv, ScanInv
<1>12. ArgumentsExact' /\ ResultsExact'
  BY <1>1, <1>2, <1>6 DEF ArgumentsExact, ResultsExact
<1> QED
  BY <1>9, <1>10, <1>11, <1>12 DEF IInv

\* A row has a NULL among its arguments exactly when the mask says so.
LEMMA NullsSeen ==
    ASSUME IInv, call.pc # "idle", NEW i \in 1 .. call.n
    PROVE  GivenNull(i) <=>
              \E j \in 1 .. Arity(call.fn) : ~Bit(call.chunk[j].mask, i)
<1>1. \A j \in 1 .. Arity(call.fn) :
        call.chunk[j] \in Colvec /\ Len(call.chunk[j].cells) = call.n
  BY CallTyped
<1>2. \A j \in 1 .. Arity(call.fn) :
        CellAt(call.chunk[j], i) = Null <=> ~Bit(call.chunk[j].mask, i)
  BY <1>1, NullByMask
<1> QED
  BY <1>2 DEF GivenNull, Given

\* What the guest may return, and the values made of it.
LEMMA ResultTyped ==
    ASSUME IInv, call.pc = "read", NEW r \in Results
    PROVE  /\ r \in Colvec
           /\ r.type \in Nested => Lowered(r) = [i \in 1 .. r.rows |-> Null]
           /\ r.type \notin Nested =>
                Lowered(r) = [i \in 1 .. Len(r.cells) |-> CellAt(r, i)]
           /\ Lowered(r) \in Seq(Cell \cup {Null})
<1>1. call.n \in Nat /\ calls \in 1 .. MaxCalls
  BY CallTyped
<1>2. PICK t \in Types, m \in MaskChoices, n \in {0, call.n},
           size \in 0 .. call.n + 1 :
        r = [type |-> t, mask |-> m, rows |-> n,
             cells |-> [i \in 1 .. size |-> Answer(t, calls, i)]]
  BY DEF Results
<1> DEFINE cells == [i \in 1 .. size |-> Answer(t, calls, i)]
<1>3. size \in Nat /\ n \in Nat
  BY <1>1
<1>4. \A i \in 1 .. size : Answer(t, calls, i) \in Cell
  BY <1>1, <1>3 DEF Answer, Cell
<1>5. cells \in Seq(Cell) /\ Len(cells) = size
  BY <1>3, <1>4
<1>6. r = [type |-> t, mask |-> m, rows |-> n, cells |-> cells]
  BY <1>2
<1> HIDE DEF cells
<1>7. r \in Colvec
  BY <1>3, <1>5, <1>6, MasksAssumption DEF Colvec
<1>8. CASE r.type \in Nested
  <2>1. Lowered(r) = [i \in 1 .. n |-> Null]
    BY <1>6, <1>8 DEF Lowered
  <2>2. [i \in 1 .. n |-> Null] \in Seq(Cell \cup {Null})
    BY <1>3
  <2> QED
    BY <1>6, <1>7, <1>8, <2>1, <2>2
<1>9. CASE r.type \notin Nested
  <2>1. DOMAIN r.cells = 1 .. size /\ Len(r.cells) = size
    BY <1>5, <1>6
  <2>2. Lowered(r) = [i \in 1 .. size |-> CellAt(r, i)]
    BY <1>9, <2>1 DEF Lowered
  <2>3. \A i \in 1 .. size : r.cells[i] \in Cell
    BY <1>5, <1>6
  <2>4. \A i \in 1 .. size : CellAt(r, i) \in Cell \cup {Null}
    BY <2>1, <2>3 DEF CellAt
  <2>5. [i \in 1 .. size |-> CellAt(r, i)] \in Seq(Cell \cup {Null})
    BY <1>3, <2>4
  <2> QED
    BY <1>7, <1>9, <2>1, <2>2, <2>5
<1> QED
  BY <1>8, <1>9

\* The guest reads the columns of the chunk.
LEMMA ColumnsSeen ==
    ASSUME IInv, call.pc = "read", call.at > Arity(call.fn),
           NEW columns, columns = [j \in DOMAIN scratch |->
                [i \in 1 .. scratch[j].rows |-> CellAt(scratch[j], i)]]
    PROVE  /\ columns \in Seq(Seq(Cell \cup {Null, Lost}))
           /\ Len(columns) = Arity(call.fn)
           /\ \A j \in DOMAIN columns :
                /\ Len(columns[j]) = call.n
                /\ \A i \in 1 .. call.n : Passed(columns[j][i], j, i)
<1>1. /\ call.fn \in Functions /\ call.n \in Nat /\ Arity(call.fn) \in Nat
      /\ \A j \in 1 .. Arity(call.fn) :
            /\ call.chunk[j] \in Colvec
            /\ call.chunk[j].type = Takes[call.fn][j]
            /\ call.chunk[j].rows = call.n
            /\ Len(call.chunk[j].cells) = call.n
  BY CallTyped
<1>2. /\ Len(scratch) = Arity(call.fn) /\ scratch \in Seq(Colvec)
      /\ call.at \in 1 .. Arity(call.fn) + 1
      /\ \A j \in 1 .. call.at - 1 : scratch[j] = Fresh(call.chunk[j])
      /\ ByColumns(call.fn) /\ ~IsTable(call.fn)
  BY <1>1, OneSurface DEF IInv, ReadInv, ModeInv, TypeOK
<1>3. call.at - 1 = Arity(call.fn)
  BY <1>1, <1>2
<1>4. DOMAIN scratch = 1 .. Arity(call.fn)
  BY <1>2
<1>5. ASSUME NEW j \in 1 .. Arity(call.fn)
      PROVE  /\ columns[j] = [i \in 1 .. call.n |-> CellAt(scratch[j], i)]
             /\ columns[j] \in Seq(Cell \cup {Null, Lost})
             /\ Len(columns[j]) = call.n
             /\ \A i \in 1 .. call.n : Passed(columns[j][i], j, i)
  <2>1. /\ scratch[j] \in Colvec /\ scratch[j].rows = call.n
        /\ \A i \in 1 .. call.n :
              CellAt(scratch[j], i) =
                  IF CellAt(call.chunk[j], i) # Null
                     /\ call.chunk[j].type \in Nested THEN Lost
                  ELSE CellAt(call.chunk[j], i)
    <3>1. call.chunk[j] \in Colvec /\ scratch[j] = Fresh(call.chunk[j])
      BY <1>1, <1>2, <1>3
    <3>2. Len(call.chunk[j].cells) = call.n /\ call.chunk[j].rows = call.n
      BY <1>1
    <3> QED
      BY <3>1, <3>2, FreshTyped
  <2>2. columns[j] = [i \in 1 .. call.n |-> CellAt(scratch[j], i)]
    BY <1>4, <2>1
  <2>3. \A i \in 1 .. call.n : CellAt(scratch[j], i) \in Cell \cup {Null, Lost}
    BY <2>1, CellTyped
  <2>4. columns[j] \in Seq(Cell \cup {Null, Lost}) /\ Len(columns[j]) = call.n
    <3> DEFINE Read == Cell \cup {Null, Lost}
               column == columns[j]
    <3>1. column = [i \in 1 .. call.n |-> CellAt(scratch[j], i)]
      BY <2>2
    <3>2. \A i \in 1 .. call.n : CellAt(scratch[j], i) \in Read
      BY <2>3
    <3> HIDE DEF Read, column
    <3>3. column \in [1 .. call.n -> Read]
      BY <3>1, <3>2
    <3>4. column \in Seq(Read) /\ Len(column) = call.n
      BY <1>1, <3>3
    <3> QED
      BY <3>4 DEF Read, column
  <2>5. \A i \in 1 .. call.n : Passed(CellAt(scratch[j], i), j, i)
    BY <1>1, <1>2, <2>1 DEF Passed, Drops, Given
  <2> QED
    BY <2>2, <2>4, <2>5
<1>6. columns = [j \in 1 .. Arity(call.fn) |-> columns[j]]
  BY <1>4
<1>7. columns \in Seq(Seq(Cell \cup {Null, Lost})) /\ Len(columns) = Arity(call.fn)
  <2> DEFINE Column == Seq(Cell \cup {Null, Lost})
  <2>1. \A j \in 1 .. Arity(call.fn) : columns[j] \in Column
    BY <1>5
  <2> HIDE DEF Column
  <2>2. columns \in Seq(Column) /\ Len(columns) = Arity(call.fn)
    BY <1>1, <1>6, <2>1
  <2> QED
    BY <2>2 DEF Column
<1>8. DOMAIN columns = 1 .. Arity(call.fn)
  BY <1>6
<1> QED
  BY <1>5, <1>7, <1>8

\* The rows that a plain or a wide result is written to.
LEMMA ColumnsWritten ==
    ASSUME IInv, call.pc = "read", call.at > Arity(call.fn), NEW r \in Results,
           Ends("ok"),
           IF Returns[call.fn] \in Wide \cup Nested THEN WriteWide(r)
           ELSE WritePlain(r)
    PROVE  /\ out' \in Seq(Cell \cup {Null, Unset})
           /\ \A i \in 1 .. call.n :
                \/ GivenNull(i) /\ out'[i] = Null
                \/ /\ ~GivenNull(i) /\ i \in DOMAIN Lowered(r)
                   /\ out'[i] = Lowered(r)[i]
                \/ /\ Returns[call.fn] \in Wide \cup Nested
                   /\ i > Len(Lowered(r))
<1>1. /\ call.n \in Nat /\ Arity(call.fn) \in Nat
      /\ call.at - 1 = Arity(call.fn) /\ NullsKnown(call.at - 1)
      /\ out \in Seq(Cell \cup {Null, Unset}) /\ Len(out) = call.n
  <2>1. call.n \in Nat /\ Arity(call.fn) \in Nat
    BY CallTyped
  <2>2. /\ call.at \in 1 .. Arity(call.fn) + 1 /\ NullsKnown(call.at - 1)
        /\ out \in Seq(Cell \cup {Null, Unset}) /\ Len(out) = call.n
    BY DEF IInv, ReadInv, TypeOK
  <2> QED
    BY <2>1, <2>2
<1>2. \A i \in 1 .. call.n : NullIn(i) <=> GivenNull(i)
  <2>1. \A i \in 1 .. call.n :
          NullIn(i) <=> \E j \in 1 .. Arity(call.fn) : ~Bit(call.chunk[j].mask, i)
    BY <1>1 DEF NullsKnown
  <2>2. call.pc # "idle"
    OBVIOUS
  <2> QED
    BY <2>1, <2>2, NullsSeen
<1>3. ~Ends("error")
  BY DEF Ends, IInv, TypeOK, Call
<1>4. /\ Lowered(r) \in Seq(Cell \cup {Null})
      /\ r.type \notin Nested =>
            Lowered(r) = [i \in 1 .. Len(r.cells) |-> CellAt(r, i)]
  BY ResultTyped
<1>5. CASE Returns[call.fn] \in Wide \cup Nested
  <2> DEFINE values == Lowered(r)
  <2>1. out' = [i \in 1 .. call.n |->
                  IF i \notin DOMAIN values THEN out[i]
                  ELSE IF NullIn(i) THEN Null ELSE values[i]]
    BY <1>3, <1>5 DEF WriteWide
  <2>2. DOMAIN values = 1 .. Len(values) /\ Len(values) \in Nat
    BY <1>4
  <2>3. \A i \in DOMAIN values : values[i] \in Cell \cup {Null}
    BY <1>4
  <2> HIDE DEF values
  <2>4. \A i \in 1 .. call.n : out'[i] \in Cell \cup {Null, Unset}
    <3>1. \A i \in 1 .. call.n : out[i] \in Cell \cup {Null, Unset}
      BY <1>1
    <3> QED
      BY <2>1, <2>3, <3>1
  <2>5. out' \in Seq(Cell \cup {Null, Unset})
    <3> DEFINE Held == Cell \cup {Null, Unset}
    <3>1. DOMAIN out' = 1 .. call.n /\ out' = [i \in 1 .. call.n |-> out'[i]]
      BY <2>1
    <3>2. \A i \in 1 .. call.n : out'[i] \in Held
      BY <2>4
    <3> HIDE DEF Held
    <3>3. out' \in Seq(Held)
      BY <1>1, <3>1, <3>2, SeqMade
    <3> QED
      BY <3>3 DEF Held
  <2>6. ASSUME NEW i \in 1 .. call.n
        PROVE  \/ GivenNull(i) /\ out'[i] = Null
               \/ ~GivenNull(i) /\ i \in DOMAIN values /\ out'[i] = values[i]
               \/ i > Len(values)
    <3>1. CASE i \in DOMAIN values
      BY <1>2, <2>1, <3>1
    <3>2. CASE i \notin DOMAIN values
      BY <1>1, <2>2, <3>2
    <3> QED
      BY <3>1, <3>2
  <2> QED
    BY <1>5, <2>5, <2>6 DEF values
<1>6. CASE Returns[call.fn] \notin Wide \cup Nested
  <2>1. /\ r.type = Returns[call.fn] /\ Len(r.cells) = call.n
        /\ out' = [i \in 1 .. call.n |-> IF NullIn(i) THEN Null ELSE CellAt(r, i)]
    BY <1>3, <1>6 DEF WritePlain
  <2>2. Lowered(r) = [i \in 1 .. call.n |-> CellAt(r, i)]
    BY <1>4, <1>6, <2>1
  <2>3. ASSUME NEW i \in 1 .. call.n
        PROVE  /\ i \in DOMAIN Lowered(r) /\ Lowered(r)[i] \in Cell \cup {Null}
               /\ out'[i] = IF GivenNull(i) THEN Null ELSE Lowered(r)[i]
    BY <1>2, <1>4, <2>1, <2>2
  <2>4. \A i \in 1 .. call.n : out'[i] \in Cell \cup {Null, Unset}
    BY <2>3
  <2>5. out' \in Seq(Cell \cup {Null, Unset})
    <3> DEFINE Held == Cell \cup {Null, Unset}
    <3>1. DOMAIN out' = 1 .. call.n /\ out' = [i \in 1 .. call.n |-> out'[i]]
      BY <2>1
    <3>2. \A i \in 1 .. call.n : out'[i] \in Held
      BY <2>4
    <3> HIDE DEF Held
    <3>3. out' \in Seq(Held)
      BY <1>1, <3>1, <3>2, SeqMade
    <3> QED
      BY <3>3 DEF Held
  <2> QED
    BY <2>3, <2>5
<1> QED
  BY <1>5, <1>6

LEMMA DispatchColumnsSafe ==
    ASSUME IInv, DispatchColumns
    PROVE  IInv'
<1>1. /\ call.pc = "read" /\ call.at > Arity(call.fn)
      /\ seen' = [j \in DOMAIN scratch |->
                    [i \in 1 .. scratch[j].rows |-> CellAt(scratch[j], i)]]
      /\ UNCHANGED <<scratch, nulls, scan, calls, delivered>>
  BY DEF DispatchColumns
<1>2. /\ seen' \in Seq(Seq(Cell \cup {Null, Lost}))
      /\ Len(seen') = Arity(call.fn)
      /\ \A j \in DOMAIN seen' :
            /\ Len(seen'[j]) = call.n
            /\ \A i \in 1 .. call.n : Passed(seen'[j][i], j, i)
  BY <1>1, ColumnsSeen
<1>3. /\ call \in Call /\ ByColumns(call.fn)
      /\ out \in Seq(Cell \cup {Null, Unset}) /\ meant \in Seq(Cell \cup {Null, Failed})
  BY <1>1 DEF IInv, ModeInv, TypeOK
<1>4. PICK pc \in {"ok", "error"} : Ends(pc)
  BY <1>1 DEF DispatchColumns, WritePlain, WriteWide
<1>5. /\ call' \in Call /\ call'.pc = pc /\ call'.fn = call.fn
      /\ call'.n = call.n /\ call'.chunk = call.chunk
  BY <1>3, <1>4 DEF Ends, Call
<1>6. \/ UNCHANGED meant
      \/ \E r \in Results : meant' = Lowered(r)
  BY DEF DispatchColumns
<1>7. meant' \in Seq(Cell \cup {Null, Failed})
  BY <1>1, <1>3, <1>6, ResultTyped
<1>8. pc = "error" => UNCHANGED out
  <2>1. ~(Ends("ok") /\ Ends("error"))
    BY <1>3 DEF Ends, Call
  <2> QED
    BY <1>4, <2>1 DEF DispatchColumns, WritePlain, WriteWide
<1>9. ASSUME pc = "ok"
      PROVE  /\ out' \in Seq(Cell \cup {Null, Unset})
             /\ \A i \in 1 .. call.n :
                  \/ GivenNull(i) /\ out'[i] = Null
                  \/ ~GivenNull(i) /\ i \in DOMAIN meant' /\ out'[i] = meant'[i]
                  \/ /\ Returns[call.fn] \in Wide \cup Nested
                     /\ i > Len(meant')
  <2>1. ~Ends("error")
    BY <1>3, <1>4, <1>9 DEF Ends, Call
  <2>2. PICK r \in Results :
          /\ meant' = Lowered(r)
          /\ IF Returns[call.fn] \in Wide \cup Nested THEN WriteWide(r)
             ELSE WritePlain(r)
    BY <2>1 DEF DispatchColumns
  <2> QED
    BY <1>1, <1>4, <1>9, <2>2, ColumnsWritten
<1>10. TypeOK'
  BY <1>1, <1>2, <1>3, <1>5, <1>7, <1>8, <1>9 DEF IInv, TypeOK
<1>11. ChunkInv' /\ ModeInv' /\ ReadInv' /\ RowsInv' /\ ScanInv'
  BY <1>1, <1>5 DEF IInv, ChunkInv, ModeInv, ReadInv, RowsInv, ScanInv
<1>12. ArgumentsExact'
  BY <1>2, <1>3, <1>5 DEF ArgumentsExact, Passed, Drops, Given
<1>13. ResultsExact'
  BY <1>3, <1>5, <1>9 DEF ResultsExact, GivenNull, Given
<1> QED
  BY <1>10, <1>11, <1>12, <1>13 DEF IInv

-----------------------------------------------------------------------------
(* By rows *)

LEMMA Appended ==
    ASSUME NEW S, NEW s \in Seq(S), NEW x \in S
    PROVE  /\ Append(s, x) \in Seq(S) /\ Len(Append(s, x)) = Len(s) + 1
           /\ \A i \in 1 .. Len(s) : Append(s, x)[i] = s[i]
           /\ Append(s, x)[Len(s) + 1] = x
OBVIOUS

\* The guest is passed the arguments of its row.
LEMMA RowSeen ==
    ASSUME IInv, call.pc = "rows",
           NEW row, row = [j \in 1 .. Arity(call.fn) |->
                             ArgumentAt(call.chunk[j], call.at)]
    PROVE  /\ row \in Seq(Cell \cup {Null, Lost}) /\ Len(row) = Arity(call.fn)
           /\ \A j \in DOMAIN row : Passed(row[j], j, call.at)
<1>1. /\ call.fn \in Functions /\ Arity(call.fn) \in Nat
      /\ \A j \in 1 .. Arity(call.fn) :
            /\ call.chunk[j] \in Colvec
            /\ call.chunk[j].type = Takes[call.fn][j]
  BY CallTyped
<1>2. ~ByColumns(call.fn) /\ ~IsTable(call.fn)
  BY <1>1, OneSurface DEF IInv, ModeInv
<1>3. \A j \in 1 .. Arity(call.fn) :
        CellAt(call.chunk[j], call.at) \in Cell \cup {Null, Lost}
  BY <1>1, CellTyped
<1>4. \A j \in 1 .. Arity(call.fn) : row[j] \in Cell \cup {Null, Lost}
  BY <1>3 DEF ArgumentAt
<1>5. row \in Seq(Cell \cup {Null, Lost}) /\ Len(row) = Arity(call.fn)
  <2> DEFINE Read == Cell \cup {Null, Lost}
  <2>1. \A j \in 1 .. Arity(call.fn) : row[j] \in Read
    BY <1>4
  <2>2. row = [j \in 1 .. Arity(call.fn) |-> row[j]]
    OBVIOUS
  <2> HIDE DEF Read
  <2>3. row \in Seq(Read) /\ Len(row) = Arity(call.fn)
    BY <1>1, <2>1, <2>2, SeqMade
  <2> QED
    BY <2>3 DEF Read
<1>6. \A j \in 1 .. Arity(call.fn) : Passed(row[j], j, call.at)
  BY <1>1, <1>2 DEF ArgumentAt, Passed, Drops, Given
<1> QED
  BY <1>5, <1>6

\* What is written of an answer is the answer, or the NULL that stands for one
\* that cannot be written.
LEMMA AnswerWritten ==
    ASSUME NEW answer \in Cell \cup {Null, Failed},
           answer = Failed => IsCast(call.fn)
    PROVE  /\ Written(answer) \in Cell \cup {Null, Unset}
           /\ \/ Written(answer) = answer
              \/ Written(answer) = Null /\ Unwritable(answer)
BY DEF Written, Cell, Unwritable

\* The rows before this one are as they were, and this one is answered.
LEMMA AnsweredSafe ==
    ASSUME IInv, call.pc = "rows", NEW answer \in Cell \cup {Null, Failed},
           answer = Failed => IsCast(call.fn), Answered(answer)
    PROVE  /\ call' \in Call /\ call'.pc \in {"rows", "ok"}
           /\ call'.fn = call.fn /\ call'.n = call.n
           /\ call'.chunk = call.chunk /\ call'.at = call.at + 1
           /\ call'.pc = "rows" => call'.at \in 1 .. call.n
           /\ call'.pc = "ok" => call.at = call.n
           /\ meant' \in Seq(Cell \cup {Null, Failed}) /\ Len(meant') = call.at
           /\ out' \in Seq(Cell \cup {Null, Unset}) /\ Len(out') = call.n
           /\ \A i \in 1 .. call.at : RowWritten(i)'
<1>1. /\ meant' = Append(meant, answer)
      /\ out' = [out EXCEPT ![call.at] = Written(answer)]
      /\ call' = [call EXCEPT !.at = @ + 1,
                              !.pc = IF call.at = call.n THEN "ok" ELSE @]
  BY DEF Answered
<1>2. /\ call.at \in 1 .. call.n /\ Len(meant) = call.at - 1
      /\ Len(out) = call.n /\ call.n \in Nat
      /\ \A i \in 1 .. call.at - 1 : RowWritten(i)
  BY CallTyped DEF IInv, RowsInv
<1>3. /\ call \in Call /\ meant \in Seq(Cell \cup {Null, Failed})
      /\ out \in Seq(Cell \cup {Null, Unset})
  BY DEF IInv, TypeOK
<1>4. /\ call' \in Call
      /\ call'.pc = IF call.at = call.n THEN "ok" ELSE "rows"
      /\ call'.fn = call.fn /\ call'.n = call.n
      /\ call'.chunk = call.chunk /\ call'.at = call.at + 1
  <2> DEFINE pc == IF call.at = call.n THEN "ok" ELSE "rows"
  <2>1. call.at + 1 \in Nat
    BY <1>2
  <2>2. call' = [call EXCEPT !.at = call.at + 1, !.pc = pc]
    BY <1>1, <1>3 DEF Call
  <2>3. pc \in {"ok", "rows"}
    OBVIOUS
  <2> HIDE DEF pc
  <2>4. /\ call' \in Call /\ call'.pc = pc
        /\ call'.fn = call.fn /\ call'.n = call.n
        /\ call'.chunk = call.chunk /\ call'.at = call.at + 1
    BY <1>3, <2>1, <2>2, <2>3 DEF Call
  <2> QED
    BY <2>4 DEF pc
<1>5. /\ meant' \in Seq(Cell \cup {Null, Failed}) /\ Len(meant') = call.at
      /\ \A i \in 1 .. call.at - 1 : meant'[i] = meant[i]
      /\ meant'[call.at] = answer
  BY <1>1, <1>2, <1>3, Appended
<1>6. /\ out' \in Seq(Cell \cup {Null, Unset}) /\ Len(out') = call.n
      /\ \A i \in 1 .. call.at - 1 : out'[i] = out[i]
      /\ out'[call.at] = Written(answer)
  <2> DEFINE Held == Cell \cup {Null, Unset}
  <2>1. Written(answer) \in Held /\ out \in Seq(Held)
    BY <1>3, AnswerWritten
  <2> HIDE DEF Held
  <2>2. /\ out' \in Seq(Held) /\ Len(out') = call.n
        /\ \A i \in 1 .. call.n :
              out'[i] = IF i = call.at THEN Written(answer) ELSE out[i]
    BY <1>1, <1>2, <2>1, ExceptSeq
  <2>3. \A i \in 1 .. call.at - 1 : i \in 1 .. call.n /\ i # call.at
    BY <1>2
  <2> QED
    BY <1>2, <2>2, <2>3 DEF Held
<1>7. \A i \in 1 .. call.at - 1 : RowWritten(i)'
  BY <1>2, <1>4, <1>5, <1>6 DEF RowWritten, Unwritable
<1>8. ASSUME NEW i \in 1 .. call.at, i = call.at
      PROVE  RowWritten(i)'
  <2>1. meant'[i] = answer /\ out'[i] = Written(answer)
    BY <1>5, <1>6, <1>8
  <2>2. \/ out'[i] = meant'[i]
        \/ out'[i] = Null /\ Unwritable(meant'[i])
    BY <2>1, AnswerWritten
  <2> QED
    BY <1>4, <2>2 DEF RowWritten, Unwritable
<1>9. \A i \in 1 .. call.at : RowWritten(i)'
  <2>1. \A i \in 1 .. call.at : i \in 1 .. call.at - 1 \/ i = call.at
    BY <1>2
  <2> QED
    BY <1>7, <1>8, <2>1
<1>10. call.at # call.n => call.at + 1 \in 1 .. call.n
  BY <1>2
<1> QED
  BY <1>4, <1>5, <1>6, <1>9, <1>10

LEMMA DispatchRowSafe ==
    ASSUME IInv, DispatchRow
    PROVE  IInv'
<1> DEFINE row == [j \in 1 .. Arity(call.fn) |->
                     ArgumentAt(call.chunk[j], call.at)]
<1>1. /\ call.pc = "rows" /\ seen' = Append(seen, row)
      /\ UNCHANGED <<scratch, nulls, scan, calls, delivered>>
  BY DEF DispatchRow
<1>2. /\ row \in Seq(Cell \cup {Null, Lost}) /\ Len(row) = Arity(call.fn)
      /\ \A j \in DOMAIN row : Passed(row[j], j, call.at)
  BY <1>1, RowSeen
<1>3. /\ call.at \in 1 .. call.n /\ Len(seen) = call.at - 1
      /\ call.n \in Nat /\ call.fn \in Functions /\ calls \in 1 .. MaxCalls
  BY <1>1, CallTyped DEF IInv, RowsInv
<1>4. /\ call \in Call /\ seen \in Seq(Seq(Cell \cup {Null, Lost}))
      /\ ~ByColumns(call.fn) /\ ByRows(call.fn)
      /\ \A i \in DOMAIN seen :
            /\ Len(seen[i]) = Arity(call.fn)
            /\ \A j \in DOMAIN seen[i] : Passed(seen[i][j], j, i)
  BY <1>1, <1>3, OneSurface DEF IInv, TypeOK, ModeInv, ArgumentsExact
<1> HIDE DEF row
<1>5. /\ seen' \in Seq(Seq(Cell \cup {Null, Lost})) /\ Len(seen') = call.at
      /\ \A i \in DOMAIN seen' :
            /\ Len(seen'[i]) = Arity(call.fn)
            /\ \A j \in DOMAIN seen'[i] : Passed(seen'[i][j], j, i)
  <2> DEFINE Row == Seq(Cell \cup {Null, Lost})
  <2>1. row \in Row /\ seen \in Seq(Row)
    BY <1>2, <1>4
  <2> HIDE DEF Row
  <2>2. /\ seen' \in Seq(Row) /\ Len(seen') = call.at
        /\ \A i \in 1 .. call.at - 1 : seen'[i] = seen[i]
        /\ seen'[call.at] = row
    BY <1>1, <1>3, <2>1, Appended
  <2>3. \A i \in DOMAIN seen' : i \in 1 .. call.at - 1 \/ i = call.at
    BY <1>3, <2>2
  <2>4. DOMAIN seen = 1 .. call.at - 1
    BY <1>3, <1>4
  <2> QED
    BY <1>2, <1>4, <2>2, <2>3, <2>4 DEF Row
<1>6. ASSUME NEW answer \in Cell \cup {Null, Failed},
             answer = Failed => IsCast(call.fn), Answered(answer)
      PROVE  IInv'
  <2>3. /\ call' \in Call /\ call'.pc \in {"rows", "ok"}
        /\ call'.fn = call.fn /\ call'.n = call.n
        /\ call'.chunk = call.chunk /\ call'.at = call.at + 1
        /\ call'.pc = "rows" => call'.at \in 1 .. call.n
        /\ call'.pc = "ok" => call.at = call.n
        /\ meant' \in Seq(Cell \cup {Null, Failed}) /\ Len(meant') = call.at
        /\ out' \in Seq(Cell \cup {Null, Unset}) /\ Len(out') = call.n
        /\ \A i \in 1 .. call.at : RowWritten(i)'
    BY <1>1, <1>6, AnsweredSafe
  <2>4. TypeOK'
    BY <1>1, <1>5, <2>3 DEF IInv, TypeOK
  <2>5. ChunkInv' /\ ModeInv' /\ ReadInv' /\ ScanInv'
    BY <1>1, <1>4, <2>3 DEF IInv, ChunkInv, ModeInv, ReadInv, ScanInv
  <2>6. RowsInv'
    <3>1. call'.at - 1 = call.at
      BY <1>3, <2>3
    <3> QED
      BY <1>5, <2>3, <3>1 DEF RowsInv
  <2>7. ArgumentsExact'
    BY <1>4, <1>5, <2>3 DEF ArgumentsExact, Passed, Drops, Given
  <2>8. ResultsExact'
    BY <1>4, <2>3 DEF ResultsExact, RowWritten, Unwritable
  <2> QED
    BY <2>4, <2>5, <2>6, <2>7, <2>8 DEF IInv
<1>7. CASE Ends("error") /\ UNCHANGED <<out, meant>>
  <2>1. /\ call' \in Call /\ call'.pc = "error" /\ call'.fn = call.fn
        /\ call'.n = call.n /\ call'.chunk = call.chunk
    BY <1>4, <1>7 DEF Ends, Call
  <2>2. TypeOK'
    BY <1>1, <1>5, <1>7, <2>1 DEF IInv, TypeOK
  <2>3. ChunkInv' /\ ModeInv' /\ ReadInv' /\ RowsInv' /\ ScanInv'
    BY <1>1, <2>1 DEF IInv, ChunkInv, ModeInv, ReadInv, RowsInv, ScanInv
  <2>4. ArgumentsExact' /\ ResultsExact'
    BY <1>4, <1>5, <2>1 DEF ArgumentsExact, ResultsExact, Passed, Drops, Given
  <2> QED
    BY <2>2, <2>3, <2>4 DEF IInv
<1>8. CASE \E answer \in {Answer(t, calls, call.at) : t \in Types} \cup {Null} :
              Answered(answer)
  <2>1. PICK answer \in {Answer(t, calls, call.at) : t \in Types} \cup {Null} :
          Answered(answer)
    BY <1>8
  <2>2. answer \in Cell \cup {Null} /\ answer # Failed
    BY <1>3, NullAssumption DEF Answer, Cell
  <2> QED
    BY <1>6, <2>1, <2>2
<1> QED
  BY <1>6, <1>7, <1>8 DEF DispatchRow, RowAnswers

-----------------------------------------------------------------------------
(* Scans *)

LEMMA DispatchTableSafe ==
    ASSUME IInv, DispatchTable
    PROVE  IInv'
<1> DEFINE row == [j \in 1 .. Arity(call.fn) |-> Parameter(call.chunk[j])]
<1>1. /\ call.pc = "bind" /\ seen' = <<row>> /\ delivered' = <<>>
      /\ UNCHANGED <<scratch, nulls, out, calls, meant>>
  BY DEF DispatchTable
<1>2. /\ call.fn \in Functions /\ Arity(call.fn) \in Nat
      /\ \A j \in 1 .. Arity(call.fn) :
            /\ call.chunk[j] \in Colvec
            /\ call.chunk[j].type = Takes[call.fn][j]
  BY <1>1, CallTyped
<1>3. call \in Call /\ IsTable(call.fn) /\ ~ByColumns(call.fn)
  BY <1>1, <1>2, OneSurface DEF IInv, TypeOK, ModeInv
<1>4. \A j \in 1 .. Arity(call.fn) :
        CellAt(call.chunk[j], 1) \in Cell \cup {Null, Lost}
  BY <1>2, CellTyped
<1>5. \A j \in 1 .. Arity(call.fn) : row[j] \in Cell \cup {Null, Lost}
  BY <1>4 DEF Parameter
<1>6. row \in Seq(Cell \cup {Null, Lost}) /\ Len(row) = Arity(call.fn)
  <2> DEFINE Read == Cell \cup {Null, Lost}
  <2>1. \A j \in 1 .. Arity(call.fn) : row[j] \in Read
    BY <1>5
  <2>2. row = [j \in 1 .. Arity(call.fn) |-> row[j]]
    OBVIOUS
  <2> HIDE DEF Read, row
  <2>3. row \in Seq(Read) /\ Len(row) = Arity(call.fn)
    BY <1>2, <2>1, <2>2, SeqMade
  <2> QED
    BY <2>3 DEF Read
<1>7. \A j \in 1 .. Arity(call.fn) : Passed(row[j], j, 1)
  BY <1>2, <1>3, TypesAssumption DEF Parameter, Passed, Drops, Given
<1> HIDE DEF row
<1>8. /\ seen' \in Seq(Seq(Cell \cup {Null, Lost}))
      /\ \A i \in DOMAIN seen' : i = 1 /\ seen'[i] = row
  BY <1>1, <1>6
<1>9. PICK pc \in {"scan", "error"} : Ends(pc)
  BY DEF DispatchTable
<1>10. /\ call' \in Call /\ call'.pc = pc /\ call'.fn = call.fn
       /\ call'.n = call.n /\ call'.chunk = call.chunk
  BY <1>3, <1>9 DEF Ends, Call
<1>11. scan' \in [rows : 0 .. MaxRows, odd : 0 .. MaxRows, cursor : 0 .. MaxRows]
       /\ (pc = "scan" => scan'.cursor = 0 /\ scan'.odd <= scan'.rows)
  <2>1. CASE \E m \in 0 .. MaxRows : \E odd \in 0 .. m :
                scan' = [rows |-> m, odd |-> odd, cursor |-> 0]
    BY <2>1, BoundsAssumption
  <2>2. CASE Ends("error") /\ UNCHANGED scan
    <3>1. pc = "error"
      BY <1>3, <1>10, <2>2 DEF Ends, Call
    <3> QED
      BY <2>2, <3>1 DEF IInv, TypeOK
  <2> QED
    BY <2>1, <2>2 DEF DispatchTable
<1>12. delivered' \in Seq(1 .. MaxRows)
  BY <1>1
<1>13. TypeOK'
  BY <1>1, <1>8, <1>10, <1>11, <1>12 DEF IInv, TypeOK
<1>14. ChunkInv' /\ ModeInv' /\ ReadInv' /\ RowsInv'
  BY <1>1, <1>10 DEF IInv, ChunkInv, ModeInv, ReadInv, RowsInv
<1>15. ScanInv'
  <2> SUFFICES ASSUME pc = "scan"
               PROVE  /\ scan'.cursor <= scan'.rows /\ scan'.odd <= scan'.rows
                      /\ scan'.odd = 0 \/ scan'.odd > scan'.cursor
                      /\ delivered' = [i \in 1 .. scan'.cursor |-> i]
    BY <1>10 DEF ScanInv
  <2>1. scan'.cursor = 0 /\ scan'.odd \in Nat /\ scan'.rows \in Nat
    BY <1>11, BoundsAssumption
  <2>2. <<>> = [i \in 1 .. 0 |-> i]
    OBVIOUS
  <2> QED
    BY <1>1, <1>11, <2>1, <2>2
<1>16. ArgumentsExact'
  BY <1>3, <1>6, <1>7, <1>8, <1>10 DEF ArgumentsExact, Passed, Drops, Given
<1>17. ResultsExact'
  BY <1>10 DEF ResultsExact
<1> QED
  BY <1>13, <1>14, <1>15, <1>16, <1>17 DEF IInv

\* The rows from the cursor on follow the ones that were delivered.
LEMMA RowsFollow ==
    ASSUME NEW c \in Nat, NEW n \in Nat,
           NEW d, d = [i \in 1 .. c |-> i],
           NEW chunk, chunk = [i \in 1 .. n |-> c + i]
    PROVE  d \o chunk = [i \in 1 .. c + n |-> i] /\ Len(chunk) = n
<1>1. d \in Seq(Nat) /\ Len(d) = c
  OBVIOUS
<1>2. chunk \in Seq(Nat) /\ Len(chunk) = n
  OBVIOUS
<1>3. d \o chunk \in Seq(Nat) /\ Len(d \o chunk) = c + n
  BY <1>1, <1>2
<1>4. \A i \in 1 .. c + n : (d \o chunk)[i] = i
  BY <1>1, <1>2
<1> QED
  BY <1>2, <1>3, <1>4

LEMMA ScanChunkSafe ==
    ASSUME IInv, ScanChunk
    PROVE  IInv'
<1> DEFINE chunk == [i \in 1 .. NextChunk |-> scan.cursor + i]
<1>1. /\ call.pc = "scan"
      /\ UNCHANGED <<scratch, nulls, out, calls, seen, meant>>
  BY DEF ScanChunk
<1>2. /\ scan.cursor \in 0 .. MaxRows /\ scan.rows \in 0 .. MaxRows
      /\ scan.odd \in 0 .. MaxRows
      /\ scan \in [rows : 0 .. MaxRows, odd : 0 .. MaxRows, cursor : 0 .. MaxRows]
      /\ scan.cursor <= scan.rows /\ scan.odd <= scan.rows
      /\ scan.odd = 0 \/ scan.odd > scan.cursor
      /\ delivered = [i \in 1 .. scan.cursor |-> i]
  BY <1>1 DEF IInv, TypeOK, ScanInv
<1>3. /\ NextChunk \in Nat /\ scan.cursor + NextChunk \in 0 .. MaxRows
      /\ scan.cursor + NextChunk <= scan.rows
      /\ NextChunk = 0 => scan.cursor = scan.rows
  BY <1>2, BoundsAssumption DEF NextChunk
<1>4. call \in Call /\ call.fn \in Functions
  BY <1>1, CallTyped DEF IInv, TypeOK
<1>5. Len(chunk) = NextChunk
      /\ delivered \o chunk = [i \in 1 .. scan.cursor + NextChunk |-> i]
  BY <1>2, <1>3, RowsFollow, SMTT(30)
<1>6. CASE Ends("end") /\ chunk = <<>> /\ UNCHANGED <<scan, delivered>>
  <2>1. /\ call' \in Call /\ call'.pc = "end" /\ call'.fn = call.fn
        /\ call'.n = call.n /\ call'.chunk = call.chunk
    BY <1>4, <1>6 DEF Ends, Call
  <2>2. scan.cursor = scan.rows /\ scan.odd = 0
    BY <1>2, <1>3, <1>5, <1>6
  <2>3. TypeOK' /\ ChunkInv' /\ ModeInv' /\ ReadInv' /\ RowsInv'
    BY <1>1, <1>6, <2>1
    DEF IInv, TypeOK, ChunkInv, ModeInv, ReadInv, RowsInv
  <2>4. ScanInv'
    BY <1>2, <1>6 DEF ScanInv
  <2>5. ArgumentsExact'
    BY <1>1, <2>1 DEF IInv, ArgumentsExact, Passed, Drops, Given
  <2>6. ResultsExact'
    BY <1>2, <1>6, <2>1, <2>2 DEF ResultsExact
  <2> QED
    BY <2>3, <2>4, <2>5, <2>6 DEF IInv
<1>7. CASE Ends("error") /\ UNCHANGED <<scan, delivered>>
  <2>1. /\ call' \in Call /\ call'.pc = "error" /\ call'.fn = call.fn
        /\ call'.n = call.n /\ call'.chunk = call.chunk
    BY <1>4, <1>7 DEF Ends, Call
  <2>2. TypeOK' /\ ChunkInv' /\ ModeInv' /\ ReadInv' /\ RowsInv' /\ ScanInv'
    BY <1>1, <1>7, <2>1
    DEF IInv, TypeOK, ChunkInv, ModeInv, ReadInv, RowsInv, ScanInv
  <2>3. ArgumentsExact' /\ ResultsExact'
    BY <1>1, <2>1 DEF IInv, ArgumentsExact, ResultsExact, Passed, Drops, Given
  <2> QED
    BY <2>2, <2>3 DEF IInv
<1>8. CASE /\ ~HasOdd(chunk)
           /\ delivered' = delivered \o chunk
           /\ scan' = [scan EXCEPT !.cursor = @ + Len(chunk)]
           /\ UNCHANGED call
  <2> DEFINE reached == scan.cursor + NextChunk
  <2>1. /\ scan' \in [rows : 0 .. MaxRows, odd : 0 .. MaxRows,
                      cursor : 0 .. MaxRows]
        /\ scan'.cursor = reached
        /\ scan'.rows = scan.rows /\ scan'.odd = scan.odd
    <3>1. scan' = [scan EXCEPT !.cursor = reached]
      BY <1>5, <1>8
    <3> QED
      BY <1>2, <1>3, <3>1
  <2>2. delivered' = [i \in 1 .. reached |-> i]
    BY <1>5, <1>8
  <2>3. delivered' \in Seq(1 .. MaxRows)
    <3>1. \A i \in 1 .. reached : i \in 1 .. MaxRows
      BY <1>3, BoundsAssumption
    <3>2. reached \in Nat /\ delivered' = [i \in 1 .. reached |-> delivered'[i]]
      BY <1>3, <2>2, BoundsAssumption
    <3>3. \A i \in 1 .. reached : delivered'[i] \in 1 .. MaxRows
      BY <2>2, <3>1
    <3> HIDE DEF reached
    <3> QED
      BY <3>2, <3>3, SeqMade
  <2>4. scan.odd = 0 \/ scan.odd > reached
    <3>1. SUFFICES ASSUME scan.odd > scan.cursor, scan.odd <= reached
                   PROVE  FALSE
      BY <1>2, <1>3
    <3>2. scan.odd - scan.cursor \in 1 .. NextChunk
      BY <1>2, <1>3, <3>1
    <3>3. chunk[scan.odd - scan.cursor] = scan.odd
      BY <1>2, <3>2
    <3>4. DOMAIN chunk = 1 .. NextChunk
      OBVIOUS
    <3> QED
      BY <1>8, <3>2, <3>3, <3>4 DEF HasOdd
  <2>5. TypeOK'
    BY <1>1, <1>8, <2>1, <2>3 DEF IInv, TypeOK
  <2>6. ChunkInv' /\ ModeInv' /\ ReadInv' /\ RowsInv'
    BY <1>1, <1>8 DEF IInv, ChunkInv, ModeInv, ReadInv, RowsInv
  <2>7. ScanInv'
    BY <1>2, <1>3, <2>1, <2>2, <2>4 DEF ScanInv
  <2>8. ArgumentsExact'
    BY <1>1, <1>8 DEF IInv, ArgumentsExact, Passed, Drops, Given
  <2>9. ResultsExact'
    BY <1>1, <1>8 DEF ResultsExact
  <2> QED
    BY <2>5, <2>6, <2>7, <2>8, <2>9 DEF IInv
<1> QED
  BY <1>6, <1>7, <1>8 DEF ScanChunk

LEMMA RescanSafe ==
    ASSUME IInv, Rescan
    PROVE  IInv'
<1>1. /\ call.pc = "end" /\ calls < MaxCalls /\ calls' = calls + 1
      /\ scan' = [scan EXCEPT !.cursor = 0] /\ delivered' = <<>>
      /\ Ends("scan")
      /\ UNCHANGED <<scratch, nulls, out, seen, meant>>
  BY DEF Rescan
<1>2. /\ call \in Call /\ calls \in 1 .. MaxCalls
      /\ scan \in [rows : 0 .. MaxRows, odd : 0 .. MaxRows, cursor : 0 .. MaxRows]
      /\ scan.odd <= scan.rows
  BY <1>1, CallTyped DEF IInv, TypeOK, ScanInv
<1>3. /\ call' \in Call /\ call'.pc = "scan" /\ call'.fn = call.fn
      /\ call'.n = call.n /\ call'.chunk = call.chunk
  BY <1>1, <1>2 DEF Ends, Call
<1>4. calls' \in 1 .. MaxCalls
  BY <1>1, <1>2, BoundsAssumption
<1>5. /\ scan' \in [rows : 0 .. MaxRows, odd : 0 .. MaxRows, cursor : 0 .. MaxRows]
      /\ scan'.cursor = 0 /\ scan'.rows = scan.rows /\ scan'.odd = scan.odd
  BY <1>1, <1>2, BoundsAssumption
<1>6. delivered' \in Seq(1 .. MaxRows) /\ delivered' = [i \in 1 .. 0 |-> i]
  BY <1>1
<1>7. TypeOK'
  BY <1>1, <1>3, <1>4, <1>5, <1>6 DEF IInv, TypeOK
<1>8. ChunkInv' /\ ModeInv' /\ ReadInv' /\ RowsInv'
  BY <1>1, <1>3, <1>4 DEF IInv, ChunkInv, ModeInv, ReadInv, RowsInv
<1>9. ScanInv'
  <2>1. scan.odd \in Nat /\ scan.rows \in Nat
    BY <1>2, BoundsAssumption
  <2> QED
    BY <1>2, <1>5, <1>6, <2>1 DEF ScanInv
<1>10. ArgumentsExact'
  BY <1>1, <1>3 DEF IInv, ArgumentsExact, Passed, Drops, Given
<1>11. ResultsExact'
  BY <1>3 DEF ResultsExact
<1> QED
  BY <1>7, <1>8, <1>9, <1>10, <1>11 DEF IInv

-----------------------------------------------------------------------------
(* The invariance and the theorems *)

LEMMA InitSafe == Init => IInv
<1> SUFFICES ASSUME Init PROVE IInv
  OBVIOUS
<1>1. (CHOOSE f \in Functions : TRUE) \in Functions
  BY FunctionsAssumption
<1>2. 0 \in 0 .. MaxCalls /\ 0 \in 0 .. MaxChunk /\ 0 \in 0 .. MaxRows
  BY BoundsAssumption
<1>3. call \in Call /\ call.pc = "idle"
  BY <1>1, <1>2 DEF Init, Call
<1>4. TypeOK
  BY <1>2, <1>3 DEF Init, TypeOK
<1>5. ChunkInv /\ ModeInv /\ ReadInv /\ RowsInv /\ ScanInv
  BY <1>3 DEF Init, ChunkInv, ModeInv, ReadInv, RowsInv, ScanInv
<1>6. ArgumentsExact /\ ResultsExact
  BY <1>3 DEF Init, ArgumentsExact, ResultsExact
<1> QED
  BY <1>4, <1>5, <1>6 DEF IInv

LEMMA StutterSafe ==
    ASSUME IInv, UNCHANGED vars
    PROVE  IInv'
<1>1. TypeOK' /\ ChunkInv' /\ ModeInv' /\ RowsInv' /\ ScanInv'
  BY DEF IInv, vars, TypeOK, ChunkInv, ModeInv, RowsInv, RowWritten,
     Unwritable, ScanInv
<1>2. ReadInv'
  BY DEF IInv, vars, ReadInv, NullsKnown, NullIn
<1>3. ArgumentsExact' /\ ResultsExact'
  BY DEF IInv, vars, ArgumentsExact, ResultsExact, Passed, Drops, Given, GivenNull,
     Unwritable
<1> QED
  BY <1>1, <1>2, <1>3 DEF IInv

LEMMA NextSafe == IInv /\ [Next]_vars => IInv'
<1> SUFFICES ASSUME IInv, [Next]_vars PROVE IInv'
  OBVIOUS
<1>1. ASSUME NEW f \in Functions,
             BeginColumns(f) \/ BeginRows(f) \/ BindTable(f)
      PROVE  IInv'
  BY <1>1, BeginColumnsSafe, BeginRowsSafe, BindTableSafe
<1>2. CASE ReadColumn
  BY <1>2, ReadColumnSafe
<1>3. CASE DispatchColumns
  BY <1>3, DispatchColumnsSafe
<1>4. CASE DispatchRow
  BY <1>4, DispatchRowSafe
<1>5. CASE DispatchTable
  BY <1>5, DispatchTableSafe
<1>6. CASE ScanChunk
  BY <1>6, ScanChunkSafe
<1>7. CASE Rescan
  BY <1>7, RescanSafe
<1>8. CASE AtRest \/ UNCHANGED vars
  BY <1>8, StutterSafe DEF AtRest
<1> QED
  BY <1>1, <1>2, <1>3, <1>4, <1>5, <1>6, <1>7, <1>8 DEF Next

LEMMA Invariance == Spec => []IInv
BY InitSafe, NextSafe, PTL DEF Spec

\* The scratch holds columns whatever calls came before and however they ended,
\* a call's chunk is whole, and the cursor of a scan stays within its rows.
THEOREM VectorCallsTyped == Spec => []TypeOK
<1>1. IInv => TypeOK
  BY DEF IInv
<1> QED
  BY <1>1, Invariance, PTL

\* A component is passed the chunk that DuckDB passed, NULLs where they were,
\* by columns, by rows and as the parameters of a scan: refill_colvec leaves
\* nothing of the call before in the scratch of the thread.
THEOREM ArgumentsArrive == Spec => []ArgumentsExact
<1>1. IInv => ArgumentsExact
  BY DEF IInv
<1> QED
  BY <1>1, Invariance, PTL

\* A call that succeeds has written for each row what the component answered
\* there, or NULL where an argument is NULL, and a scan that ends has delivered
\* the rows of its bind, each once and in order.
THEOREM ResultsArrive == Spec => []ResultsExact
<1>1. IInv => ResultsExact
  BY DEF IInv
<1> QED
  BY <1>1, Invariance, PTL

=============================================================================
