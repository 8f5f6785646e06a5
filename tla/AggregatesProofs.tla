-------------------------- MODULE AggregatesProofs --------------------------
(***************************************************************************)
(* Proofs about Aggregates, for any columns, values, states, chunks and    *)
(* width of a byte.  The first half is about the accumulator alone: what a *)
(* reader of the columns sees after a row, a chunk or a merge.             *)
(***************************************************************************)
EXTENDS Aggregates, SequenceTheorems, TLAPS

-----------------------------------------------------------------------------
(* Masks *)

\* A mask whose bits from row n + 1 on are ones.
FitsMask(mask, n) ==
    /\ mask \in Seq(BOOLEAN)
    /\ \A i \in DOMAIN mask : i > n => mask[i]

LEMMA WholeBytesCover ==
    ASSUME NEW n \in Nat PROVE WholeBytes(n) \in Nat /\ WholeBytes(n) >= n
BY ByteBitsAssumption DEF WholeBytes

LEMMA CoveringFits ==
    ASSUME NEW m \in Nat, NEW n \in Nat, NEW mask, FitsMask(mask, m)
    PROVE  /\ FitsMask(Covering(mask, n), m)
           /\ Len(Covering(mask, n)) >= n
           /\ \A i \in Nat : Bit(Covering(mask, n), i) <=> Bit(mask, i)
<1>1. WholeBytes(n) \in Nat /\ WholeBytes(n) >= n
  BY WholeBytesCover
<1>2. CASE Len(mask) >= WholeBytes(n)
  BY <1>1, <1>2 DEF FitsMask, Covering
<1>3. CASE ~(Len(mask) >= WholeBytes(n))
  <2> DEFINE grown == [i \in 1 .. WholeBytes(n) |-> Bit(mask, i)]
  <2>1. Covering(mask, n) = grown
    BY <1>3 DEF Covering
  <2>2. \A i \in 1 .. WholeBytes(n) : Bit(mask, i) \in BOOLEAN
    BY DEF FitsMask, Bit
  <2>3. grown \in Seq(BOOLEAN) /\ Len(grown) = WholeBytes(n)
    BY <1>1, <2>2
  <2>4. \A i \in 1 .. WholeBytes(n) : grown[i] <=> Bit(mask, i)
    OBVIOUS
  <2>5. DOMAIN mask \subseteq 1 .. WholeBytes(n)
    BY <1>1, <1>3 DEF FitsMask
  <2>6. DOMAIN grown = 1 .. WholeBytes(n)
    OBVIOUS
  <2> HIDE DEF grown
  <2>7. \A i \in DOMAIN grown : i > m => grown[i]
    BY <2>4, <2>6 DEF FitsMask, Bit
  <2>8. \A i \in Nat : Bit(grown, i) <=> Bit(mask, i)
    BY <2>4, <2>5, <2>6 DEF Bit
  <2> QED
    BY <1>1, <2>1, <2>3, <2>7, <2>8 DEF FitsMask
<1> QED
  BY <1>2, <1>3

LEMMA ClearedFits ==
    ASSUME NEW base \in Nat, NEW nulls \in Seq(BOOLEAN), NEW mask,
           FitsMask(mask, base), Len(mask) >= base + Len(nulls)
    PROVE  /\ FitsMask(Cleared(mask, base, nulls), base + Len(nulls))
           /\ \A i \in 1 .. base : Bit(Cleared(mask, base, nulls), i) <=> Bit(mask, i)
           /\ \A j \in DOMAIN nulls :
                Bit(Cleared(mask, base, nulls), base + j) <=> ~nulls[j]
<1> DEFINE cleared == Cleared(mask, base, nulls)
<1>1. /\ mask \in Seq(BOOLEAN) /\ base + Len(nulls) \in Nat
      /\ \A i \in DOMAIN mask : i > base => mask[i]
  BY DEF FitsMask
<1>2. /\ DOMAIN cleared = DOMAIN mask
      /\ \A i \in DOMAIN mask :
            cleared[i] <=> mask[i] /\ ~(i - base \in DOMAIN nulls /\ nulls[i - base])
  BY DEF Cleared
<1>3. DOMAIN mask = 1 .. Len(mask) /\ DOMAIN nulls = 1 .. Len(nulls)
  BY <1>1
<1>4. cleared \in Seq(BOOLEAN)
  <2>1. cleared \in [1 .. Len(mask) -> BOOLEAN]
    BY <1>3, Zenon DEF Cleared
  <2>2. Len(mask) \in Nat
    BY <1>1
  <2> HIDE DEF cleared
  <2> QED
    BY <2>1, <2>2
<1> HIDE DEF cleared
<1>5. \A i \in DOMAIN cleared : i > base + Len(nulls) => cleared[i]
  BY <1>1, <1>2, <1>3
<1>6. \A i \in 1 .. base : Bit(cleared, i) <=> Bit(mask, i)
  <2> SUFFICES ASSUME NEW i \in 1 .. base, i \in DOMAIN mask
               PROVE  cleared[i] <=> mask[i]
    BY <1>2 DEF Bit
  <2>1. i - base \notin DOMAIN nulls
    BY <1>3
  <2> QED
    BY <1>2, <2>1
<1>7. \A j \in DOMAIN nulls : Bit(cleared, base + j) <=> ~nulls[j]
  <2> SUFFICES ASSUME NEW j \in DOMAIN nulls
               PROVE  Bit(cleared, base + j) <=> ~nulls[j]
    OBVIOUS
  <2>1. base + j \in DOMAIN mask /\ base + j > base /\ (base + j) - base = j
    BY <1>1, <1>3
  <2> QED
    BY <1>1, <1>2, <2>1 DEF Bit
<1> QED
  BY <1>4, <1>5, <1>6, <1>7 DEF FitsMask, cleared

LEMMA GrownFits ==
    ASSUME NEW base \in Nat, NEW nulls \in Seq(BOOLEAN), NEW mask,
           FitsMask(mask, base)
    PROVE  /\ FitsMask(Grown(mask, base, nulls), base + Len(nulls))
           /\ \A i \in 1 .. base : Bit(Grown(mask, base, nulls), i) <=> Bit(mask, i)
           /\ \A j \in DOMAIN nulls :
                Bit(Grown(mask, base, nulls), base + j) <=> ~nulls[j]
<1>1. CASE \E i \in DOMAIN nulls : nulls[i]
  BY <1>1, CoveringFits, ClearedFits DEF Grown
<1>2. CASE ~\E i \in DOMAIN nulls : nulls[i]
  BY <1>2 DEF Grown, FitsMask, Bit
<1> QED
  BY <1>1, <1>2

-----------------------------------------------------------------------------
(* Columns *)

\* Cells and mask hold column c of the rows.
ColumnHolds(cells, mask, rows, c) ==
    /\ cells \in Seq(Values) /\ Len(cells) = Len(rows)
    /\ FitsMask(mask, Len(rows))
    /\ \A i \in 1 .. Len(rows) :
        /\ Bit(mask, i) <=> rows[i][c] # Null
        /\ rows[i][c] # Null => cells[i] = rows[i][c]

Holds(st, rows) ==
    /\ st \in ColumnStates
    /\ st.n = Len(rows)
    /\ \A c \in Columns : ColumnHolds(st.cells[c], st.validity[c], rows, c)

\* More rows after those that are there: their cells after the others' cells,
\* and a mask that agrees with the old one on the old rows.
LEMMA ColumnExtended ==
    ASSUME NEW c \in Columns, NEW rows \in Seq(Row), NEW more \in Seq(Row),
           NEW cells, NEW mask, ColumnHolds(cells, mask, rows, c),
           NEW added \in Seq(Values), Len(added) = Len(more),
           \A j \in 1 .. Len(more) : more[j][c] # Null => added[j] = more[j][c],
           NEW grown, FitsMask(grown, Len(rows) + Len(more)),
           \A i \in 1 .. Len(rows) : Bit(grown, i) <=> Bit(mask, i),
           \A j \in 1 .. Len(more) :
                Bit(grown, Len(rows) + j) <=> more[j][c] # Null
    PROVE  ColumnHolds(cells \o added, grown, rows \o more, c)
<1> DEFINE all == rows \o more
           both == cells \o added
<1>1. cells \in Seq(Values) /\ Len(cells) = Len(rows)
  BY DEF ColumnHolds
<1>2. /\ Len(all) = Len(rows) + Len(more)
      /\ \A i \in 1 .. Len(rows) + Len(more) :
            all[i] = IF i <= Len(rows) THEN rows[i] ELSE more[i - Len(rows)]
  BY ConcatProperties
<1>3. /\ both \in Seq(Values) /\ Len(both) = Len(cells) + Len(added)
      /\ \A i \in 1 .. Len(cells) + Len(added) :
            both[i] = IF i <= Len(cells) THEN cells[i] ELSE added[i - Len(cells)]
  BY <1>1, ConcatProperties
<1>4. Len(rows) \in Nat /\ Len(more) \in Nat
  OBVIOUS
<1> HIDE DEF all, both
<1>5. ASSUME NEW i \in 1 .. Len(all)
      PROVE  /\ Bit(grown, i) <=> all[i][c] # Null
             /\ all[i][c] # Null => both[i] = all[i][c]
  <2>1. CASE i <= Len(rows)
    <3>1. i \in 1 .. Len(rows) /\ all[i] = rows[i] /\ both[i] = cells[i]
      BY <1>1, <1>2, <1>3, <1>4, <2>1
    <3> QED
      BY <3>1 DEF ColumnHolds
  <2>2. CASE i > Len(rows)
    <3>1. PICK j \in 1 .. Len(more) : j = i - Len(rows)
      BY <1>2, <1>4, <2>2
    <3>2. i = Len(rows) + j /\ all[i] = more[j] /\ both[i] = added[j]
      BY <1>1, <1>2, <1>3, <1>4, <2>2, <3>1
    <3> QED
      BY <3>2
  <2> QED
    BY <1>2, <1>4, <2>1, <2>2
<1> QED
  BY <1>1, <1>2, <1>3, <1>5 DEF ColumnHolds, all, both

\* What a reader of the columns sees are the rows they hold.
LEMMA HeldRowsSeen ==
    ASSUME NEW rows \in Seq(Row), NEW st, Holds(st, rows)
    PROVE  RowsOf(st) = rows
<1>1. st.n = Len(rows)
  BY DEF Holds
<1>2. ASSUME NEW i \in 1 .. Len(rows)
      PROVE  [c \in Columns |-> CellAt(st, c, i)] = rows[i]
  <2>1. rows[i] \in Row
    OBVIOUS
  <2>2. \A c \in Columns : CellAt(st, c, i) = rows[i][c]
    BY DEF Holds, ColumnHolds, CellAt
  <2> QED
    BY <2>1, <2>2 DEF Row
<1>3. RowsOf(st) = [i \in 1 .. Len(rows) |-> rows[i]]
  BY <1>1, <1>2 DEF RowsOf
<1> QED
  BY <1>3

LEMMA NewStateHolds == Holds(NewState, <<>>)
BY DEF Holds, NewState, ColumnStates, ColumnHolds, FitsMask

LEMMA OneBit ==
    ASSUME NEW b \in BOOLEAN
    PROVE  <<b>> \in Seq(BOOLEAN) /\ Len(<<b>>) = 1 /\ <<b>>[1] = b
OBVIOUS

\* A state is made of columns that hold rows.
LEMMA StateMade ==
    ASSUME NEW rows, NEW n \in Nat, n = Len(rows), NEW cells, NEW validity,
           cells = [c \in Columns |-> cells[c]],
           validity = [c \in Columns |-> validity[c]],
           \A c \in Columns : ColumnHolds(cells[c], validity[c], rows, c)
    PROVE  Holds([cells |-> cells, validity |-> validity, n |-> n], rows)
<1>1. \A c \in Columns : cells[c] \in Seq(Values) /\ validity[c] \in Seq(BOOLEAN)
  BY DEF ColumnHolds, FitsMask
<1>2. /\ cells \in [Columns -> Seq(Values)]
      /\ validity \in [Columns -> Seq(BOOLEAN)]
  BY <1>1
<1> QED
  BY <1>2 DEF Holds, ColumnStates

LEMMA PushRowHolds ==
    ASSUME NEW rows \in Seq(Row), NEW st, Holds(st, rows), NEW row \in Row
    PROVE  Holds(PushRow(st, row), Append(rows, row))
<1>1. st.n = Len(rows) /\ st.n \in Nat
  BY DEF Holds
<1>2. ASSUME NEW c \in Columns
      PROVE  ColumnHolds(Append(st.cells[c], Stored(row[c])),
                         Grown(st.validity[c], st.n, <<row[c] = Null>>),
                         Append(rows, row), c)
  <2> DEFINE nulls == <<row[c] = Null>>
             grown == Grown(st.validity[c], st.n, nulls)
  <2>1. /\ ColumnHolds(st.cells[c], st.validity[c], rows, c)
        /\ FitsMask(st.validity[c], st.n) /\ st.cells[c] \in Seq(Values)
    BY <1>1 DEF Holds, ColumnHolds
  <2>2. /\ nulls \in Seq(BOOLEAN) /\ Len(nulls) = 1
        /\ nulls[1] <=> row[c] = Null
    <3>1. (row[c] = Null) \in BOOLEAN
      OBVIOUS
    <3>2. \A b \in BOOLEAN : <<b>> \in Seq(BOOLEAN) /\ Len(<<b>>) = 1 /\ <<b>>[1] = b
      BY OneBit
    <3> QED
      BY <3>1, <3>2, Zenon
  <2>3. row[c] \in Values \cup {Null} /\ Stored(row[c]) \in Values
    BY DefaultAssumption DEF Row, Stored
  <2>4. /\ <<row>> \in Seq(Row) /\ Len(<<row>>) = 1
        /\ <<Stored(row[c])>> \in Seq(Values) /\ Len(<<Stored(row[c])>>) = 1
        /\ row[c] # Null => <<Stored(row[c])>>[1] = row[c]
    BY <2>3 DEF Stored
  <2> HIDE DEF nulls
  <2>5. /\ FitsMask(grown, Len(rows) + 1)
        /\ \A i \in 1 .. Len(rows) : Bit(grown, i) <=> Bit(st.validity[c], i)
        /\ Bit(grown, Len(rows) + 1) <=> row[c] # Null
    <3>1. DOMAIN nulls = 1 .. 1
      BY <2>2
    <3>2. /\ FitsMask(grown, st.n + Len(nulls))
          /\ \A i \in 1 .. st.n : Bit(grown, i) <=> Bit(st.validity[c], i)
          /\ \A j \in DOMAIN nulls : Bit(grown, st.n + j) <=> ~nulls[j]
      <4>1. /\ st.n \in Nat /\ nulls \in Seq(BOOLEAN)
            /\ FitsMask(st.validity[c], st.n)
        BY <1>1, <2>1, <2>2
      <4> QED
        BY <4>1, GrownFits
    <3> QED
      BY <1>1, <2>2, <3>1, <3>2
  <2> HIDE DEF grown
  <2>6. ColumnHolds(st.cells[c] \o <<Stored(row[c])>>, grown, rows \o <<row>>, c)
    <3> DEFINE more == <<row>>
               added == <<Stored(row[c])>>
    <3>1. \A j \in 1 .. Len(more) : j = 1
      BY <2>4
    <3>2. \A j \in 1 .. Len(more) : more[j][c] # Null => added[j] = more[j][c]
      BY <2>4, <3>1
    <3>3. \A j \in 1 .. Len(more) :
            Bit(grown, Len(rows) + j) <=> more[j][c] # Null
      BY <2>5, <3>1
    <3>4. more \in Seq(Row) /\ added \in Seq(Values) /\ Len(added) = Len(more)
          /\ FitsMask(grown, Len(rows) + Len(more))
      BY <2>4, <2>5
    <3> HIDE DEF more, added
    <3>5. ColumnHolds(st.cells[c] \o added, grown, rows \o more, c)
      BY <2>1, <2>5, <3>2, <3>3, <3>4, ColumnExtended
    <3> QED
      BY <3>5 DEF more, added
  <2>7. /\ rows \o <<row>> = Append(rows, row)
        /\ st.cells[c] \o <<Stored(row[c])>> =
              Append(st.cells[c], Stored(row[c]))
    BY <2>1, <2>3
  <2> QED
    BY <2>6, <2>7 DEF grown, nulls
<1>3. Len(Append(rows, row)) = st.n + 1 /\ st.n + 1 \in Nat
  BY <1>1
<1> DEFINE cells == [c \in Columns |-> Append(st.cells[c], Stored(row[c]))]
           validity == [c \in Columns |->
                           Grown(st.validity[c], st.n, <<row[c] = Null>>)]
<1>4. /\ cells = [c \in Columns |-> cells[c]]
      /\ validity = [c \in Columns |-> validity[c]]
      /\ \A c \in Columns :
            ColumnHolds(cells[c], validity[c], Append(rows, row), c)
  BY <1>2
<1>5. PushRow(st, row) = [cells |-> cells, validity |-> validity, n |-> st.n + 1]
  BY DEF PushRow
<1> HIDE DEF cells, validity
<1> QED
  BY <1>3, <1>4, <1>5, StateMade

LEMMA AppendChunkHolds ==
    ASSUME NEW rows \in Seq(Row), NEW st, Holds(st, rows),
           NEW more \in Seq(Row), NEW under \in Values
    PROVE  Holds(AppendChunk(st, more, under), rows \o more)
<1> DEFINE added(c) == [i \in 1 .. Len(more) |->
                           IF more[i][c] = Null THEN under ELSE more[i][c]]
           nulls(c) == [i \in 1 .. Len(more) |-> more[i][c] = Null]
           cells == [c \in Columns |-> st.cells[c] \o added(c)]
           validity == [c \in Columns |->
                           Grown(st.validity[c], st.n, nulls(c))]
<1>1. st.n = Len(rows) /\ st.n \in Nat /\ Len(more) \in Nat
  BY DEF Holds
<1>2. ASSUME NEW c \in Columns
      PROVE  ColumnHolds(st.cells[c] \o added(c),
                         Grown(st.validity[c], st.n, nulls(c)), rows \o more, c)
  <2>1. /\ ColumnHolds(st.cells[c], st.validity[c], rows, c)
        /\ FitsMask(st.validity[c], st.n)
    BY <1>1 DEF Holds, ColumnHolds
  <2>2. \A i \in 1 .. Len(more) : more[i][c] \in Values \cup {Null}
    BY DEF Row
  <2>3. /\ added(c) \in Seq(Values) /\ Len(added(c)) = Len(more)
        /\ \A i \in 1 .. Len(more) : more[i][c] # Null => added(c)[i] = more[i][c]
    BY <1>1, <2>2
  <2>4. /\ nulls(c) \in Seq(BOOLEAN) /\ Len(nulls(c)) = Len(more)
        /\ \A i \in 1 .. Len(more) : nulls(c)[i] <=> more[i][c] = Null
    <3>1. nulls(c) \in [1 .. Len(more) -> BOOLEAN]
      BY Zenon
    <3>2. \A i \in 1 .. Len(more) : nulls(c)[i] <=> more[i][c] = Null
      BY Zenon
    <3> HIDE DEF nulls
    <3> QED
      BY <1>1, <3>1, <3>2
  <2> HIDE DEF added, nulls
  <2>5. /\ FitsMask(Grown(st.validity[c], st.n, nulls(c)), st.n + Len(nulls(c)))
        /\ \A i \in 1 .. st.n :
              Bit(Grown(st.validity[c], st.n, nulls(c)), i) <=> Bit(st.validity[c], i)
        /\ \A j \in DOMAIN nulls(c) :
              Bit(Grown(st.validity[c], st.n, nulls(c)), st.n + j) <=> ~nulls(c)[j]
    BY <1>1, <2>1, <2>4, GrownFits
  <2> DEFINE grown == Grown(st.validity[c], st.n, nulls(c))
  <2>6. DOMAIN nulls(c) = 1 .. Len(more)
    BY <2>4
  <2>7. /\ FitsMask(grown, Len(rows) + Len(more))
        /\ \A i \in 1 .. Len(rows) : Bit(grown, i) <=> Bit(st.validity[c], i)
        /\ \A j \in 1 .. Len(more) :
              Bit(grown, Len(rows) + j) <=> more[j][c] # Null
    BY <1>1, <2>4, <2>5, <2>6
  <2> HIDE DEF grown
  <2>8. ColumnHolds(st.cells[c] \o added(c), grown, rows \o more, c)
    BY <2>1, <2>3, <2>7, ColumnExtended
  <2> QED
    BY <2>8 DEF grown
<1>3. Len(rows \o more) = st.n + Len(more) /\ st.n + Len(more) \in Nat
  BY <1>1
<1>4. /\ cells = [c \in Columns |-> cells[c]]
      /\ validity = [c \in Columns |-> validity[c]]
      /\ \A c \in Columns : ColumnHolds(cells[c], validity[c], rows \o more, c)
  BY <1>2
<1>5. AppendChunk(st, more, under) =
        [cells |-> cells, validity |-> validity, n |-> st.n + Len(more)]
  BY DEF AppendChunk
<1> HIDE DEF cells, validity
<1> QED
  BY <1>3, <1>4, <1>5, StateMade

LEMMA JoinedHolds ==
    ASSUME NEW rows \in Seq(Row), NEW st, Holds(st, rows),
           NEW more \in Seq(Row), NEW other, Holds(other, more)
    PROVE  Holds(Joined(st, other), rows \o more)
<1> DEFINE nulls(c) == [i \in 1 .. other.n |-> ~Bit(other.validity[c], i)]
           mask(c) == IF st.validity[c] = <<>> /\ other.validity[c] = <<>> THEN <<>>
                      ELSE Cleared(Covering(st.validity[c], st.n + other.n), st.n,
                                   nulls(c))
           cells == [c \in Columns |-> st.cells[c] \o other.cells[c]]
           validity == [c \in Columns |-> mask(c)]
<1>1. /\ st.n = Len(rows) /\ st.n \in Nat /\ other.n = Len(more) /\ other.n \in Nat
      /\ st.n + other.n \in Nat
  BY DEF Holds
<1>2. ASSUME NEW c \in Columns
      PROVE  ColumnHolds(st.cells[c] \o other.cells[c], mask(c), rows \o more, c)
  <2>1. /\ ColumnHolds(st.cells[c], st.validity[c], rows, c)
        /\ FitsMask(st.validity[c], st.n)
        /\ ColumnHolds(other.cells[c], other.validity[c], more, c)
    BY <1>1 DEF Holds, ColumnHolds
  <2>2. /\ other.cells[c] \in Seq(Values) /\ Len(other.cells[c]) = Len(more)
        /\ \A j \in 1 .. Len(more) :
            /\ more[j][c] # Null => other.cells[c][j] = more[j][c]
            /\ Bit(other.validity[c], j) <=> more[j][c] # Null
    BY <2>1 DEF ColumnHolds
  <2>3. /\ nulls(c) \in Seq(BOOLEAN) /\ Len(nulls(c)) = Len(more)
        /\ \A j \in 1 .. Len(more) : nulls(c)[j] <=> more[j][c] = Null
    <3>1. nulls(c) \in [1 .. other.n -> BOOLEAN]
      BY Zenon
    <3>2. \A j \in 1 .. other.n : nulls(c)[j] <=> ~Bit(other.validity[c], j)
      BY Zenon
    <3> HIDE DEF nulls
    <3> QED
      BY <1>1, <2>2, <3>1, <3>2
  <2> HIDE DEF nulls
  <2>4. CASE st.validity[c] = <<>> /\ other.validity[c] = <<>>
    <3>1. FitsMask(mask(c), Len(rows) + Len(more))
      BY <2>4 DEF FitsMask
    <3>2. \A i \in Nat : Bit(mask(c), i) /\ Bit(st.validity[c], i)
      BY <2>4 DEF Bit
    <3>3. \A j \in 1 .. Len(more) : more[j][c] # Null
      BY <2>2, <2>4 DEF Bit
    <3> HIDE DEF mask
    <3>4. /\ \A i \in 1 .. Len(rows) : Bit(mask(c), i) <=> Bit(st.validity[c], i)
          /\ \A j \in 1 .. Len(more) :
                Bit(mask(c), Len(rows) + j) <=> more[j][c] # Null
      BY <1>1, <3>2, <3>3
    <3> QED
      BY <2>1, <2>2, <3>1, <3>4, ColumnExtended
  <2>5. CASE ~(st.validity[c] = <<>> /\ other.validity[c] = <<>>)
    <3> DEFINE wide == Covering(st.validity[c], st.n + other.n)
    <3>1. /\ FitsMask(wide, st.n) /\ Len(wide) >= st.n + other.n
          /\ \A i \in Nat : Bit(wide, i) <=> Bit(st.validity[c], i)
      BY <1>1, <2>1, CoveringFits
    <3>2. mask(c) = Cleared(wide, st.n, nulls(c))
      BY <2>5
    <3> HIDE DEF wide, mask
    <3>3. /\ FitsMask(mask(c), st.n + Len(nulls(c)))
          /\ \A i \in 1 .. st.n : Bit(mask(c), i) <=> Bit(wide, i)
          /\ \A j \in DOMAIN nulls(c) : Bit(mask(c), st.n + j) <=> ~nulls(c)[j]
      <4>1. /\ FitsMask(Cleared(wide, st.n, nulls(c)), st.n + Len(nulls(c)))
            /\ \A i \in 1 .. st.n :
                  Bit(Cleared(wide, st.n, nulls(c)), i) <=> Bit(wide, i)
            /\ \A j \in DOMAIN nulls(c) :
                  Bit(Cleared(wide, st.n, nulls(c)), st.n + j) <=> ~nulls(c)[j]
        <5>1. st.n \in Nat /\ nulls(c) \in Seq(BOOLEAN) /\ FitsMask(wide, st.n)
              /\ Len(wide) >= st.n + Len(nulls(c))
          BY <1>1, <2>3, <3>1
        <5> QED
          BY <5>1, ClearedFits
      <4> QED
        BY <3>2, <4>1
    <3>4. DOMAIN nulls(c) = 1 .. Len(more)
      BY <2>3
    <3>5. /\ FitsMask(mask(c), Len(rows) + Len(more))
          /\ \A i \in 1 .. Len(rows) : Bit(mask(c), i) <=> Bit(st.validity[c], i)
          /\ \A j \in 1 .. Len(more) :
                Bit(mask(c), Len(rows) + j) <=> more[j][c] # Null
      <4>1. FitsMask(mask(c), Len(rows) + Len(more))
        BY <1>1, <2>3, <3>3
      <4>2. ASSUME NEW i \in 1 .. Len(rows)
            PROVE  Bit(mask(c), i) <=> Bit(st.validity[c], i)
        <5>1. i \in Nat /\ i \in 1 .. st.n
          BY <1>1
        <5> QED
          BY <3>1, <3>3, <5>1
      <4>3. ASSUME NEW j \in 1 .. Len(more)
            PROVE  Bit(mask(c), Len(rows) + j) <=> more[j][c] # Null
        <5>1. Bit(mask(c), st.n + j) <=> ~nulls(c)[j]
          BY <3>3, <3>4
        <5> QED
          BY <1>1, <2>3, <5>1
      <4> QED
        BY <4>1, <4>2, <4>3
    <3> QED
      BY <2>1, <2>2, <3>5, ColumnExtended
  <2> QED
    BY <2>4, <2>5
<1>3. Len(rows \o more) = st.n + other.n
  BY <1>1
<1>4. /\ cells = [c \in Columns |-> cells[c]]
      /\ validity = [c \in Columns |-> validity[c]]
      /\ \A c \in Columns : ColumnHolds(cells[c], validity[c], rows \o more, c)
  BY <1>2
<1>5. Joined(st, other) =
        [cells |-> cells, validity |-> validity, n |-> st.n + other.n]
  BY DEF Joined, JoinedCells
<1> HIDE DEF cells, validity
<1> QED
  BY <1>1, <1>3, <1>4, <1>5, StateMade, ZenonT(30)

-----------------------------------------------------------------------------
(* Delegation *)

\* A query that DuckDB can prepare gives the target the rows it was made from,
\* or SQL's reading of them.
LEMMA DelegationDelivers ==
    ASSUME NEW rows \in Seq(Row), Readable(DelegationQuery(rows))
    PROVE  /\ Delivers(SeenByTarget(DelegationQuery(rows)), rows)
           /\ Delegated(rows) \in Answer
<1> DEFINE constant == ConstantColumns(rows)
           seen == [i \in 1 .. Len(rows) |-> [c \in Columns |->
                      IF c \in constant THEN Literal[rows[1][c]] ELSE rows[i][c]]]
           Cells == Values \cup {Null} \cup Readings
<1>1. Len(rows) \in Nat /\ \A i \in 1 .. Len(rows) : rows[i] \in Row
  OBVIOUS
<1>2. SeenByTarget(DelegationQuery(rows)) = seen
  BY <1>1 DEF SeenByTarget, DelegationQuery, Literals
<1>3. ASSUME NEW i \in 1 .. Len(rows), NEW c \in Columns, c \in constant
      PROVE  /\ Literal[rows[1][c]] = Literal[rows[i][c]]
             /\ Literal[rows[i][c]] \in Readings
  <2>1. 1 \in 1 .. Len(rows) /\ rows[1][c] \in Values \cup {Null}
    BY <1>1 DEF Row
  <2>2. Literal[rows[1][c]] # NoReading
    BY <1>3 DEF Readable, DelegationQuery, Literals
  <2>3. Literal[rows[1][c]] \in Readings
    BY <2>1, <2>2, LiteralAssumption
  <2>4. CASE i = 1
    BY <2>3, <2>4
  <2>5. CASE i # 1
    <3>1. <<rows[1][c], rows[i][c]>> \in Alike
      BY <1>1, <1>3, <2>5 DEF ConstantColumns
    <3> QED
      BY <2>3, <3>1, LiteralAssumption
  <2> QED
    BY <2>4, <2>5
<1>4. ASSUME NEW i \in 1 .. Len(rows), NEW c \in Columns
      PROVE  seen[i][c] = IF c \in constant THEN Literal[rows[i][c]]
                          ELSE rows[i][c]
  BY <1>3
<1>5. ASSUME NEW i \in 1 .. Len(rows)
      PROVE  seen[i] \in [Columns -> Cells]
  <2>1. \A c \in Columns : rows[i][c] \in Values \cup {Null}
    BY <1>1 DEF Row
  <2> QED
    BY <1>3, <2>1
<1>6. Len(seen) = Len(rows) /\ DOMAIN rows = 1 .. Len(rows)
  BY <1>1
<1>7. seen \in Seq([Columns -> Cells])
  BY <1>1, <1>5
<1> HIDE DEF seen, constant
<1>8. Delivers(seen, rows)
  <2> SUFFICES ASSUME NEW c \in Columns
               PROVE  \/ \A i \in DOMAIN rows : seen[i][c] = rows[i][c]
                      \/ \A i \in DOMAIN rows :
                            /\ seen[i][c] = Literal[rows[i][c]]
                            /\ seen[i][c] # NoReading
    BY <1>6 DEF Delivers
  <2>1. CASE c \in constant
    BY <1>3, <1>4, <1>6, <2>1, LiteralAssumption
  <2>2. CASE c \notin constant
    BY <1>4, <1>6, <2>2
  <2> QED
    BY <2>1, <2>2
<1> QED
  BY <1>2, <1>7, <1>8 DEF Delegated, Value, Answer

-----------------------------------------------------------------------------
(* The inductive invariant *)

\* The rows of a state that DuckDB may still use.  Columns always hold rows:
\* those given, unless some were lost to an earlier merge.
StateInv(s) ==
    /\ kind \in ColNative /\ status[s] = "held" =>
        \E rows \in Seq(Row) :
            Holds(columns[s], rows) /\ (s \notin robbed => rows = given[s])
    /\ kind \in ColNative /\ status[s] = "kept" => columns[s] = Gutted
    /\ kind \notin ColNative /\ status[s] \in {"held", "kept"} =>
        Emptied(s) \/ s \in robbed \/ rowMajor[s] = given[s]

StatesInv == \A s \in States : StateInv(s)

\* A chunk with one state for all its rows, in the hands of agg_update.
OneForAll(targets, meant) ==
    \/ targets[1] = NoState
    \/ SingleState(targets) /\ targets[1] = meant[1]

UpdateInv ==
    /\ call.op = "append" => kind = "primitive" /\ call.targets = call.meant
    /\ call.op \in {"append", "push"} =>
        /\ Len(call.rows) = Len(call.targets)
        /\ Len(call.meant) = Len(call.targets)
        /\ \A i \in DOMAIN call.meant : status[call.meant[i]] = "held"
        /\ \/ call.targets = call.meant
           \/ kind # "delegating" /\ OneForAll(call.targets, call.meant)

\* What is to be known of a group when DuckDB asks about it.
GroupOf(s) == [rows |-> given[s], robbed |-> s \in robbed]

\* The groups that are left to finalize have the last places of the vector.
FinalizeInv ==
    call.op = "finalize" =>
        /\ call.targets = call.meant
        /\ \A i \in DOMAIN call.targets : status[call.targets[i]] = "held"
        /\ \A i, j \in DOMAIN call.targets :
            call.targets[i] = call.targets[j] => i = j
        /\ call.place + Len(call.targets) = Len(vector) + 1
        /\ call.place \in 1 .. Len(vector)
        /\ \A i \in DOMAIN call.targets :
            asked[call.place + i - 1] = GroupOf(call.targets[i])

CallInv ==
    /\ call.op # "none" => query = "running" /\ call.targets # <<>>
    /\ UpdateInv
    /\ FinalizeInv

\* Every place before the one that is due is answered, unless the query failed.
AnswersInv ==
    /\ Len(vector) = Len(asked)
    /\ AnswersExact
    /\ query \in {"running", "done"} =>
        \A p \in DOMAIN vector :
            vector[p] # NoAnswer \/ (call.op = "finalize" /\ p >= call.place)

IInv == TypeOK /\ StatesInv /\ CallInv /\ AnswersInv

LEMMA InvariantMeans ==
    IInv => StatesHoldTheirRows /\ AnswersExact /\ FinishedAnswered
<1> SUFFICES ASSUME IInv
             PROVE  StatesHoldTheirRows /\ FinishedAnswered
  BY DEF IInv, AnswersInv
<1>1. StatesHoldTheirRows
  <2> SUFFICES ASSUME NEW s \in States, s \notin robbed, ~Emptied(s),
                      status[s] \in {"held", "kept"}
               PROVE  RowsIn(s) = given[s]
    BY DEF StatesHoldTheirRows
  <2>1. given[s] \in Seq(Row) /\ StateInv(s)
    BY DEF IInv, TypeOK, StatesInv
  <2>2. CASE kind \in ColNative
    <3>1. status[s] = "held"
      BY <2>2 DEF Emptied, ColNative
    <3>2. Holds(columns[s], given[s])
      BY <2>1, <2>2, <3>1 DEF StateInv
    <3> QED
      BY <2>1, <2>2, <3>2, HeldRowsSeen DEF RowsIn
  <2>3. CASE kind \notin ColNative
    BY <2>1, <2>3 DEF StateInv, RowsIn
  <2> QED
    BY <2>2, <2>3
<1>2. FinishedAnswered
  BY DEF IInv, FinishedAnswered, AnswersInv, CallInv
<1> QED
  BY <1>1, <1>2

LEMMA InitSafe == Init => IInv
<1> SUFFICES ASSUME Init PROVE IInv
  OBVIOUS
<1> USE DEF Init
<1>1. NewState \in ColumnStates
  BY NewStateHolds DEF Holds
<1>2. NoCall \in Call
  BY DEF NoCall, Call
<1>3. TypeOK
  BY <1>1, <1>2, BoundsAssumption DEF TypeOK, Status, Outcome
<1>4. StatesInv
  BY DEF StatesInv, StateInv
<1>5. CallInv
  BY DEF CallInv, UpdateInv, FinalizeInv, NoCall
<1>6. AnswersInv
  BY DEF AnswersInv, AnswersExact
<1> QED
  BY <1>3, <1>4, <1>5, <1>6 DEF IInv

-----------------------------------------------------------------------------
(* Each action keeps it *)

LEMMA NewStateTyped == NewState \in ColumnStates
BY NewStateHolds DEF Holds

\* Between callbacks there is nothing to say of the one in progress.
LEMMA BetweenCalls ==
    ASSUME CallInv, call.op = "none", UNCHANGED call
    PROVE  CallInv'
BY DEF CallInv, UpdateInv, FinalizeInv

LEMMA AnswersStay ==
    ASSUME AnswersInv, UNCHANGED <<kind, vector, asked>>,
           call.op # "finalize" \/ UNCHANGED call,
           query' = query \/ (query = "running" /\ query' = "done")
    PROVE  AnswersInv'
BY DEF AnswersInv, AnswersExact, AnswerExact

\* A state that an action leaves alone.
LEMMA StateStays ==
    ASSUME NEW x, StateInv(x), columns'[x] = columns[x],
           rowMajor'[x] = rowMajor[x], status'[x] = status[x],
           given'[x] = given[x], x \in robbed' <=> x \in robbed, kind' = kind
    PROVE  StateInv(x)'
BY DEF StateInv, Emptied

LEMMA StatesStay ==
    ASSUME StatesInv,
           UNCHANGED <<kind, columns, rowMajor, status, given, robbed>>
    PROVE  StatesInv'
BY StateStays DEF StatesInv

LEMMA InitStateSafe ==
    ASSUME IInv, NEW s \in States, InitState(s)
    PROVE  IInv'
<1> USE DEF InitState, Idle, IInv
<1>1. TypeOK'
  BY NewStateTyped DEF TypeOK, Status
<1>2. StatesInv'
  <2> SUFFICES ASSUME NEW x \in States PROVE StateInv(x)'
    BY DEF StatesInv
  <2>1. CASE x = s
    <3>1. /\ columns'[x] = NewState /\ given'[x] = <<>> /\ rowMajor'[x] = <<>>
          /\ status'[x] = "held"
      BY <2>1 DEF TypeOK
    <3>2. Holds(columns'[x], <<>>) /\ given'[x] = <<>> /\ <<>> \in Seq(Row)
      BY <3>1, NewStateHolds
    <3> QED
      BY <3>1, <3>2 DEF StateInv
  <2>2. CASE x # s
    <3>1. /\ columns'[x] = columns[x] /\ rowMajor'[x] = rowMajor[x]
          /\ status'[x] = status[x] /\ given'[x] = given[x]
      BY <2>2 DEF TypeOK
    <3> QED
      BY <3>1, StateStays DEF StatesInv
  <2> QED
    BY <2>1, <2>2
<1>3. CallInv'
  BY BetweenCalls
<1>4. AnswersInv'
  BY AnswersStay
<1> QED
  BY <1>1, <1>2, <1>3, <1>4

\* Whatever DuckDB passes, a callback finds the states that it means, or one
\* of a component's has one state for all rows in its hands.
LEMMA SlotsMean ==
    ASSUME NEW n \in Nat \ {0}, NEW meant \in [1 .. n -> States],
           NEW slots \in SlotsFor(meant)
    PROVE  /\ Targets(slots) \in [1 .. n -> States \cup {NoState}]
           /\ \/ Targets(slots) = meant
              \/ /\ kind # "delegating" /\ SingleState(Targets(slots))
                 /\ Targets(slots)[1] = meant[1]
<1>1. \A i \in 1 .. n : meant[i] # NoState
  BY NoStateAssumption
<1>2. CASE slots = meant
  <2>1. ~SingleState(meant)
    BY <1>1 DEF SingleState
  <2> QED
    BY <1>2, <2>1 DEF Targets
<1>3. CASE slots # meant
  <2>1. /\ \A i \in 1 .. n : meant[i] = meant[1]
        /\ SingleState(slots) /\ slots[1] = meant[1]
        /\ slots \in [1 .. n -> States \cup {NoState}]
    BY <1>3 DEF SlotsFor
  <2>2. CASE kind = "delegating"
    <3>1. Targets(slots) = [i \in 1 .. n |-> slots[1]]
      BY <2>1, <2>2 DEF Targets
    <3> QED
      BY <2>1, <3>1
  <2>3. CASE kind # "delegating"
    BY <2>1, <2>3 DEF Targets
  <2> QED
    BY <2>2, <2>3
<1> QED
  BY <1>2, <1>3

LEMMA BeginUpdateSafe ==
    ASSUME IInv, NEW rows \in Chunks, NEW meant \in [DOMAIN rows -> States],
           NEW slots \in SlotsFor(meant), BeginUpdate(rows, meant, slots)
    PROVE  IInv'
<1> DEFINE targets == Targets(slots)
<1> USE DEF IInv
<1>1. PICK n \in Nat \ {0} : rows \in [1 .. n -> Rows]
  BY BoundsAssumption DEF Chunks
<1>2. DOMAIN rows = 1 .. n /\ rows \in Seq(Row) /\ Len(rows) = n
  BY <1>1, RowsAssumption
<1>3. meant \in Seq(States) /\ Len(meant) = n /\ DOMAIN meant = 1 .. n
  BY <1>2
<1>4. /\ targets \in [1 .. n -> States \cup {NoState}]
      /\ \/ targets = meant
         \/ kind # "delegating" /\ SingleState(targets) /\ targets[1] = meant[1]
  BY <1>2, SlotsMean
<1>5. /\ call.op = "none" /\ query = "running"
      /\ \A i \in 1 .. n : status[meant[i]] = "held"
      /\ fed' = fed + Len(rows) /\ fed' <= MaxRows
      /\ UNCHANGED <<kind, status, columns, rowMajor, vector, query, given,
                     robbed, asked>>
  BY <1>3 DEF BeginUpdate, Idle
<1> DEFINE uniform == \A i \in DOMAIN targets : targets[i] = targets[1]
<1>6. call' = [op |-> IF kind = "primitive" /\ uniform THEN "append" ELSE "push",
               rows |-> rows, targets |-> targets, meant |-> meant, place |-> 0]
  BY DEF BeginUpdate
<1>7. SingleState(targets) /\ targets[1] = meant[1] => ~uniform
  <2> SUFFICES ASSUME SingleState(targets), targets[1] = meant[1], uniform
               PROVE  FALSE
    OBVIOUS
  <2>1. meant[1] \in States /\ 2 \in DOMAIN targets /\ targets[2] = NoState
    BY <1>3, <1>4 DEF SingleState
  <2> QED
    BY <2>1, NoStateAssumption
<1> HIDE DEF targets
<1>8. PICK op \in {"append", "push"} :
        /\ call' = [op |-> op, rows |-> rows, targets |-> targets, meant |-> meant,
                    place |-> 0]
        /\ op = "append" => kind = "primitive" /\ targets = meant
  BY <1>4, <1>6, <1>7
<1>9. /\ targets \in Seq(States \cup {NoState}) /\ Len(targets) = n
      /\ targets # <<>>
  <2>1. targets \in Seq(States \cup {NoState}) /\ Len(targets) = n
    BY <1>4
  <2> QED
    BY <2>1
<1>10. TypeOK'
  <2>1. call' \in Call
    BY <1>2, <1>3, <1>8, <1>9 DEF Call
  <2>2. fed' \in 0 .. MaxRows
    BY <1>2, <1>5, BoundsAssumption DEF TypeOK
  <2> QED
    BY <1>5, <2>1, <2>2 DEF TypeOK
<1>11. StatesInv'
  BY <1>5, StatesStay
<1>12. CallInv'
  <2>1. /\ call'.op = op /\ call'.rows = rows /\ call'.targets = targets
        /\ call'.meant = meant /\ op \in {"append", "push"}
    BY <1>8
  <2>2. targets = meant \/ (kind # "delegating" /\ OneForAll(targets, meant))
    BY <1>4 DEF OneForAll
  <2>3. UpdateInv'
    BY <1>2, <1>3, <1>5, <1>8, <1>9, <2>1, <2>2 DEF UpdateInv, OneForAll, SingleState
  <2>4. FinalizeInv'
    BY <2>1 DEF FinalizeInv
  <2> QED
    BY <1>5, <1>9, <2>1, <2>3, <2>4 DEF CallInv
<1>13. AnswersInv'
  BY <1>5, AnswersStay
<1> QED
  BY <1>5, <1>10, <1>11, <1>12, <1>13

\* The first row that is left, and its state.
LEMMA FirstLeft ==
    ASSUME IInv, call.op \in {"append", "push"}
    PROVE  /\ call.meant \in Seq(States) /\ call.rows \in Seq(Row)
           /\ call.targets \in Seq(States \cup {NoState})
           /\ Len(call.targets) = Len(call.rows) /\ Len(call.rows) \in Nat \ {0}
           /\ Len(call.meant) = Len(call.rows)
           /\ Head(call.meant) = call.meant[1] /\ Head(call.meant) \in States
           /\ Head(call.targets) = call.targets[1]
           /\ status[Head(call.meant)] = "held"
           /\ \/ Head(call.targets) = Head(call.meant)
              \/ kind # "delegating" /\ Head(call.targets) = NoState
<1>1. /\ call.targets # <<>> /\ Len(call.rows) = Len(call.targets)
      /\ Len(call.meant) = Len(call.targets)
      /\ \A i \in DOMAIN call.meant : status[call.meant[i]] = "held"
      /\ \/ call.targets = call.meant
         \/ kind # "delegating" /\ OneForAll(call.targets, call.meant)
  BY DEF IInv, CallInv, UpdateInv
<1>2. /\ call.meant \in Seq(States) /\ call.rows \in Seq(Row)
      /\ call.targets \in Seq(States \cup {NoState})
  BY DEF IInv, TypeOK, Call
<1>3. /\ Len(call.targets) \in Nat \ {0} /\ Head(call.targets) = call.targets[1]
      /\ Head(call.meant) = call.meant[1] /\ 1 \in DOMAIN call.meant
      /\ call.meant[1] \in States
  BY <1>1, <1>2
<1> QED
  BY <1>1, <1>2, <1>3 DEF OneForAll

LEMMA AppendRowsSafe ==
    ASSUME IInv, NEW under \in Values, AppendRows(under)
    PROVE  IInv'
<1> DEFINE s == Head(call.meant)
<1>1. /\ call.op = "append" /\ kind = "primitive" /\ query = "running"
      /\ columns' = [columns EXCEPT ![s] = AppendChunk(@, call.rows, under)]
      /\ given' = [given EXCEPT ![s] = @ \o call.rows]
      /\ call' = NoCall
      /\ UNCHANGED <<kind, status, rowMajor, vector, query, fed, robbed, asked>>
  BY DEF AppendRows, IInv, CallInv, UpdateInv
<1>2. s \in States /\ status[s] = "held" /\ call.rows \in Seq(Row)
  BY <1>1, FirstLeft
<1> HIDE DEF s
<1>3. given[s] \in Seq(Row) /\ given[s] \o call.rows \in Seq(Row)
  BY <1>2 DEF IInv, TypeOK
<1>4. PICK rows \in Seq(Row) :
        Holds(columns[s], rows) /\ (s \notin robbed => rows = given[s])
  BY <1>1, <1>2 DEF IInv, StatesInv, StateInv, ColNative
<1>5. /\ Holds(AppendChunk(columns[s], call.rows, under), rows \o call.rows)
      /\ rows \o call.rows \in Seq(Row)
  BY <1>2, <1>4, AppendChunkHolds
<1>6. NoCall \in Call
  BY DEF NoCall, Call
<1>7. TypeOK'
  <2>1. AppendChunk(columns[s], call.rows, under) \in ColumnStates
    BY <1>5 DEF Holds
  <2> QED
    BY <1>1, <1>3, <1>6, <2>1 DEF IInv, TypeOK
<1>8. StatesInv'
  <2> SUFFICES ASSUME NEW x \in States PROVE StateInv(x)'
    BY DEF StatesInv
  <2>1. CASE x = s
    <3>1. /\ columns'[x] = AppendChunk(columns[s], call.rows, under)
          /\ given'[x] = given[s] \o call.rows /\ status'[x] = "held"
      BY <1>1, <1>2, <2>1 DEF IInv, TypeOK
    <3>2. /\ Holds(columns'[x], rows \o call.rows)
          /\ x \notin robbed' => rows \o call.rows = given'[x]
      BY <1>1, <1>4, <1>5, <2>1, <3>1
    <3> QED
      BY <1>1, <1>5, <3>1, <3>2 DEF StateInv, ColNative
  <2>2. CASE x # s
    <3>1. columns'[x] = columns[x] /\ given'[x] = given[x]
      BY <1>1, <2>2 DEF IInv, TypeOK
    <3> QED
      BY <1>1, <3>1, StateStays DEF IInv, StatesInv
  <2> QED
    BY <2>1, <2>2
<1>9. CallInv'
  BY <1>1 DEF NoCall, CallInv, UpdateInv, FinalizeInv
<1>10. AnswersInv'
  BY <1>1, AnswersStay DEF IInv
<1> QED
  BY <1>1, <1>7, <1>8, <1>9, <1>10 DEF IInv

\* The rows that are left after the first.
LEMMA RowsLeft ==
    ASSUME IInv, call.op = "push", Head(call.targets) # NoState,
           Len(call.rows) # 1
    PROVE  /\ Tail(call.rows) \in Seq(Row)
           /\ Tail(call.meant) \in Seq(States)
           /\ Tail(call.targets) \in Seq(States \cup {NoState})
           /\ Tail(call.targets) # <<>>
           /\ Len(Tail(call.targets)) = Len(Tail(call.rows))
           /\ Len(Tail(call.meant)) = Len(Tail(call.rows))
           /\ \A i \in DOMAIN Tail(call.meant) :
                status[Tail(call.meant)[i]] = "held"
           /\ \/ Tail(call.targets) = Tail(call.meant)
              \/ /\ kind # "delegating"
                 /\ OneForAll(Tail(call.targets), Tail(call.meant))
<1>1. /\ call.rows \in Seq(Row) /\ call.meant \in Seq(States)
      /\ call.targets \in Seq(States \cup {NoState})
      /\ Len(call.targets) = Len(call.rows) /\ Len(call.meant) = Len(call.rows)
      /\ Len(call.rows) \in Nat \ {0} /\ Len(call.rows) # 1
      /\ call.targets[1] # NoState
  BY FirstLeft
<1>2. /\ \A i \in DOMAIN call.meant : status[call.meant[i]] = "held"
      /\ \/ call.targets = call.meant
         \/ kind # "delegating" /\ OneForAll(call.targets, call.meant)
  BY DEF IInv, CallInv, UpdateInv
<1>3. /\ Tail(call.rows) \in Seq(Row) /\ Len(Tail(call.rows)) = Len(call.rows) - 1
      /\ Tail(call.meant) \in Seq(States)
      /\ Len(Tail(call.meant)) = Len(call.rows) - 1
      /\ Tail(call.targets) \in Seq(States \cup {NoState})
      /\ Len(Tail(call.targets)) = Len(call.rows) - 1
      /\ \A i \in 1 .. Len(call.rows) - 1 :
            /\ i + 1 \in DOMAIN call.meant
            /\ Tail(call.meant)[i] = call.meant[i + 1]
            /\ Tail(call.targets)[i] = call.targets[i + 1]
  BY <1>1
<1>4. Len(call.rows) - 1 >= 1
  <2>1. \A n \in Nat \ {0} : n # 1 => n - 1 >= 1
    OBVIOUS
  <2> QED
    BY <1>1, <2>1, Zenon
<1>5. Tail(call.targets) # <<>>
  <2>1. Len(Tail(call.targets)) # 0
    BY <1>3, <1>4
  <2>2. Len(<<>>) = 0
    OBVIOUS
  <2> QED
    BY <2>1, <2>2, Zenon
<1>6. DOMAIN Tail(call.meant) = 1 .. Len(call.rows) - 1
  BY <1>3
<1>7. CASE call.targets = call.meant
  BY <1>2, <1>3, <1>5, <1>6, <1>7
<1>8. CASE kind # "delegating" /\ OneForAll(call.targets, call.meant)
  <2>1. call.targets[2] = NoState
    BY <1>1, <1>8 DEF OneForAll, SingleState
  <2>2. Tail(call.targets)[1] = NoState
    BY <1>3, <1>4, <2>1
  <2> QED
    BY <1>2, <1>3, <1>5, <1>6, <1>8, <2>2 DEF OneForAll
<1> QED
  BY <1>2, <1>7, <1>8

LEMMA PushOneSafe ==
    ASSUME IInv, PushOne
    PROVE  IInv'
<1> DEFINE s == Head(call.meant)
           row == Head(call.rows)
<1>1. call.op = "push" /\ query = "running"
  BY DEF PushOne, IInv, CallInv
<1>2. /\ s \in States /\ status[s] = "held" /\ call.rows \in Seq(Row)
      /\ Len(call.rows) \in Nat \ {0}
  BY <1>1, FirstLeft
<1>3. Head(call.targets) = s /\ s # NoState
  BY <1>1, FirstLeft, NoStateAssumption DEF PushOne
<1>4. /\ columns' = IF kind \in ColNative
                    THEN [columns EXCEPT ![s] = PushRow(@, row)] ELSE columns
      /\ rowMajor' = IF kind \notin ColNative
                     THEN [rowMajor EXCEPT ![s] = Append(@, row)] ELSE rowMajor
      /\ given' = [given EXCEPT ![s] = Append(@, row)]
      /\ call' = IF Len(call.rows) = 1 THEN NoCall
                 ELSE [call EXCEPT !.rows = Tail(@), !.targets = Tail(@),
                                   !.meant = Tail(@)]
      /\ UNCHANGED <<kind, status, vector, query, fed, robbed, asked>>
  BY <1>3 DEF PushOne
<1>5. row \in Row
  BY <1>2
<1> HIDE DEF s, row
<1>6. given[s] \in Seq(Row) /\ Append(given[s], row) \in Seq(Row)
  BY <1>2, <1>5 DEF IInv, TypeOK
<1>7. ASSUME kind \in ColNative
      PROVE  \E rows \in Seq(Row) :
                /\ Holds(PushRow(columns[s], row), rows)
                /\ s \notin robbed => rows = Append(given[s], row)
  <2>1. PICK rows \in Seq(Row) :
          Holds(columns[s], rows) /\ (s \notin robbed => rows = given[s])
    BY <1>2, <1>7 DEF IInv, StatesInv, StateInv
  <2>2. /\ Holds(PushRow(columns[s], row), Append(rows, row))
        /\ Append(rows, row) \in Seq(Row)
    BY <1>5, <2>1, PushRowHolds
  <2> QED
    BY <2>1, <2>2
<1>8. ASSUME Len(call.rows) # 1
      PROVE  /\ call' = [call EXCEPT !.rows = Tail(call.rows),
                                     !.targets = Tail(call.targets),
                                     !.meant = Tail(call.meant)]
             /\ call'.op = "push" /\ call'.rows = Tail(call.rows)
             /\ call'.targets = Tail(call.targets)
             /\ call'.meant = Tail(call.meant)
  BY <1>1, <1>4, <1>8 DEF IInv, TypeOK, Call
<1>9. TypeOK'
  <2>1. columns' \in [States -> ColumnStates \cup {Gutted}]
    <3>1. kind \in ColNative => PushRow(columns[s], row) \in ColumnStates
      BY <1>7 DEF Holds
    <3> QED
      BY <1>2, <1>4, <3>1 DEF IInv, TypeOK
  <2>2. rowMajor' \in [States -> Seq(Row)]
    BY <1>2, <1>4, <1>5 DEF IInv, TypeOK
  <2>3. call' \in Call
    <3>1. CASE Len(call.rows) = 1
      BY <1>4, <3>1 DEF NoCall, Call
    <3>2. CASE Len(call.rows) # 1
      <4>1. /\ Tail(call.rows) \in Seq(Row) /\ Tail(call.meant) \in Seq(States)
            /\ Tail(call.targets) \in Seq(States \cup {NoState})
        BY <1>1, <1>2, <1>3, <3>2, RowsLeft
      <4> QED
        BY <1>8, <3>2, <4>1 DEF IInv, TypeOK, Call
    <3> QED
      BY <3>1, <3>2
  <2>4. given' \in [States -> Seq(Row)]
    BY <1>4, <1>6 DEF IInv, TypeOK
  <2> QED
    BY <1>4, <2>1, <2>2, <2>3, <2>4 DEF IInv, TypeOK
<1>10. StatesInv'
  <2> SUFFICES ASSUME NEW x \in States PROVE StateInv(x)'
    BY DEF StatesInv
  <2>1. CASE x # s
    <3>1. /\ columns'[x] = columns[x] /\ rowMajor'[x] = rowMajor[x]
          /\ given'[x] = given[x]
      BY <1>4, <2>1 DEF IInv, TypeOK
    <3> QED
      BY <1>4, <3>1, StateStays DEF IInv, StatesInv
  <2>2. CASE x = s /\ kind \in ColNative
    <3>1. /\ columns'[x] = PushRow(columns[s], row)
          /\ given'[x] = Append(given[s], row) /\ status'[x] = "held"
      BY <1>2, <1>4, <2>2 DEF IInv, TypeOK
    <3> QED
      BY <1>4, <1>7, <2>2, <3>1 DEF StateInv
  <2>3. CASE x = s /\ kind \notin ColNative
    <3>1. /\ rowMajor'[x] = Append(rowMajor[s], row)
          /\ given'[x] = Append(given[s], row) /\ status'[x] = "held"
      BY <1>2, <1>4, <2>3 DEF IInv, TypeOK
    <3>2. s \in robbed \/ rowMajor[s] = given[s]
      BY <1>2, <2>3 DEF IInv, StatesInv, StateInv, Emptied
    <3> QED
      BY <1>4, <2>3, <3>1, <3>2 DEF StateInv
  <2> QED
    BY <2>1, <2>2, <2>3
<1>11. CallInv'
  <2>1. CASE Len(call.rows) = 1
    BY <1>4, <2>1 DEF NoCall, CallInv, UpdateInv, FinalizeInv
  <2>2. CASE Len(call.rows) # 1
    <3>1. /\ call'.targets # <<>>
          /\ Len(call'.rows) = Len(call'.targets)
          /\ Len(call'.meant) = Len(call'.targets)
          /\ \A i \in DOMAIN call'.meant : status'[call'.meant[i]] = "held"
          /\ \/ call'.targets = call'.meant
             \/ kind' # "delegating" /\ OneForAll(call'.targets, call'.meant)
      BY <1>1, <1>3, <1>4, <1>8, <2>2, RowsLeft
    <3> QED
      BY <1>1, <1>4, <1>8, <2>2, <3>1
      DEF CallInv, UpdateInv, FinalizeInv, OneForAll, SingleState
  <2> QED
    BY <2>1, <2>2
<1>12. AnswersInv'
  BY <1>1, <1>4, AnswersStay DEF IInv
<1> QED
  BY <1>9, <1>10, <1>11, <1>12 DEF IInv

LEMMA CrashSafe ==
    ASSUME IInv, Crash
    PROVE  IInv'
<1> USE DEF Crash
<1>1. NoCall \in Call
  BY DEF NoCall, Call
<1>2. TypeOK'
  BY <1>1 DEF IInv, TypeOK, Outcome
<1>3. StatesInv'
  BY StatesStay DEF IInv
<1>4. CallInv'
  BY DEF NoCall, CallInv, UpdateInv, FinalizeInv
<1>5. AnswersInv'
  BY DEF IInv, AnswersInv, AnswersExact, AnswerExact
<1> QED
  BY <1>2, <1>3, <1>4, <1>5 DEF IInv

\* A source whose columns are all there holds rows: its own, or none after an
\* earlier merge, which is the case of an aggregate without arguments.
LEMMA WholeSource ==
    ASSUME IInv, kind \in ColNative, NEW s \in States,
           status[s] \in {"held", "kept"}, Whole(s)
    PROVE  \E rows \in Seq(Row) :
              /\ Holds(columns[s], rows)
              /\ s \notin robbed /\ ~Emptied(s) => rows = given[s]
<1>1. CASE status[s] = "held"
  BY <1>1 DEF IInv, StatesInv, StateInv
<1>2. CASE status[s] = "kept"
  <2>1. columns[s] = Gutted /\ Emptied(s)
    BY <1>2 DEF IInv, StatesInv, StateInv, Emptied, ColNative
  <2>2. Columns = {}
    BY <2>1 DEF Whole, Gutted
  <2>3. <<>> \in [Columns -> Seq(Values)] /\ <<>> \in [Columns -> Seq(BOOLEAN)]
    BY <2>2
  <2>4. Holds(Gutted, <<>>) /\ <<>> \in Seq(Row)
    BY <2>2, <2>3 DEF Holds, Gutted, ColumnStates
  <2> QED
    BY <2>1, <2>4
<1> QED
  BY <1>1, <1>2

\* Columns that hold rows are all there.
LEMMA HeldIsWhole ==
    ASSUME NEW s, NEW rows, Holds(columns[s], rows)
    PROVE  Whole(s)
BY DEF Holds, ColumnStates, Whole

\* The states of a component's aggregate, after a merge or a panic in it.
LEMMA CombinedColumns ==
    ASSUME IInv, kind \in ColNative, NEW s \in States, NEW t \in States,
           Combine(s, t)
    PROVE  /\ columns' \in [States -> ColumnStates \cup {Gutted}]
           /\ StatesInv'
<1>1. /\ s # t /\ status[t] = "held" /\ status[s] \in {"held", "kept"}
      /\ kind' = kind /\ rowMajor' = rowMajor
      /\ columns' = [columns EXCEPT
                        ![t] = IF Whole(s) THEN Joined(columns[t], columns[s])
                               ELSE columns[t],
                        ![s] = Gutted]
      /\ query' = IF Whole(s) THEN query ELSE "panicked"
  BY DEF Combine, CombineColumns, IInv, TypeOK
<1>2. PICK st \in {"merged", "kept"} : status' = [status EXCEPT ![s] = st]
  BY DEF Combine
<1>3. PICK rows \in Seq(Row) :
        Holds(columns[t], rows) /\ (t \notin robbed => rows = given[t])
  BY <1>1 DEF IInv, StatesInv, StateInv
<1>4. given[s] \in Seq(Row) /\ given[t] \in Seq(Row)
  BY DEF IInv, TypeOK
<1>5. ASSUME NEW x \in States
      PROVE  status'[x] = IF x = s THEN st ELSE status[x]
  BY <1>2 DEF IInv, TypeOK
<1>6. ASSUME NEW x \in States
      PROVE  columns'[x] = IF x = s THEN Gutted
                           ELSE IF x = t /\ Whole(s)
                                THEN Joined(columns[t], columns[s])
                           ELSE columns[x]
  BY <1>1 DEF IInv, TypeOK
<1>7. columns' = [x \in States |-> columns'[x]]
  BY <1>1 DEF IInv, TypeOK
<1>8. StateInv(s)'
  BY <1>1, <1>5, <1>6 DEF StateInv
<1>9. CASE Whole(s)
  <2>1. PICK more \in Seq(Row) :
          /\ Holds(columns[s], more)
          /\ s \notin robbed /\ ~Emptied(s) => more = given[s]
    BY <1>1, <1>9, WholeSource
  <2>2. /\ Holds(Joined(columns[t], columns[s]), rows \o more)
        /\ rows \o more \in Seq(Row)
    BY <1>3, <2>1, JoinedHolds
  <2>3. query' # "panicked"
    BY <1>1, <1>9 DEF Combine, Idle
  <2>4. /\ given' = [given EXCEPT ![t] = @ \o given[s]]
        /\ robbed' = IF Emptied(s) \/ s \in robbed THEN robbed \cup {t} ELSE robbed
    BY <2>3 DEF Combine
  <2>5. columns' \in [States -> ColumnStates \cup {Gutted}]
    <3>1. Joined(columns[t], columns[s]) \in ColumnStates
      BY <2>2 DEF Holds
    <3> QED
      BY <1>1, <1>9, <3>1 DEF IInv, TypeOK
  <2>6. StateInv(t)'
    <3>1. /\ columns'[t] = Joined(columns[t], columns[s]) /\ status'[t] = "held"
          /\ given'[t] = given[t] \o given[s]
      BY <1>1, <1>5, <1>6, <1>9, <2>4 DEF IInv, TypeOK
    <3>2. t \notin robbed' => rows \o more = given'[t]
      BY <1>3, <2>1, <2>4, <3>1
    <3> QED
      BY <1>1, <2>2, <3>1, <3>2 DEF StateInv
  <2>7. ASSUME NEW x \in States, x # s, x # t PROVE StateInv(x)'
    <3>1. /\ columns'[x] = columns[x] /\ status'[x] = status[x]
          /\ given'[x] = given[x] /\ (x \in robbed' <=> x \in robbed)
      BY <1>5, <1>6, <2>4, <2>7 DEF IInv, TypeOK
    <3> QED
      BY <1>1, <3>1, StateStays DEF IInv, StatesInv
  <2> QED
    BY <1>8, <2>5, <2>6, <2>7 DEF StatesInv
<1>10. CASE ~Whole(s)
  <2>1. given' = given /\ robbed' = robbed
    BY <1>1, <1>10 DEF Combine
  <2>2. columns' \in [States -> ColumnStates \cup {Gutted}]
    BY <1>1, <1>10 DEF IInv, TypeOK
  <2>3. ASSUME NEW x \in States, x # s PROVE StateInv(x)'
    <3>1. columns'[x] = columns[x] /\ status'[x] = status[x]
      BY <1>5, <1>6, <1>10, <2>3
    <3> QED
      BY <1>1, <2>1, <3>1, StateStays DEF IInv, StatesInv
  <2> QED
    BY <1>8, <2>2, <2>3 DEF StatesInv
<1> QED
  BY <1>9, <1>10

\* The states of the other kinds: a source is cloned, or emptied.
LEMMA CombinedRows ==
    ASSUME IInv, kind \notin ColNative, NEW s \in States, NEW t \in States,
           Combine(s, t)
    PROVE  /\ rowMajor' \in [States -> Seq(Row)]
           /\ StatesInv'
<1>1. /\ s # t /\ status[t] = "held" /\ status[s] \in {"held", "kept"}
      /\ kind' = kind /\ columns' = columns /\ query' = query /\ query = "running"
      /\ rowMajor' = [rowMajor EXCEPT ![t] = @ \o rowMajor[s],
                                      ![s] = IF kind = "wide" THEN <<>> ELSE @]
  BY DEF Combine, CombineRows, Idle
<1>2. PICK st \in {"merged", "kept"} : status' = [status EXCEPT ![s] = st]
  BY DEF Combine
<1>3. /\ given' = [given EXCEPT ![t] = @ \o given[s]]
      /\ robbed' = IF Emptied(s) \/ s \in robbed THEN robbed \cup {t} ELSE robbed
  BY <1>1 DEF Combine
<1>4. kind \in {"wide", "delegating"}
  BY KindsAssumption DEF IInv, TypeOK, AllKinds, ColNative
<1>5. ASSUME NEW x \in States
      PROVE  /\ status'[x] = IF x = s THEN st ELSE status[x]
             /\ given'[x] = IF x = t THEN given[t] \o given[s] ELSE given[x]
             /\ rowMajor'[x] = IF x = t THEN rowMajor[t] \o rowMajor[s]
                               ELSE IF x = s /\ kind = "wide" THEN <<>>
                               ELSE rowMajor[x]
  BY <1>1, <1>2, <1>3 DEF IInv, TypeOK
<1>6. rowMajor' \in [States -> Seq(Row)]
  <2>1. rowMajor' = [x \in States |-> rowMajor'[x]]
    BY <1>1 DEF IInv, TypeOK
  <2>2. /\ <<>> \in Seq(Row) /\ \A x \in States : rowMajor[x] \in Seq(Row)
        /\ rowMajor[t] \o rowMajor[s] \in Seq(Row)
    BY DEF IInv, TypeOK
  <2>3. \A x \in States : rowMajor'[x] \in Seq(Row)
    BY <1>5, <2>2, Zenon
  <2> QED
    BY <2>1, <2>3
<1>7. StateInv(s)'
  <2>1. CASE kind = "wide"
    BY <1>1, <1>5, <2>1 DEF StateInv, Emptied, ColNative
  <2>2. CASE kind = "delegating"
    <3>1. rowMajor'[s] = rowMajor[s] /\ given'[s] = given[s]
      BY <1>1, <1>5, <2>2
    <3>2. s \in robbed \/ rowMajor[s] = given[s]
      BY <1>1, <2>2 DEF IInv, StatesInv, StateInv, Emptied, ColNative
    <3> QED
      BY <1>1, <1>3, <2>2, <3>1, <3>2 DEF StateInv, ColNative
  <2> QED
    BY <1>4, <2>1, <2>2
<1>8. StateInv(t)'
  <2>1. t \in robbed' \/ (s \notin robbed /\ ~Emptied(s) /\ t \notin robbed)
    BY <1>3
  <2>2. t \in robbed \/ rowMajor[t] = given[t]
    BY <1>1 DEF IInv, StatesInv, StateInv, Emptied
  <2>3. s \in robbed \/ Emptied(s) \/ rowMajor[s] = given[s]
    BY <1>1 DEF IInv, StatesInv, StateInv
  <2> QED
    BY <1>1, <1>5, <2>1, <2>2, <2>3 DEF StateInv
<1>9. ASSUME NEW x \in States, x # s, x # t PROVE StateInv(x)'
  <2>1. /\ rowMajor'[x] = rowMajor[x] /\ status'[x] = status[x]
        /\ given'[x] = given[x] /\ (x \in robbed' <=> x \in robbed)
    BY <1>3, <1>5, <1>9
  <2> QED
    BY <1>1, <2>1, StateStays DEF IInv, StatesInv
<1> QED
  BY <1>6, <1>7, <1>8, <1>9 DEF StatesInv

LEMMA CombineSafe ==
    ASSUME IInv, NEW s \in States, NEW t \in States, Combine(s, t)
    PROVE  IInv'
<1>1. /\ call.op = "none" /\ query = "running"
      /\ UNCHANGED <<kind, call, vector, fed, asked>>
  BY DEF Combine, Idle
<1>2. /\ status' \in [States -> Status] /\ given' \in [States -> Seq(Row)]
      /\ robbed' \subseteq States
  <2>1. given[t] \o given[s] \in Seq(Row)
    BY DEF IInv, TypeOK
  <2>2. status' \in [States -> Status]
    BY DEF Combine, IInv, TypeOK, Status
  <2>3. given' \in [States -> Seq(Row)] /\ robbed' \subseteq States
    <3>1. CASE query' = "panicked"
      BY <3>1 DEF Combine, IInv, TypeOK
    <3>2. CASE query' # "panicked"
      BY <2>1, <3>2 DEF Combine, IInv, TypeOK
    <3> QED
      BY <3>1, <3>2
  <2> QED
    BY <2>2, <2>3
<1>3. query' \in {query, "panicked"}
  BY DEF Combine, CombineColumns, CombineRows
<1>4. TypeOK' /\ StatesInv'
  <2>1. CASE kind \in ColNative
    <3>1. rowMajor' = rowMajor
      BY <2>1 DEF Combine, CombineColumns
    <3> QED
      BY <1>1, <1>2, <1>3, <2>1, <3>1, CombinedColumns DEF IInv, TypeOK, Outcome
  <2>2. CASE kind \notin ColNative
    <3>1. columns' = columns
      BY <2>2 DEF Combine, CombineRows
    <3> QED
      BY <1>1, <1>2, <1>3, <2>2, <3>1, CombinedRows DEF IInv, TypeOK, Outcome
  <2> QED
    BY <2>1, <2>2
<1>5. CallInv'
  BY <1>1, BetweenCalls DEF IInv
<1>6. AnswersInv'
  BY <1>1, <1>3 DEF IInv, AnswersInv, AnswersExact, AnswerExact
<1> QED
  BY <1>4, <1>5, <1>6 DEF IInv

LEMMA DestroySafe ==
    ASSUME IInv, Destroy
    PROVE  IInv'
<1> USE DEF IInv
<1>1. TypeOK'
  BY NewStateTyped DEF Destroy, TypeOK, Status
<1>2. StatesInv'
  BY DEF Destroy, StatesInv, StateInv
<1>3. CallInv'
  BY BetweenCalls DEF Destroy
<1>4. AnswersInv'
  BY AnswersStay DEF Destroy
<1> QED
  BY <1>1, <1>2, <1>3, <1>4

LEMMA EndQuerySafe ==
    ASSUME IInv, EndQuery
    PROVE  IInv'
<1> USE DEF IInv, EndQuery, Idle
<1>1. TypeOK'
  BY DEF TypeOK, Outcome
<1>2. StatesInv'
  BY StatesStay
<1>3. CallInv'
  BY BetweenCalls
<1>4. AnswersInv'
  BY AnswersStay
<1> QED
  BY <1>1, <1>2, <1>3, <1>4

LEMMA BeginFinalizeSafe ==
    ASSUME IInv, NEW n \in 1 .. MaxChunk, NEW ss \in [1 .. n -> States],
           Distinct(ss), BeginFinalize(ss)
    PROVE  IInv'
<1> DEFINE rows == [i \in 1 .. n |-> GroupOf(ss[i])]
           holes == [i \in 1 .. n |-> NoAnswer]
<1>1. n \in Nat \ {0}
  BY BoundsAssumption
<1>2. /\ ss \in Seq(States) /\ ss \in Seq(States \cup {NoState})
      /\ Len(ss) = n /\ DOMAIN ss = 1 .. n /\ ss # <<>>
  <2>1. Len(ss) = n /\ ss \in Seq(States) /\ ss \in Seq(States \cup {NoState})
    BY <1>1
  <2> QED
    BY <1>1, <2>1
<1>3. /\ call.op = "none" /\ query = "running"
      /\ \A i \in 1 .. n : status[ss[i]] = "held"
      /\ call' = [NoCall EXCEPT !.op = "finalize", !.targets = ss, !.meant = ss,
                                !.place = Len(vector) + 1]
      /\ asked' = asked \o rows /\ vector' = vector \o holes
      /\ UNCHANGED <<kind, status, columns, rowMajor, query, fed, given, robbed>>
  BY <1>2 DEF BeginFinalize, Idle, GroupOf
<1>4. \A i \in 1 .. n : ss[i] \in States /\ GroupOf(ss[i]) \in Group
  BY DEF IInv, TypeOK, Group, GroupOf
<1>5. /\ rows \in Seq(Group) /\ Len(rows) = n
      /\ \A i \in 1 .. n : rows[i] = GroupOf(ss[i])
  BY <1>1, <1>4
<1>6. /\ holes \in Seq(Answer \cup {NoAnswer}) /\ Len(holes) = n
      /\ \A i \in 1 .. n : holes[i] = NoAnswer
  BY <1>1
<1> HIDE DEF rows, holes
<1>7. /\ vector \in Seq(Answer \cup {NoAnswer}) /\ asked \in Seq(Group)
      /\ Len(vector) = Len(asked) /\ Len(vector) \in Nat
  <2>1. /\ vector \in Seq(Answer \cup {NoAnswer}) /\ asked \in Seq(Group)
        /\ Len(vector) = Len(asked)
    BY DEF IInv, TypeOK, AnswersInv
  <2> QED
    BY <2>1
<1>8. /\ asked' \in Seq(Group) /\ Len(asked') = Len(vector) + n
      /\ \A p \in 1 .. Len(vector) + n :
            asked'[p] = IF p <= Len(vector) THEN asked[p]
                        ELSE rows[p - Len(vector)]
  <2>1. asked \in Seq(Group) /\ rows \in Seq(Group)
    BY <1>5, <1>7
  <2>2. /\ asked \o rows \in Seq(Group)
        /\ Len(asked \o rows) = Len(asked) + Len(rows)
        /\ \A p \in 1 .. Len(asked) + Len(rows) :
            (asked \o rows)[p] = IF p <= Len(asked) THEN asked[p]
                                ELSE rows[p - Len(asked)]
    BY <2>1, ConcatProperties
  <2> QED
    BY <1>3, <1>5, <1>7, <2>2
<1>9. /\ vector' \in Seq(Answer \cup {NoAnswer}) /\ Len(vector') = Len(vector) + n
      /\ \A p \in 1 .. Len(vector) + n :
            vector'[p] = IF p <= Len(vector) THEN vector[p]
                         ELSE holes[p - Len(vector)]
  BY <1>3, <1>6, <1>7, ConcatProperties
<1>10. /\ call'.op = "finalize" /\ call'.targets = ss /\ call'.meant = ss
       /\ call'.place = Len(vector) + 1
       /\ call' \in Call
  <2>1. call' = [op |-> "finalize", rows |-> <<>>, targets |-> ss, meant |-> ss,
                 place |-> Len(vector) + 1]
    BY <1>3 DEF NoCall
  <2>2. <<>> \in Seq(Row) /\ Len(vector) + 1 \in Nat
    BY <1>7
  <2> QED
    BY <1>2, <2>1, <2>2 DEF Call
<1>11. TypeOK'
  BY <1>3, <1>8, <1>9, <1>10 DEF IInv, TypeOK
<1>12. StatesInv'
  BY <1>3, StatesStay DEF IInv
<1>13. CallInv'
  <2>1. \A i \in 1 .. n : asked'[Len(vector) + 1 + i - 1] = GroupOf(ss[i])
    <3> SUFFICES ASSUME NEW i \in 1 .. n
                 PROVE  asked'[Len(vector) + 1 + i - 1] = GroupOf(ss[i])
      OBVIOUS
    <3>1. /\ Len(vector) + 1 + i - 1 \in 1 .. Len(vector) + n
          /\ ~(Len(vector) + 1 + i - 1 <= Len(vector))
          /\ (Len(vector) + 1 + i - 1) - Len(vector) = i
      BY <1>1, <1>7
    <3> QED
      BY <1>5, <1>8, <3>1
  <2>2. FinalizeInv'
    <3>1. Len(vector) + 1 + n = Len(vector') + 1 /\ Len(vector) + 1 \in 1 .. Len(vector')
      <4>1. n \in Nat /\ n >= 1 /\ Len(vector) \in Nat
        BY <1>1, <1>7
      <4>2. Len(vector') = Len(vector) + n
        BY <1>9
      <4> QED
        BY <4>1, <4>2
    <3>2. \A i, j \in 1 .. n : ss[i] = ss[j] => i = j
      BY <1>2 DEF Distinct
    <3>3. /\ call'.place + Len(call'.targets) = Len(vector') + 1
          /\ call'.place \in 1 .. Len(vector')
      BY <1>2, <1>10, <3>1
    <3>4. /\ DOMAIN call'.targets = 1 .. n
          /\ \A i \in 1 .. n : status'[call'.targets[i]] = "held"
          /\ \A i, j \in 1 .. n : call'.targets[i] = call'.targets[j] => i = j
      BY <1>2, <1>3, <1>10, <3>2
    <3>5. \A i \in 1 .. n :
            asked'[call'.place + i - 1] =
                [rows |-> given'[call'.targets[i]],
                 robbed |-> call'.targets[i] \in robbed']
      BY <1>3, <1>10, <2>1, Zenon DEF GroupOf
    <3>6. call'.targets = call'.meant
      BY <1>10
    <3> QED
      BY <3>3, <3>4, <3>5, <3>6, Zenon DEF FinalizeInv, GroupOf
  <2> QED
    BY <1>2, <1>3, <1>10, <2>2 DEF CallInv, UpdateInv
<1>14. AnswersInv'
  <2>1. DOMAIN vector' = 1 .. Len(vector) + n /\ DOMAIN vector = 1 .. Len(vector)
    BY <1>7, <1>9
  <2>2. AnswersExact'
    <3> SUFFICES ASSUME NEW p \in 1 .. Len(vector) + n
                 PROVE  AnswerExact(p)'
      BY <2>1 DEF AnswersExact, AnswerExact
    <3>1. CASE p <= Len(vector)
      BY <1>3, <1>7, <1>8, <1>9, <2>1, <3>1 DEF IInv, AnswersInv, AnswersExact, AnswerExact
    <3>2. CASE ~(p <= Len(vector))
      <4>1. p - Len(vector) \in 1 .. n
        BY <1>1, <1>7, <3>2
      <4> QED
        BY <1>6, <1>9, <3>2, <4>1, Zenon DEF AnswerExact
    <3> QED
      BY <3>1, <3>2
  <2>3. \A p \in 1 .. Len(vector) : vector[p] # NoAnswer
    BY <1>3, <2>1 DEF IInv, AnswersInv
  <2>4. \A p \in 1 .. Len(vector) + n :
            vector'[p] # NoAnswer \/ p >= Len(vector) + 1
    BY <1>7, <1>9, <2>3
  <2> QED
    BY <1>8, <1>9, <1>10, <2>1, <2>2, <2>4 DEF AnswersInv
<1> QED
  BY <1>3, <1>11, <1>12, <1>13, <1>14 DEF IInv

\* The group that is due, and its place.
LEMMA DueGroup ==
    ASSUME IInv, call.op = "finalize"
    PROVE  /\ call.targets = call.meant /\ call.targets \in Seq(States)
           /\ Len(call.targets) \in Nat \ {0}
           /\ Current = call.targets[1] /\ Current \in States
           /\ status[Current] = "held" /\ query = "running"
           /\ Len(vector) \in Nat /\ Len(asked) = Len(vector)
           /\ call.place \in 1 .. Len(vector)
           /\ call.place + Len(call.targets) = Len(vector) + 1
           /\ asked[call.place] = GroupOf(Current)
<1>1. /\ call.targets = call.meant /\ call.targets # <<>> /\ query = "running"
      /\ call.place + Len(call.targets) = Len(vector) + 1
      /\ call.place \in 1 .. Len(vector)
      /\ \A i \in DOMAIN call.targets : status[call.targets[i]] = "held"
      /\ \A i \in DOMAIN call.targets :
            asked[call.place + i - 1] = GroupOf(call.targets[i])
  BY DEF IInv, CallInv, FinalizeInv
<1>2. /\ call.meant \in Seq(States) /\ Len(vector) \in Nat
      /\ Len(asked) = Len(vector)
  <2>1. /\ call.meant \in Seq(States) /\ vector \in Seq(Answer \cup {NoAnswer})
        /\ Len(asked) = Len(vector)
    BY DEF IInv, TypeOK, Call, AnswersInv
  <2> QED
    BY <2>1
<1>3. /\ Len(call.targets) \in Nat \ {0} /\ 1 \in DOMAIN call.targets
      /\ Current = call.targets[1] /\ call.targets[1] \in States
  BY <1>1, <1>2 DEF Current
<1>4. call.place + 1 - 1 = call.place
  BY <1>1, <1>2
<1> QED
  BY <1>1, <1>2, <1>3, <1>4

LEMMA GroupsLeft ==
    ASSUME IInv, call.op = "finalize", Len(call.targets) # 1
    PROVE  /\ Tail(call.targets) \in Seq(States) /\ Tail(call.targets) # <<>>
           /\ Len(Tail(call.targets)) = Len(call.targets) - 1
           /\ call.place + 1 \in 1 .. Len(vector)
           /\ \A i \in DOMAIN Tail(call.targets) :
                /\ i + 1 \in DOMAIN call.targets
                /\ Tail(call.targets)[i] = call.targets[i + 1]
                /\ Tail(call.targets)[i] # Current
                /\ status[Tail(call.targets)[i]] = "held"
                /\ asked[call.place + 1 + i - 1] = GroupOf(Tail(call.targets)[i])
           /\ \A i, j \in DOMAIN Tail(call.targets) :
                Tail(call.targets)[i] = Tail(call.targets)[j] => i = j
<1> DEFINE ts == call.targets
           rest == Tail(call.targets)
<1>1. /\ ts \in Seq(States) /\ Len(ts) \in Nat \ {0} /\ Len(ts) # 1
      /\ Current = ts[1] /\ call.place \in 1 .. Len(vector)
      /\ call.place + Len(ts) = Len(vector) + 1 /\ Len(vector) \in Nat
  BY DueGroup
<1>2. /\ \A i \in DOMAIN ts : status[ts[i]] = "held"
      /\ \A i \in DOMAIN ts : asked[call.place + i - 1] = GroupOf(ts[i])
      /\ \A i, j \in DOMAIN ts : ts[i] = ts[j] => i = j
  BY DEF IInv, CallInv, FinalizeInv
<1> HIDE DEF ts
<1>3. /\ Tail(ts) \in Seq(States) /\ Len(Tail(ts)) = Len(ts) - 1
      /\ \A i \in 1 .. Len(ts) - 1 : Tail(ts)[i] = ts[i + 1]
  BY <1>1
<1>4. DOMAIN Tail(ts) = 1 .. Len(ts) - 1 /\ DOMAIN ts = 1 .. Len(ts)
  BY <1>1, <1>3
<1>5. Tail(ts) # <<>>
  <2>1. Len(Tail(ts)) # Len(<<>>)
    BY <1>1, <1>3
  <2> QED
    BY <2>1
<1>6. call.place + 1 \in 1 .. Len(vector)
  <2> SUFFICES ASSUME NEW k \in Nat \ {0}, k # 1, NEW l \in Nat,
                      NEW p \in 1 .. l, p + k = l + 1
               PROVE  p + 1 \in 1 .. l
    BY <1>1, Zenon
  <2> QED
    OBVIOUS
<1>7. \A i \in 1 .. Len(ts) - 1 :
        /\ i + 1 \in DOMAIN ts /\ 1 \in DOMAIN ts /\ i + 1 # 1
        /\ call.place + 1 + i - 1 = call.place + (i + 1) - 1
  BY <1>1, <1>4
<1>8. \A i \in DOMAIN Tail(ts) :
        /\ i + 1 \in DOMAIN ts /\ Tail(ts)[i] = ts[i + 1]
        /\ Tail(ts)[i] # Current /\ status[Tail(ts)[i]] = "held"
        /\ asked[call.place + 1 + i - 1] = GroupOf(Tail(ts)[i])
  <2> SUFFICES ASSUME NEW i \in 1 .. Len(ts) - 1
               PROVE  /\ i + 1 \in DOMAIN ts /\ Tail(ts)[i] = ts[i + 1]
                      /\ Tail(ts)[i] # Current /\ status[Tail(ts)[i]] = "held"
                      /\ asked[call.place + 1 + i - 1] = GroupOf(Tail(ts)[i])
    BY <1>4
  <2>1. i + 1 \in DOMAIN ts /\ Tail(ts)[i] = ts[i + 1]
    BY <1>3, <1>7, Zenon
  <2>2. Tail(ts)[i] # Current
    BY <1>1, <1>2, <1>7, <2>1, Zenon
  <2>3. asked[call.place + (i + 1) - 1] = GroupOf(ts[i + 1]) /\ status[ts[i + 1]] = "held"
    BY <1>2, <2>1, Zenon
  <2>4. call.place + 1 + i - 1 = call.place + (i + 1) - 1
    BY <1>7, Zenon
  <2>5. asked[call.place + 1 + i - 1] = GroupOf(Tail(ts)[i])
    BY <2>1, <2>3, <2>4, Zenon
  <2> QED
    BY <2>1, <2>2, <2>3, <2>5, Zenon
<1>9. \A i, j \in DOMAIN Tail(ts) : Tail(ts)[i] = Tail(ts)[j] => i = j
  <2> SUFFICES ASSUME NEW i \in 1 .. Len(ts) - 1, NEW j \in 1 .. Len(ts) - 1,
                      Tail(ts)[i] = Tail(ts)[j]
               PROVE  i = j
    BY <1>4
  <2>1. i + 1 = j + 1
    BY <1>2, <1>3, <1>7, SMTT(30)
  <2> QED
    BY <1>1, <2>1
<1> QED
  BY <1>3, <1>5, <1>6, <1>8, <1>9 DEF ts

\* A callback that finalizes changes no state but the one that is due.
OnlyCurrent ==
    /\ columns' \in [States -> ColumnStates \cup {Gutted}]
    /\ rowMajor' \in [States -> Seq(Row)]
    /\ \A x \in States : x # Current =>
        columns'[x] = columns[x] /\ rowMajor'[x] = rowMajor[x]

LEMMA OthersHold ==
    ASSUME IInv, call.op = "finalize", OnlyCurrent,
           UNCHANGED <<kind, given, robbed>>,
           status' = [status EXCEPT ![Current] = "spent"]
    PROVE  StatesInv' /\ status' \in [States -> Status]
<1>1. status \in [States -> Status] /\ Current \in States
  BY DueGroup DEF IInv, TypeOK
<1>2. ASSUME NEW x \in States PROVE StateInv(x)'
  <2>1. CASE x = Current
    <3>1. status'[x] = "spent"
      BY <1>1, <2>1
    <3> QED
      BY <3>1 DEF StateInv
  <2>2. CASE x # Current
    <3>1. /\ status'[x] = status[x] /\ columns'[x] = columns[x]
          /\ rowMajor'[x] = rowMajor[x]
      BY <1>1, <2>2 DEF OnlyCurrent
    <3> QED
      BY <3>1, StateStays DEF IInv, StatesInv
  <2> QED
    BY <2>1, <2>2
<1> QED
  BY <1>1, <1>2 DEF Status, StatesInv

LEMMA AnsweredSafe ==
    ASSUME IInv, call.op = "finalize", OnlyCurrent, NEW answer \in Answer,
           \/ asked[call.place].robbed
           \/ kind # "delegating" /\ answer = Value(asked[call.place].rows)
           \/ kind = "delegating" /\ answer = NullAnswer
           \/ kind = "delegating" /\ Delivers(answer.of, asked[call.place].rows),
           WriteAnswer(answer)
    PROVE  IInv'
<1>1. /\ vector' = [vector EXCEPT ![call.place] = answer]
      /\ status' = [status EXCEPT ![Current] = "spent"]
      /\ call' = IF Len(call.targets) = 1 THEN NoCall
                 ELSE [call EXCEPT !.targets = Tail(@), !.meant = Tail(@),
                                   !.place = @ + 1]
      /\ UNCHANGED <<kind, query, fed, given, robbed, asked>>
  BY DEF WriteAnswer
<1>2. /\ call.targets = call.meant /\ call.targets \in Seq(States)
      /\ Len(call.targets) \in Nat \ {0}
      /\ Current \in States /\ query = "running"
      /\ Len(vector) \in Nat /\ Len(asked) = Len(vector)
      /\ call.place \in 1 .. Len(vector)
      /\ call.place + Len(call.targets) = Len(vector) + 1
  BY DueGroup
<1>3. StatesInv' /\ status' \in [States -> Status]
  BY <1>1, OthersHold
<1>4. vector \in Seq(Answer \cup {NoAnswer}) /\ DOMAIN vector = 1 .. Len(vector)
  BY DEF IInv, TypeOK
<1>5. /\ vector' \in Seq(Answer \cup {NoAnswer}) /\ Len(vector') = Len(vector)
      /\ DOMAIN vector' = 1 .. Len(vector)
      /\ \A p \in 1 .. Len(vector) :
            vector'[p] = IF p = call.place THEN answer ELSE vector[p]
  <2>1. answer \in Answer \cup {NoAnswer}
    OBVIOUS
  <2> QED
    BY <1>1, <1>2, <1>4, <2>1, ExceptSeq
<1>6. ASSUME Len(call.targets) # 1
      PROVE  /\ call' = [call EXCEPT !.targets = Tail(call.targets),
                                     !.meant = Tail(call.targets),
                                     !.place = call.place + 1]
             /\ call'.op = "finalize"
             /\ call'.targets = Tail(call.targets)
             /\ call'.meant = Tail(call.targets)
             /\ call'.place = call.place + 1
  BY <1>1, <1>2, <1>6 DEF IInv, TypeOK, Call
<1>7. TypeOK'
  <2>1. call' \in Call
    <3>1. CASE Len(call.targets) = 1
      BY <1>1, <3>1 DEF NoCall, Call
    <3>2. CASE Len(call.targets) # 1
      <4>1. Tail(call.targets) \in Seq(States)
        BY <3>2, GroupsLeft
      <4>2. Tail(call.targets) \in Seq(States \cup {NoState})
        BY <4>1
      <4>3. call \in Call /\ call.place + 1 \in Nat
        <5>1. call \in Call
          BY DEF IInv, TypeOK
        <5>2. \A n \in Nat : \A i \in 1 .. n : i + 1 \in Nat
          OBVIOUS
        <5> QED
          BY <1>2, <5>1, <5>2, Zenon
      <4> QED
        BY <1>6, <3>2, <4>1, <4>2, <4>3 DEF Call
    <3> QED
      BY <3>1, <3>2
  <2> QED
    BY <1>1, <1>3, <1>5, <2>1 DEF IInv, TypeOK, OnlyCurrent
<1>8. CallInv'
  <2>1. CASE Len(call.targets) = 1
    BY <1>1, <2>1 DEF NoCall, CallInv, UpdateInv, FinalizeInv
  <2>2. CASE Len(call.targets) # 1
    <3> DEFINE rest == Tail(call.targets)
    <3>1. /\ rest \in Seq(States) /\ rest # <<>>
          /\ Len(rest) = Len(call.targets) - 1
          /\ call.place + 1 \in 1 .. Len(vector)
          /\ \A i \in DOMAIN rest :
                /\ rest[i] # Current /\ status[rest[i]] = "held"
                /\ asked[call.place + 1 + i - 1] = GroupOf(rest[i])
          /\ \A i, j \in DOMAIN rest : rest[i] = rest[j] => i = j
      BY <2>2, GroupsLeft
    <3> HIDE DEF rest
    <3>2. /\ call'.op = "finalize" /\ call'.targets = rest /\ call'.meant = rest
          /\ call'.place = call.place + 1
      BY <1>6, <2>2 DEF rest
    <3>3. call.place + 1 + Len(rest) = Len(vector) + 1
      BY <1>2, <3>1
    <3>4. \A i \in DOMAIN rest : status'[rest[i]] = "held"
      <4> SUFFICES ASSUME NEW i \in DOMAIN rest PROVE status'[rest[i]] = "held"
        OBVIOUS
      <4>1. rest[i] \in States /\ rest[i] # Current /\ status[rest[i]] = "held"
        BY <3>1
      <4> QED
        BY <1>1, <4>1 DEF IInv, TypeOK
    <3>5. \A i \in DOMAIN rest :
            asked'[call.place + 1 + i - 1] =
                [rows |-> given'[rest[i]], robbed |-> rest[i] \in robbed']
      BY <1>1, <3>1, Zenon DEF GroupOf
    <3>6. call'.place + Len(call'.targets) = Len(vector') + 1
          /\ call'.place \in 1 .. Len(vector')
      BY <1>5, <3>1, <3>2, <3>3, Zenon
    <3>7. FinalizeInv'
      BY <3>1, <3>2, <3>4, <3>5, <3>6, Zenon DEF FinalizeInv, GroupOf
    <3> QED
      BY <1>1, <1>2, <3>1, <3>2, <3>7 DEF CallInv, UpdateInv
  <2> QED
    BY <2>1, <2>2
<1>9. AnswersInv'
  <2>1. AnswersExact'
    <3> SUFFICES ASSUME NEW p \in 1 .. Len(vector)
                 PROVE  AnswerExact(p)'
      BY <1>1, <1>5 DEF AnswersExact
    <3>1. CASE p = call.place
      BY <1>1, <1>5, <3>1 DEF AnswerExact
    <3>2. CASE p # call.place
      BY <1>1, <1>4, <1>5, <3>2 DEF IInv, AnswersInv, AnswersExact, AnswerExact
    <3> QED
      BY <3>1, <3>2
  <2>2. ASSUME NEW p \in 1 .. Len(vector)
        PROVE  vector'[p] # NoAnswer \/ (call'.op = "finalize" /\ p >= call'.place)
    <3>1. vector[p] # NoAnswer \/ p >= call.place
      BY <1>2, <1>4 DEF IInv, AnswersInv
    <3>2. CASE p = call.place
      BY <1>5, <3>2, NoAnswerAssumption
    <3>3. CASE p # call.place /\ p >= call.place
      <4>1. Len(call.targets) # 1 /\ p >= call.place + 1
        <5> SUFFICES ASSUME NEW k \in Nat \ {0}, NEW l \in Nat, NEW q \in 1 .. l,
                            p \in 1 .. l, q + k = l + 1, p # q, p >= q
                     PROVE  k # 1 /\ p >= q + 1
          BY <1>2, <3>3, Zenon
        <5> QED
          OBVIOUS
      <4> QED
        BY <1>6, <4>1
    <3>4. CASE p # call.place /\ vector[p] # NoAnswer
      BY <1>5, <3>4
    <3> QED
      BY <3>1, <3>2, <3>3, <3>4
  <2> QED
    BY <1>1, <1>2, <1>5, <2>1, <2>2 DEF AnswersInv
<1> QED
  BY <1>1, <1>2, <1>3, <1>7, <1>8, <1>9 DEF IInv

LEMMA FailFinalizeSafe ==
    ASSUME IInv, call.op = "finalize", OnlyCurrent, FailFinalize
    PROVE  IInv'
<1> USE DEF FailFinalize
<1>1. StatesInv' /\ status' \in [States -> Status]
  BY OthersHold
<1>2. NoCall \in Call
  BY DEF NoCall, Call
<1>3. TypeOK'
  BY <1>1, <1>2 DEF IInv, TypeOK, OnlyCurrent, Outcome
<1>4. CallInv'
  BY DEF NoCall, CallInv, UpdateInv, FinalizeInv
<1>5. AnswersInv'
  BY DEF IInv, AnswersInv, AnswersExact, AnswerExact
<1> QED
  BY <1>1, <1>3, <1>4, <1>5 DEF IInv

LEMMA ValueTyped ==
    ASSUME NEW rows \in Seq(Row)
    PROVE  Value(rows) \in Answer
<1> DEFINE Cells == Values \cup {Null} \cup Readings
<1>1. Row \subseteq [Columns -> Cells]
  BY DEF Row
<1>2. rows \in Seq([Columns -> Cells])
  <2> HIDE DEF Cells
  <2> QED
    BY <1>1
<1> QED
  BY <1>2 DEF Value, Answer

LEMMA FinalizeWasmSafe ==
    ASSUME IInv, FinalizeWasm
    PROVE  IInv'
<1>1. /\ call.op = "finalize" /\ kind # "delegating"
      /\ columns' = [columns EXCEPT ![Current] = Gutted]
      /\ rowMajor' = [rowMajor EXCEPT ![Current] = <<>>]
  BY DEF FinalizeWasm
<1>2. /\ Current \in States /\ status[Current] = "held"
      /\ asked[call.place] = GroupOf(Current)
  BY <1>1, DueGroup
<1>3. OnlyCurrent
  BY <1>1, <1>2 DEF IInv, TypeOK, OnlyCurrent
<1>4. CASE WriteAnswer(Value(RowsIn(Current)))
  <2>1. Current \notin robbed => RowsIn(Current) = given[Current]
    BY <1>2, InvariantMeans DEF StatesHoldTheirRows, Emptied
  <2>2. RowsIn(Current) \in Seq(Row)
    <3>1. CASE kind \in ColNative
      <4>1. PICK rows \in Seq(Row) : Holds(columns[Current], rows)
        BY <1>2, <3>1 DEF IInv, StatesInv, StateInv
      <4> QED
        BY <3>1, <4>1, HeldRowsSeen DEF RowsIn
    <3>2. CASE kind \notin ColNative
      BY <1>2, <3>2 DEF IInv, TypeOK, RowsIn
    <3> QED
      BY <3>1, <3>2
  <2>3. Value(RowsIn(Current)) \in Answer
    BY <2>2, ValueTyped
  <2>4. \/ asked[call.place].robbed
        \/ Value(RowsIn(Current)) = Value(asked[call.place].rows)
    <3>1. /\ GroupOf(Current).rows = given[Current]
          /\ GroupOf(Current).robbed <=> Current \in robbed
      BY DEF GroupOf
    <3> QED
      BY <1>2, <2>1, <3>1, Zenon
  <2> QED
    BY <1>1, <1>3, <1>4, <2>3, <2>4, AnsweredSafe
<1>5. CASE FailFinalize
  BY <1>1, <1>3, <1>5, FailFinalizeSafe
<1> QED
  BY <1>4, <1>5 DEF FinalizeWasm

LEMMA FinalizeDelegatingSafe ==
    ASSUME IInv, FinalizeDelegating
    PROVE  IInv'
<1>1. /\ call.op = "finalize" /\ kind = "delegating"
      /\ UNCHANGED <<columns, rowMajor>>
  BY DEF FinalizeDelegating
<1>2. /\ Current \in States /\ status[Current] = "held"
      /\ asked[call.place] = GroupOf(Current)
  BY <1>1, DueGroup
<1>3. OnlyCurrent
  BY <1>1 DEF IInv, TypeOK, OnlyCurrent
<1>4. CASE WriteAnswer(NullAnswer)
  <2>1. NullAnswer \in Answer
    BY DEF NullAnswer, Answer
  <2> QED
    BY <1>1, <1>3, <1>4, <2>1, AnsweredSafe
<1>5. CASE /\ Readable(DelegationQuery(rowMajor[Current]))
           /\ WriteAnswer(Delegated(rowMajor[Current]))
  <2> DEFINE rows == rowMajor[Current]
  <2>1. rows \in Seq(Row) /\ (Current \in robbed \/ rows = given[Current])
    BY <1>1, <1>2 DEF IInv, StatesInv, StateInv, TypeOK, ColNative, Emptied
  <2> HIDE DEF rows
  <2>2. /\ Delivers(Delegated(rows).of, rows) /\ Delegated(rows) \in Answer
    BY <1>5, <2>1, DelegationDelivers DEF Delegated, Value, rows
  <2>3. \/ asked[call.place].robbed
        \/ Delivers(Delegated(rows).of, asked[call.place].rows)
    <3>1. /\ GroupOf(Current).rows = given[Current]
          /\ GroupOf(Current).robbed <=> Current \in robbed
      BY DEF GroupOf
    <3> QED
      BY <1>2, <2>1, <2>2, <3>1, Zenon
  <2> QED
    BY <1>1, <1>3, <1>5, <2>2, <2>3, AnsweredSafe DEF rows
<1> QED
  BY <1>4, <1>5 DEF FinalizeDelegating

LEMMA NextSafe ==
    ASSUME IInv, [Next]_vars
    PROVE  IInv'
<1>1. ASSUME NEW s \in States, InitState(s) PROVE IInv'
  BY <1>1, InitStateSafe
<1>2. ASSUME Update PROVE IInv'
  BY <1>2, BeginUpdateSafe DEF Update
<1>3. ASSUME NEW under \in Values, AppendRows(under) PROVE IInv'
  BY <1>3, AppendRowsSafe
<1>4. ASSUME NEW s \in States, NEW t \in States, Combine(s, t) PROVE IInv'
  BY <1>4, CombineSafe
<1>5. ASSUME Finalize PROVE IInv'
  BY <1>5, BeginFinalizeSafe DEF Finalize
<1>6. ASSUME UNCHANGED vars PROVE IInv'
  <2> USE <1>6 DEF vars, IInv
  <2>1. TypeOK'
    BY DEF TypeOK
  <2>2. StatesInv'
    BY StatesStay
  <2>3. CallInv'
    BY DEF CallInv, UpdateInv, FinalizeInv, OneForAll, SingleState, GroupOf
  <2>4. AnswersInv'
    BY AnswersStay
  <2> QED
    BY <2>1, <2>2, <2>3, <2>4
<1> QED
  BY <1>1, <1>2, <1>3, <1>4, <1>5, <1>6, PushOneSafe, CrashSafe,
     FinalizeWasmSafe, FinalizeDelegatingSafe, EndQuerySafe, DestroySafe
  DEF Next, Dead

LEMMA Invariance == Spec => []IInv
<1>1. IInv /\ [Next]_vars => IInv'
  BY NextSafe
<1> QED
  BY <1>1, InitSafe, PTL DEF Spec

-----------------------------------------------------------------------------
(* Theorems *)

\* Every variable keeps its type: no callback leaves a state that is neither
\* the columns the registration declares nor what a merge leaves behind.
THEOREM AggregatesTyped == Spec => []TypeOK
<1>1. IInv => TypeOK
  BY DEF IInv
<1> QED
  BY <1>1, Invariance, PTL

\* Whatever chunks, fast paths, lazy masks and merges brought the rows there,
\* a state in use stands for exactly the rows that DuckDB put into it, unless
\* it took them from a component's state that a merge had emptied before.
THEOREM StatesWhole == Spec => []StatesHoldTheirRows
<1>1. IInv => StatesHoldTheirRows
  BY InvariantMeans
<1> QED
  BY <1>1, Invariance, PTL

\* An answer is computed from the rows of the group that DuckDB asked about at
\* its place, in a delegation as SQL reads the literals of constant columns, or
\* is the NULL of a delegation that failed.
THEOREM AnswersComputed == Spec => []AnswersExact
<1>1. IInv => AnswersExact
  BY InvariantMeans
<1> QED
  BY <1>1, Invariance, PTL

\* A query that ends without an error has an answer at every place.
THEOREM QueriesAnswered == Spec => []FinishedAnswered
<1>1. IInv => FinishedAnswered
  BY InvariantMeans
<1> QED
  BY <1>1, Invariance, PTL

=============================================================================
