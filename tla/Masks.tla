-------------------------------- MODULE Masks --------------------------------
(***************************************************************************)
(* Validity masks (src/reg_duckdb.rs): one bit per row, in whole bytes; a  *)
(* bit that is clear makes its row NULL.  The empty mask says that no row  *)
(* is.  A reader takes a bit past the end for a one.                       *)
(***************************************************************************)
EXTENDS Integers, Sequences

CONSTANT ByteBits    \* bits to a byte of a mask; 8 in the code

ASSUME ByteBitsAssumption == ByteBits \in Nat \ {0}

Bit(mask, i) == i \in DOMAIN mask => mask[i]

WholeBytes(n) == ByteBits * ((n + ByteBits - 1) \div ByteBits)

\* A mask that covers n rows at least, grown by bytes of ones.
Covering(mask, n) ==
    IF Len(mask) >= WholeBytes(n) THEN mask
    ELSE [i \in 1 .. WholeBytes(n) |-> Bit(mask, i)]

\* Positions base + 1 .. base + Len(nulls) are cleared where nulls says so.
Cleared(mask, base, nulls) ==
    [i \in DOMAIN mask |->
        mask[i] /\ ~(i - base \in DOMAIN nulls /\ nulls[i - base])]

\* A mask that does not exist yet is made when the first NULL comes.
Grown(mask, base, nulls) ==
    IF \E i \in DOMAIN nulls : nulls[i]
    THEN Cleared(Covering(mask, base + Len(nulls)), base, nulls)
    ELSE mask
=============================================================================
