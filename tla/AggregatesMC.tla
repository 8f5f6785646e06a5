---------------------------- MODULE AggregatesMC ----------------------------
(***************************************************************************)
(* The instance of Aggregates that TLC checks: DOUBLE arguments.  The      *)
(* first column has 0.0 and -0.0, which count as alike; the second NULL,   *)
(* whose literal has no type, and NaN, which is not alike itself and whose *)
(* literal SQL cannot read.                                                *)
(***************************************************************************)
EXTENDS Aggregates, TLC

CONSTANTS zero, minus, nan, integerZero, untypedNull

RowsMC == {<<minus, Null>>, <<zero, nan>>}

AlikeMC == {<<zero, zero>>, <<zero, minus>>, <<minus, zero>>, <<minus, minus>>,
            <<Null, Null>>}

LiteralMC ==
    (zero :> integerZero) @@ (minus :> integerZero) @@ (Null :> untypedNull)
        @@ (nan :> NoReading)

Symmetric == Permutations(States)
=============================================================================
