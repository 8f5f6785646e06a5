---------------------------- MODULE VectorCallsMC ----------------------------
(***************************************************************************)
(* The instance of VectorCalls that TLC checks: functions by columns with  *)
(* no, one and two arguments, one of them with a wide result and one with  *)
(* lists; an overloaded function and a scalar-ex function by rows, a cast, *)
(* and a table function with a parameter that cannot be bound.  A byte has *)
(* two bits, so three rows need two bytes, and one row leaves a bit of the *)
(* first unused.                                                           *)
(***************************************************************************)
EXTENDS VectorCalls, TLC

CONSTANTS pi, upper, divide, flatten, over, ex, cast, range, int, uuid, list

SurfaceMC == (ex :> "scalar_ex") @@ (cast :> "cast") @@ (range :> "table")
               @@ [f \in {pi, upper, divide, flatten, over} |-> "scalar"]
TakesMC == (pi :> <<>>) @@ (upper :> <<int>>) @@ (divide :> <<int, uuid>>)
             @@ (flatten :> <<list>>) @@ (over :> <<int>>)
             @@ (ex :> <<list, int>>) @@ (cast :> <<uuid>>)
             @@ (range :> <<int, uuid>>)
ReturnsMC == (divide :> uuid) @@ (flatten :> list)
               @@ [f \in Functions |-> int]

MasksMC == {<<>>, <<TRUE, FALSE>>, <<FALSE, TRUE>>,
            <<TRUE, TRUE, TRUE, FALSE>>, <<TRUE, TRUE, FALSE, TRUE>>}
=============================================================================
