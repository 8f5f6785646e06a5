----------------------------- MODULE SessionsMC -----------------------------
(***************************************************************************)
(* The instances of Sessions that TLC checks: a component that is loaded   *)
(* twice, and what its instances hand out.                                 *)
(***************************************************************************)
EXTENDS Sessions, TLC

LoadsMC == {1, 2}

\* Instances that do not share a number, and ones that count from 1.
Apart == <<{1, 2}, {3, 4}>>
FromOne == <<{1, 2}, {1, 2}>>

Symmetric == Permutations(Sessions)
=============================================================================
