------------------------------ MODULE EngineMC ------------------------------
(***************************************************************************)
(* Instances of Engine for TLC: the sets are model values given in the     *)
(* configurations, and what is interchangeable in them is declared so.     *)
(***************************************************************************)
EXTENDS EngineInv, TLC

\* Sound for the safety runs: no definition singles out a thread, an instance
\* or an extension.
Symmetry ==
    Permutations(Threads) \cup Permutations(Instances)
        \cup Permutations(Extensions)
=============================================================================
