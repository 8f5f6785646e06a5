---------------------------- MODULE DocCacheMC ------------------------------
(***************************************************************************)
(* Instances of DocCache for TLC.                                          *)
(***************************************************************************)
EXTENDS DocCacheInv, TLC

\* Sound for these safety runs: threads and names are interchangeable.
Symmetry == Permutations(Threads) \cup Permutations(Names)
=============================================================================
