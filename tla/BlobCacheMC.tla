---------------------------- MODULE BlobCacheMC -----------------------------
(***************************************************************************)
(* Instances of BlobCache for TLC.                                         *)
(***************************************************************************)
EXTENDS BlobCacheInv, TLC

\* Sound for the safety runs: processes, workers, digests and inodes are
\* interchangeable.
Symmetry ==
    Permutations(Processes) \cup Permutations(Workers)
        \cup Permutations(Names) \cup Permutations(Digests)
        \cup Permutations(Files)
=============================================================================
