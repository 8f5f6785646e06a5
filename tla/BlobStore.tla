----------------------------- MODULE BlobStore ------------------------------
(***************************************************************************)
(* What the blob cache promises the threads that ask it for blobs, without *)
(* files, blocks, catalogs or program counters: a blob enters the store    *)
(* whole and stays; only a caller that found it missing fetches it, and    *)
(* one caller at a time; a caller holds a blob only when it is stored.     *)
(* A caller may leave at any time: it has read the blob, its fetch failed  *)
(* or its process died.                                                    *)
(***************************************************************************)
CONSTANTS Callers, Paths, NoPath

VARIABLES
    stored,     \* the blobs a reader would find whole
    wants,      \* caller -> the blob it asked for, or NoPath
    fetching,   \* callers that fetch theirs
    holds       \* callers that were given theirs

vars == <<stored, wants, fetching, holds>>

Init ==
    /\ stored = {}
    /\ wants = [c \in Callers |-> NoPath]
    /\ fetching = {}
    /\ holds = {}

Ask(c, x) ==
    /\ wants[c] = NoPath
    /\ wants' = [wants EXCEPT ![c] = x]
    /\ UNCHANGED <<stored, fetching, holds>>

Hit(c) ==
    /\ wants[c] \in stored
    /\ c \notin fetching
    /\ holds' = holds \cup {c}
    /\ UNCHANGED <<stored, wants, fetching>>

StartFetch(c) ==
    /\ wants[c] \in Paths \ stored
    /\ fetching = {}
    /\ c \notin holds
    /\ fetching' = {c}
    /\ UNCHANGED <<stored, wants, holds>>

Fetched(c) ==
    /\ c \in fetching
    /\ wants[c] \in Paths \ stored
    /\ stored' = stored \cup {wants[c]}
    /\ fetching' = fetching \ {c}
    /\ holds' = holds \cup {c}
    /\ UNCHANGED wants

Leave(gone) ==
    /\ wants' = [c \in Callers |-> IF c \in gone THEN NoPath ELSE wants[c]]
    /\ fetching' = fetching \ gone
    /\ holds' = holds \ gone
    /\ UNCHANGED stored

Next ==
    \/ \E c \in Callers :
         \/ \E x \in Paths : Ask(c, x)
         \/ Hit(c)
         \/ StartFetch(c)
         \/ Fetched(c)
    \/ \E gone \in SUBSET Callers : Leave(gone)

Spec == Init /\ [][Next]_vars
=============================================================================
