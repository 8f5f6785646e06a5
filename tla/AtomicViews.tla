---------------------------- MODULE AtomicViews -----------------------------
(***************************************************************************)
(* What a documentation view promises, without cache, generations or       *)
(* mutex: a load becomes visible at one instant between the write of its   *)
(* record and its return, and a read answers with all that is visible at   *)
(* one instant between its begin and its end.                              *)
(***************************************************************************)
EXTENDS Naturals

CONSTANTS Threads, Names, Values

VARIABLES
    latest,     \* name -> the newest value written
    visible,    \* name -> the value a read would answer with
    phase,      \* thread -> "idle", "loading", "reading", "answered"
    load,       \* thread -> name and value of its load
    answer      \* thread -> what its read answers

vars == <<latest, visible, phase, load, answer>>

Nothing == [n \in Names |-> 0]
NoLoad == <<>>

Init ==
    /\ latest = Nothing
    /\ visible = Nothing
    /\ phase = [t \in Threads |-> "idle"]
    /\ load = [t \in Threads |-> NoLoad]
    /\ answer = [t \in Threads |-> Nothing]

BeginLoad(t, n, v) ==
    /\ phase[t] = "idle"
    /\ v >= latest[n]
    /\ latest' = [latest EXCEPT ![n] = v]
    /\ phase' = [phase EXCEPT ![t] = "loading"]
    /\ load' = [load EXCEPT ![t] = <<n, v>>]
    /\ UNCHANGED <<visible, answer>>

\* A load that returns is visible.
EndLoad(t) ==
    /\ phase[t] = "loading"
    /\ visible' = [n \in Names |->
                     IF n = load[t][1] /\ load[t][2] > visible[n]
                     THEN load[t][2] ELSE visible[n]]
    /\ phase' = [phase EXCEPT ![t] = "idle"]
    /\ load' = [load EXCEPT ![t] = NoLoad]
    /\ UNCHANGED <<latest, answer>>

BeginRead(t) ==
    /\ phase[t] = "idle"
    /\ phase' = [phase EXCEPT ![t] = "reading"]
    /\ UNCHANGED <<latest, visible, load, answer>>

\* Loads of some names become visible, and the read sees what is visible.
Answer(t) ==
    /\ phase[t] = "reading"
    /\ \E appearing \in SUBSET Names :
         visible' = [n \in Names |-> IF n \in appearing THEN latest[n]
                                     ELSE visible[n]]
    /\ answer' = [answer EXCEPT ![t] = visible']
    /\ phase' = [phase EXCEPT ![t] = "answered"]
    /\ UNCHANGED <<latest, load>>

EndRead(t) ==
    /\ phase[t] = "answered"
    /\ answer' = [answer EXCEPT ![t] = Nothing]
    /\ phase' = [phase EXCEPT ![t] = "idle"]
    /\ UNCHANGED <<latest, visible, load>>

Next ==
    \E t \in Threads :
        \/ \E n \in Names, v \in Values : BeginLoad(t, n, v)
        \/ EndLoad(t)
        \/ BeginRead(t) \/ Answer(t) \/ EndRead(t)

Spec == Init /\ [][Next]_vars
=============================================================================
