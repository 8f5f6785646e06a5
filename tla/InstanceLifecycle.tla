------------------------- MODULE InstanceLifecycle --------------------------
(***************************************************************************)
(* What the engine promises about a component instance, without threads'   *)
(* program counters, reference counts or registry: an extension name has   *)
(* at most one current instance; an instance serves one thread at a time,  *)
(* from the moment it is published until it is retired; it is retired once *)
(* it is neither current nor serving, and its guest's shutdown runs once.  *)
(***************************************************************************)
CONSTANTS Extensions, Instances, NoInstance, Threads, NoThread

VARIABLES
    current,   \* extension -> the instance new calls reach, or NoInstance
    phase,     \* instance -> "fresh", "active", "retiring", "retired"
    serving    \* instance -> the thread it serves, or NoThread

vars == <<current, phase, serving>>

Init ==
    /\ current = [e \in Extensions |-> NoInstance]
    /\ phase = [i \in Instances |-> "fresh"]
    /\ serving = [i \in Instances |-> NoThread]

\* A loaded instance takes over a name.  The one it replaces may go on
\* serving, but the name no longer leads to it.
Publish(e, i) ==
    /\ phase[i] = "fresh"
    /\ phase' = [phase EXCEPT ![i] = "active"]
    /\ current' = [current EXCEPT ![e] = i]
    /\ UNCHANGED serving

Serve(t, i) ==
    /\ phase[i] = "active"
    /\ serving[i] = NoThread
    /\ serving' = [serving EXCEPT ![i] = t]
    /\ UNCHANGED <<current, phase>>

Served(t, i) ==
    /\ serving[i] = t
    /\ serving' = [serving EXCEPT ![i] = NoThread]
    /\ UNCHANGED <<current, phase>>

\* The guest's shutdown begins, and ends.
Retire(i) ==
    /\ phase[i] = "active"
    /\ serving[i] = NoThread
    /\ \A e \in Extensions : current[e] # i
    /\ phase' = [phase EXCEPT ![i] = "retiring"]
    /\ UNCHANGED <<current, serving>>

Retired(i) ==
    /\ phase[i] = "retiring"
    /\ phase' = [phase EXCEPT ![i] = "retired"]
    /\ UNCHANGED <<current, serving>>

Next ==
    \E i \in Instances :
        \/ \E e \in Extensions : Publish(e, i)
        \/ \E t \in Threads : Serve(t, i) \/ Served(t, i)
        \/ Retire(i)
        \/ Retired(i)

Spec == Init /\ [][Next]_vars
=============================================================================
