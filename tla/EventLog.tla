------------------------------ MODULE EventLog ------------------------------
(***************************************************************************)
(* The process-wide event log (src/events.rs): a ring of the last          *)
(* MaxEvents events and the counter their numbers come from.  Both are     *)
(* read and written under one mutex, so the log is a value here and each   *)
(* of its operations an operator.                                          *)
(***************************************************************************)
EXTENDS Naturals, Sequences

CONSTANT MaxEvents   \* MAX_EVENTS, 1024 in the code

ASSUME MaxEventsAssumption == MaxEvents \in Nat \ {0}

EmptyLog == [next_seq |-> 0, events |-> <<>>]

\* Mutant: the ring evicts at its end, the newest event goes.
EmitEvictingNewest(log, kind, module) ==
    LET n == Len(log.events)
        kept == IF n < MaxEvents THEN log.events
                                 ELSE SubSeq(log.events, 1, n - 1)
    IN [next_seq |-> log.next_seq + 1,
        events   |-> Append(kept, [seq    |-> log.next_seq,
                                   kind   |-> kind,
                                   module |-> module])]

\* emit: the oldest event makes room for the new one.  The counter is a u64
\* and does not wrap in the life of a process.
Emit(log, kind, module) ==
    LET kept == IF Len(log.events) < MaxEvents THEN log.events
                                               ELSE Tail(log.events)
    IN [next_seq |-> log.next_seq + 1,
        events   |-> Append(kept, [seq    |-> log.next_seq,
                                   kind   |-> kind,
                                   module |-> module])]

\* "an evicted-then-queried gap is visible as a jump in `seq`": what a
\* snapshot holds is the newest events, each at its number.
Newest(log) ==
    /\ Len(log.events) <= MaxEvents
    /\ Len(log.events) <= log.next_seq
    /\ log.next_seq > 0 => log.events # <<>>
    /\ \A i \in 1 .. Len(log.events) :
         log.events[i].seq + Len(log.events) = log.next_seq + i - 1
=============================================================================
