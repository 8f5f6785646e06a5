-------------------------- MODULE CallbackRegistry --------------------------
(***************************************************************************)
(* The host's callback registry (runtime/src/lib.rs, CallbackRegistry):    *)
(* the table that turns the integer DuckDB passes back on every invocation *)
(* into the component that must serve it.  The registry is a value here,   *)
(* the pair of its two fields next_handle and entries; the engine holds it *)
(* in two variables and applies these operators under its lock.            *)
(*                                                                         *)
(* A slot's dispatcher_handle is a number in the private table of the      *)
(* guest instance that allocated it.  What the properties tell apart is    *)
(* WHOSE table the number indexes, so the field holds that instance.       *)
(***************************************************************************)
EXTENDS Naturals

CONSTANTS
    Extensions,   \* names components are loaded under
    Instances,    \* component instances, one per call of Engine2::load
    NoInstance,   \* a Weak that was never populated
    NoEntry,      \* a slot holding None
    MaxHandle     \* the largest handle (u32::MAX in the code)

ASSUME MaxHandleAssumption == MaxHandle \in Nat \ {0}
ASSUME NoInstanceAssumption == NoInstance \notin Instances

Handles == 1 .. MaxHandle

\* CallbackEntry, without `kind`: no dispatch reads it.
Entry == [extension  : Extensions,
          dispatcher : Instances,
          instance   : Instances \cup {NoInstance}]

ASSUME NoEntryAssumption == NoEntry \notin Entry

\* CallbackRegistry::new, with every slot of the Vec that does not exist yet
\* shown as an empty one: resolve answers None for both.
NewEntries == [h \in Handles |-> NoEntry]
FirstHandle == 1

\* next_handle.wrapping_add(1).max(1)
NextHandle(h) == IF h = MaxHandle THEN 1 ELSE h + 1

\* allocate: the slot is overwritten whatever it held, its Weak is empty.
Allocate(entries, h, ext, dispatcher) ==
    [entries EXCEPT ![h] = [extension  |-> ext,
                            dispatcher |-> dispatcher,
                            instance   |-> NoInstance]]

\* remove: None is left in place, the handle is not given out again.
Remove(entries, h) == [entries EXCEPT ![h] = NoEntry]

\* Mutants of Link: the name is not compared; a Weak once set is kept.
LinkAll(entries, ext, inst) ==
    [h \in Handles |->
        IF entries[h] # NoEntry THEN [entries[h] EXCEPT !.instance = inst]
                                ELSE NoEntry]
LinkOnce(entries, ext, inst) ==
    [h \in Handles |->
        IF /\ entries[h] # NoEntry
           /\ entries[h].extension = ext
           /\ entries[h].instance = NoInstance
        THEN [entries[h] EXCEPT !.instance = inst]
        ELSE entries[h]]

\* link_extension_instance: every slot of the extension, those left by its
\* earlier loads included, points to `inst`.
Link(entries, ext, inst) ==
    [h \in Handles |->
        IF entries[h] # NoEntry /\ entries[h].extension = ext
        THEN [entries[h] EXCEPT !.instance = inst]
        ELSE entries[h]]
=============================================================================
