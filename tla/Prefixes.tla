------------------------------ MODULE Prefixes ------------------------------
(***************************************************************************)
(* Namespaces and prefixes (src/reg_duckdb.rs).  A native load of a        *)
(* community extension makes its functions callable under the names of the *)
(* catalog entry, bare and in the entry's namespace, a schema; a user may  *)
(* declare a prefix, a schema whose macros mirror those of a namespace.    *)
(* Declarations are kept in ducklink.prefixes and replayed by later loads. *)
(*                                                                         *)
(* Schemas, macros and the table are in the user's database: a file, which *)
(* outlives the process, or memory.  What runs here holds rt.con, so there *)
(* is one call at a time; each of its statements commits on its own, may   *)
(* fail, and may be the last one before the process dies.                  *)
(***************************************************************************)
EXTENDS FiniteSets, Naturals

CONSTANTS
    Entries,        \* entries of the catalog that are loaded as native
    NoEntry,
    Schemas,
    NoSchema,
    Functions,      \* names: the catalog's, and those in schemas
    Offer,          \* the functions each entry aliases: compute_alias_pairs
    AggregateNames, \* those of Functions that are aggregates
    NamespaceOf,    \* the namespace of each entry, or NoSchema
    Community,      \* entries with a community-native provider
    Declarations,   \* the (alias, namespace) pairs that users try
    MaxCalls,       \* bound on the calls of a behaviour
    MaxFailures,    \* bound on the statements that fail
    MaxExits        \* bound on the processes that end

ASSUME NoEntryAssumption == NoEntry \notin Entries
ASSUME NoSchemaAssumption == NoSchema \notin Schemas
ASSUME CatalogAssumption ==
    /\ Offer \in [Entries -> SUBSET Functions]
    /\ AggregateNames \subseteq Functions
    /\ NamespaceOf \in [Entries -> Schemas \cup {NoSchema}]
    /\ Community \subseteq Entries
ASSUME DeclarationsAssumption == Declarations \subseteq Schemas \X Schemas
ASSUME BoundsAssumption ==
    MaxCalls \in Nat /\ MaxFailures \in Nat /\ MaxExits \in Nat

VARIABLES
    inFile,     \* whether the database is a file
    main,       \* the macro of each bare name
    macros,     \* macros[s][f]: the macro s.f
    table,      \* ducklink.prefixes: the namespace of each alias
    loaded,     \* the entries whose extension this process has loaded
    delegates,  \* the entry behind each bare delegating aggregate
    flat,       \* flat[s][f]: that behind the aggregate <s>_<f>
    call,       \* the call that holds rt.con
    calls,
    failures,
    exits,
    declared,   \* history: the last declaration of each alias to succeed
    unkept      \* history: aliases whose last declaration was not recorded

database == <<main, macros, table>>
session == <<loaded, delegates, flat>>
history == <<declared, unkept>>
vars == <<inFile, database, session, call, calls, failures, exits, history>>

-----------------------------------------------------------------------------
(* Types *)

\* A macro calls the function of a community extension, by its own name; a
\* function of a schema; or is one that a wasm component brought.
Macro == [calls : {"community"}, of : Entries]
           \cup [calls : {"schema"}, of : Schemas]
           \cup [calls : {"component"}, of : {NoSchema}]
NoMacro == [calls |-> "none", of |-> NoSchema]
Alias(e) == [calls |-> "community", of |-> e]
Mirror(s) == [calls |-> "schema", of |-> s]
Component == [calls |-> "component", of |-> NoSchema]

Rows == [Schemas -> Schemas \cup {NoSchema}]
NoRows == [a \in Schemas |-> NoSchema]

\* todo: the pairs left to alias; rows: the prefixes left to replay.  alias,
\* namespace and names belong to create_prefix_aliases; created is whether it
\* made a macro.  clean (history): no statement of the call has failed.
Call == [op : {"none", "alias", "namespace", "replay", "mirror", "declare",
               "persist"},
         entry : Entries \cup {NoEntry}, todo : SUBSET Functions,
         rows : Rows, alias : Schemas \cup {NoSchema},
         namespace : Schemas \cup {NoSchema}, names : SUBSET Functions,
         created : BOOLEAN, clean : BOOLEAN]
NoCall == [op |-> "none", entry |-> NoEntry, todo |-> {}, rows |-> NoRows,
           alias |-> NoSchema, namespace |-> NoSchema, names |-> {},
           created |-> FALSE, clean |-> TRUE]

TypeOK ==
    /\ inFile \in BOOLEAN
    /\ main \in [Functions -> Macro \cup {NoMacro}]
    /\ macros \in [Schemas -> [Functions -> Macro \cup {NoMacro}]]
    /\ table \in Rows
    /\ loaded \in SUBSET Entries
    /\ delegates \in [Functions -> Entries \cup {NoEntry}]
    /\ flat \in [Schemas -> [Functions -> Entries \cup {NoEntry}]]
    /\ call \in Call
    /\ calls \in 0 .. MaxCalls
    /\ failures \in 0 .. MaxFailures
    /\ exits \in 0 .. MaxExits
    /\ declared \in Rows
    /\ unkept \in SUBSET Schemas

Init ==
    /\ inFile \in BOOLEAN
    /\ main = [f \in Functions |-> NoMacro]
    /\ macros = [s \in Schemas |-> [f \in Functions |-> NoMacro]]
    /\ table = NoRows
    /\ loaded = {}
    /\ delegates = [f \in Functions |-> NoEntry]
    /\ flat = [s \in Schemas |-> [f \in Functions |-> NoEntry]]
    /\ call = NoCall
    /\ calls = 0 /\ failures = 0 /\ exits = 0
    /\ declared = NoRows
    /\ unkept = {}

-----------------------------------------------------------------------------
(* The connection *)

Begins(c) ==
    /\ call = NoCall
    /\ calls < MaxCalls                                     \* bound
    /\ calls' = calls + 1
    /\ call' = c

\* A statement is refused: a lock, a conflict, a full disk.
Fails ==
    /\ failures < MaxFailures                               \* bound
    /\ failures' = failures + 1

\* Mutant: the names are the catalog's, not the schema's.
NamesInCatalog(s) == Functions

NamesIn(s) == {f \in Functions : macros[s][f] # NoMacro}

-----------------------------------------------------------------------------
(* Loads *)

\* native_load: the extension's own names and nothing else; no replay.
NativeLoad(e) ==
    /\ e \notin Community
    /\ Begins(NoCall)
    /\ loaded' = loaded \cup {e}
    /\ UNCHANGED <<inFile, database, delegates, flat, failures, exits, history>>

\* community_native_load: INSTALL and LOAD.  An error of these leaves nothing.
CommunityLoad(e) ==
    /\ e \in Community
    /\ Begins([NoCall EXCEPT !.op = "alias", !.entry = e, !.todo = Offer[e]])
    /\ loaded' = loaded \cup {e}
    /\ UNCHANGED <<inFile, database, delegates, flat, failures, exits, history>>

\* register_delegating_aggregate, under a name that DuckDB may have.
Registered(known, f, e) ==
    IF known[f] = NoEntry THEN [known EXCEPT ![f] = e] ELSE known

\* create_community_aliases, an aggregate: registered to delegate, and once
\* more as <namespace>_<name>.
AliasAggregate(f) ==
    LET e == call.entry
        s == NamespaceOf[e]
    IN /\ call.op = "alias" /\ f \in call.todo
       /\ f \in AggregateNames /\ delegates[f] = NoEntry
       /\ delegates' = Registered(delegates, f, e)
       /\ flat' = IF s = NoSchema THEN flat
                  ELSE [flat EXCEPT ![s] = Registered(@, f, e)]
       /\ call' = [call EXCEPT !.todo = @ \ {f}]
       /\ UNCHANGED <<inFile, database, loaded, calls, failures, exits, history>>

\* The others, and an aggregate that could not be registered, because it is
\* there already or has types that have no code: a macro, bare.  An error is
\* logged, and the next pair is due.
AliasBare(f) ==
    /\ call.op = "alias" /\ f \in call.todo
    /\ \/ /\ main' = [main EXCEPT ![f] = Alias(call.entry)]
          /\ call' = IF NamespaceOf[call.entry] = NoSchema
                     THEN [call EXCEPT !.todo = @ \ {f}]
                     ELSE [call EXCEPT !.op = "namespace", !.names = {f}]
          /\ UNCHANGED failures
       \/ /\ Fails
          /\ call' = [call EXCEPT !.todo = @ \ {f}, !.clean = FALSE]
          /\ UNCHANGED main
    /\ UNCHANGED <<inFile, macros, table, session, calls, exits, history>>

\* CREATE SCHEMA IF NOT EXISTS, and the macro in the namespace.
AliasInNamespace ==
    /\ call.op = "namespace"
    /\ \E f \in call.names :
         /\ \/ /\ macros' = [macros EXCEPT ![NamespaceOf[call.entry]][f] =
                                 Alias(call.entry)]
               /\ call' = [call EXCEPT !.op = "alias", !.todo = @ \ {f},
                                       !.names = {}]
               /\ UNCHANGED failures
            \/ /\ Fails
               /\ call' = [call EXCEPT !.op = "alias", !.todo = @ \ {f},
                                       !.names = {}, !.clean = FALSE]
               /\ UNCHANGED macros
    /\ UNCHANGED <<inFile, main, table, session, calls, exits, history>>

\* A scan of duckdb_functions() fails: so does the load, with no replay.
AliasesFail ==
    /\ call.op = "alias"
    /\ Fails
    /\ call' = NoCall
    /\ UNCHANGED <<inFile, database, session, calls, exits, history>>

-----------------------------------------------------------------------------
(* Replay *)

\* replay_persisted_prefixes: the rows as they are now, or none if they could
\* not be read.
BeginReplay ==
    /\ call.op = "alias" /\ call.todo = {}
    /\ \/ /\ call' = [call EXCEPT !.op = "replay", !.rows = table]
          /\ UNCHANGED failures
       \/ /\ Fails
          /\ call' = [call EXCEPT !.op = "replay", !.clean = FALSE]
    /\ UNCHANGED <<inFile, database, session, calls, exits, history>>

\* Mutant: a prefix that is there already is left as it is.
ReplayRowOnce(a) ==
    /\ call.op = "replay" /\ call.rows[a] # NoSchema
    /\ call' = IF NamesIn(a) # {} THEN [call EXCEPT !.rows[a] = NoSchema]
               ELSE [call EXCEPT !.op = "mirror", !.alias = a,
                                 !.namespace = call.rows[a],
                                 !.names = NamesIn(call.rows[a])]
    /\ UNCHANGED <<inFile, database, session, calls, failures, exits, history>>

\* create_prefix_aliases for one of them: the schema, and what the namespace
\* has.  An error is passed over.
ReplayRow(a) ==
    /\ call.op = "replay" /\ call.rows[a] # NoSchema
    /\ \/ /\ call' = [call EXCEPT !.op = "mirror", !.alias = a,
                          !.namespace = call.rows[a],
                          !.names = NamesIn(call.rows[a])]
          /\ UNCHANGED failures
       \/ /\ Fails
          /\ call' = [call EXCEPT !.rows[a] = NoSchema, !.clean = FALSE]
    /\ UNCHANGED <<inFile, database, session, calls, exits, history>>

\* The loop over the names, in a replay or a declaration.  CREATE OR REPLACE;
\* an error is logged and the next name is due.
MirrorOne(f) ==
    /\ call.op \in {"mirror", "declare"} /\ f \in call.names
    /\ \/ /\ macros' = [macros EXCEPT ![call.alias][f] = Mirror(call.namespace)]
          /\ call' = [call EXCEPT !.names = @ \ {f}, !.created = TRUE]
          /\ UNCHANGED failures
       \/ /\ Fails
          /\ call' = [call EXCEPT !.names = @ \ {f}, !.clean = FALSE]
          /\ UNCHANGED macros
    /\ UNCHANGED <<inFile, main, table, session, calls, exits, history>>

\* The row is done, or its scan failed half-way.
EndRow ==
    /\ call.op = "mirror"
    /\ LET next == [call EXCEPT !.op = "replay", !.rows[call.alias] = NoSchema,
                               !.alias = NoSchema, !.namespace = NoSchema,
                               !.names = {}, !.created = FALSE]
       IN \/ call.names = {} /\ call' = next /\ UNCHANGED failures
          \/ Fails /\ call' = [next EXCEPT !.clean = FALSE]
    /\ UNCHANGED <<inFile, database, session, calls, exits, history>>

Replayed == call.op = "replay" /\ call.rows = NoRows

EndLoad ==
    /\ Replayed
    /\ call' = NoCall
    /\ UNCHANGED <<inFile, database, session, calls, failures, exits, history>>

-----------------------------------------------------------------------------
(* Declarations: run_ducklink_prefix *)

Declare(a, s) ==
    /\ Begins([NoCall EXCEPT !.op = "declare", !.alias = a, !.namespace = s,
                             !.names = NamesIn(s)])
    /\ UNCHANGED <<inFile, database, session, failures, exits, history>>

\* Mutant: a namespace without functions is no error.
EndMirrorAlways ==
    /\ call.op = "declare" /\ call.names = {}
    /\ call' = [call EXCEPT !.op = "persist"]
    /\ UNCHANGED <<inFile, database, session, calls, failures, exits, history>>

\* No macro, or a scan that failed: an error.  Else the row is due.
EndMirror ==
    /\ call.op = "declare"
    /\ \/ /\ call.names = {}
          /\ call' = IF call.created THEN [call EXCEPT !.op = "persist"]
                     ELSE NoCall
          /\ UNCHANGED failures
       \/ Fails /\ call' = NoCall
    /\ UNCHANGED <<inFile, database, session, calls, exits, history>>

\* Mutant: INSERT OR IGNORE.
PersistFirst ==
    /\ call.op = "persist"
    /\ table' = [table EXCEPT ![call.alias] =
                    IF @ = NoSchema THEN call.namespace ELSE @]
    /\ unkept' = unkept \ {call.alias}
    /\ declared' = [declared EXCEPT ![call.alias] = call.namespace]
    /\ call' = NoCall
    /\ UNCHANGED <<inFile, main, macros, session, calls, failures, exits>>

\* persist_prefix, INSERT OR REPLACE: an error goes to the log only.
Persist ==
    /\ call.op = "persist"
    /\ \/ /\ table' = [table EXCEPT ![call.alias] = call.namespace]
          /\ unkept' = unkept \ {call.alias}
          /\ UNCHANGED failures
       \/ /\ Fails
          /\ unkept' = unkept \cup {call.alias}
          /\ UNCHANGED table
    /\ declared' = [declared EXCEPT ![call.alias] = call.namespace]
    /\ call' = NoCall
    /\ UNCHANGED <<inFile, main, macros, session, calls, exits>>

-----------------------------------------------------------------------------
(* Others *)

\* register_macros, at the end of a load of a wasm component, which may name
\* any schema.
RegisterMacro(s, f) ==
    /\ Begins(NoCall)
    /\ macros' = [macros EXCEPT ![s][f] = Component]
    /\ UNCHANGED <<inFile, main, table, session, failures, exits, history>>

\* The process ends, at rest or in the middle of a call, and another starts.
Exit ==
    /\ exits < MaxExits                                     \* bound
    /\ exits' = exits + 1
    /\ loaded' = {}
    /\ delegates' = [f \in Functions |-> NoEntry]
    /\ flat' = [s \in Schemas |-> [f \in Functions |-> NoEntry]]
    /\ call' = NoCall
    /\ IF inFile THEN UNCHANGED <<database, history>>
       ELSE /\ main' = [f \in Functions |-> NoMacro]
            /\ macros' = [s \in Schemas |-> [f \in Functions |-> NoMacro]]
            /\ table' = NoRows /\ declared' = NoRows /\ unkept' = {}
    /\ UNCHANGED <<inFile, calls, failures>>

\* The bound on the calls is reached.
AtRest ==
    /\ call = NoCall /\ calls = MaxCalls
    /\ UNCHANGED vars

Next ==
    \/ \E e \in Entries : NativeLoad(e) \/ CommunityLoad(e)
    \/ \E f \in Functions : AliasAggregate(f) \/ AliasBare(f) \/ MirrorOne(f)
    \/ AliasInNamespace
    \/ AliasesFail
    \/ BeginReplay
    \/ \E a \in Schemas : ReplayRow(a)
    \/ EndRow
    \/ EndLoad
    \/ \E d \in Declarations : Declare(d[1], d[2])
    \/ EndMirror
    \/ Persist
    \/ \E s \in Schemas, f \in Functions : RegisterMacro(s, f)
    \/ Exit
    \/ AtRest

Spec == Init /\ [][Next]_vars

-----------------------------------------------------------------------------
(* Properties *)

\* What a chain of at most n macros leads to a function.
Reaching[n \in Nat] ==
    IF n = 0 THEN {}
    ELSE {p \in Schemas \X Functions :
            LET m == macros[p[1]][p[2]]
            IN \/ m.calls \in {"community", "component"}
               \/ m.calls = "schema" /\ <<m.of, p[2]>> \in Reaching[n - 1]}

\* A macro never mirrors one that is not there, nor itself, through however
\* many prefixes of prefixes: it leads to a function.
AliasesLead ==
    \A s \in Schemas, f \in Functions : macros[s][f] # NoMacro =>
        <<s, f>> \in Reaching[Cardinality(Schemas)]

\* A prefix that is kept for later sessions has been one that was of use.
KeptPrefixesServe ==
    \A a \in Schemas : table[a] # NoSchema => NamesIn(a) # {}

\* A load that returns after a replay without errors leaves each kept prefix
\* with all that its namespace has.  Not one whose namespace is a prefix too:
\* its turn may come before the namespace's.
ReplayMirrors ==
    Replayed /\ call.clean =>
        \A a \in Schemas :
            table[a] # NoSchema /\ table[table[a]] = NoSchema =>
                \A f \in NamesIn(table[a]) : macros[a][f] = Mirror(table[a])

\* A load turns a prefix to no other namespace than the one that was declared
\* for it last, now or in an earlier session, if that was recorded.
DeclarationsStick ==
    [][call.op = "mirror" =>
         \A a \in Schemas \ unkept, f \in Functions :
            macros'[a][f] \in {macros[a][f], NoMacro, Mirror(declared[a])}]_vars
=============================================================================
