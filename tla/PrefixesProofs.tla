--------------------------- MODULE PrefixesProofs ---------------------------
(***************************************************************************)
(* Proofs about Prefixes, for any catalog, any declarations and any number *)
(* of calls, of failing statements and of processes that end: what the     *)
(* table of prefixes and the macros have to do with one another.           *)
(***************************************************************************)
EXTENDS Prefixes, TLAPS, WellFoundedInduction, FiniteSetTheorems

-----------------------------------------------------------------------------
(* The inductive invariant *)

\* What is in the record of the call, by its operation.
CallInv ==
    /\ call.op \in {"alias", "namespace"} => call.entry \in Entries
    /\ call.op = "namespace" =>
        NamespaceOf[call.entry] \in Schemas /\ call.names \subseteq Functions
    /\ call.op \in {"mirror", "declare", "persist"} =>
        call.alias \in Schemas /\ call.namespace \in Schemas
    /\ call.op \in {"mirror", "declare"} =>
        call.names \subseteq NamesIn(call.namespace)
    /\ call.op \in {"declare", "persist"} /\ call.created =>
        NamesIn(call.alias) # {}
    /\ call.op = "persist" => call.created

\* A declaration that was recorded is the one in the table.
RecordedInv == \A a \in Schemas \ unkept : table[a] = declared[a]

\* The rows that are left to replay are rows of the table.
RowsInv ==
    /\ \A a \in Schemas : call.rows[a] \in {NoSchema, table[a]}
    /\ call.op = "mirror" =>
        /\ call.namespace = table[call.alias]
        /\ call.rows[call.alias] = table[call.alias]

\* A is a prefix of a namespace that is not a prefix itself.
IsPlain(a) == table[a] # NoSchema /\ table[table[a]] = NoSchema

\* As long as no statement has failed, the rows that are done are mirrored,
\* and so are the names of the row in hand that are done.
ProgressInv ==
    /\ call.op \in {"replay", "mirror"} /\ call.clean =>
        \A a \in Schemas : IsPlain(a) /\ call.rows[a] = NoSchema =>
            \A f \in NamesIn(table[a]) : macros[a][f] = Mirror(table[a])
    /\ call.op = "mirror" /\ call.clean /\ IsPlain(call.alias) =>
        \A f \in NamesIn(call.namespace) \ call.names :
            macros[call.alias][f] = Mirror(call.namespace)

\* What a macro mirrors is there.
MirrorsFind ==
    \A s \in Schemas, f \in Functions : macros[s][f].calls = "schema" =>
        macros[macros[s][f].of][f] # NoMacro

IInv ==
    /\ TypeOK
    /\ CallInv
    /\ RecordedInv
    /\ RowsInv
    /\ ProgressInv
    /\ KeptPrefixesServe
    /\ MirrorsFind

LEMMA InitSafe == Init => IInv
<1> SUFFICES ASSUME Init PROVE IInv
  OBVIOUS
<1> USE DEF Init
<1>1. TypeOK
  BY BoundsAssumption DEF TypeOK, NoMacro, NoRows, Rows, NoCall, Call
<1>2. CallInv /\ RowsInv /\ ProgressInv
  BY DEF CallInv, RowsInv, ProgressInv, NoCall, NoRows
<1>3. RecordedInv /\ KeptPrefixesServe
  BY DEF RecordedInv, KeptPrefixesServe, NoRows
<1>4. MirrorsFind
  BY DEF MirrorsFind, NoMacro
<1> QED
  BY <1>1, <1>2, <1>3, <1>4 DEF IInv

-----------------------------------------------------------------------------
(* Types *)

LEMMA MacrosTyped ==
    ASSUME TypeOK, NEW s \in Schemas, NEW f \in Functions, NEW m \in Macro
    PROVE  [macros EXCEPT ![s][f] = m]
               \in [Schemas -> [Functions -> Macro \cup {NoMacro}]]
BY DEF TypeOK

LEMMA MacroKinds ==
    /\ \A e \in Entries : Alias(e) \in Macro
    /\ \A s \in Schemas : Mirror(s) \in Macro
    /\ Component \in Macro
BY DEF Macro, Alias, Mirror, Component

LEMMA TypesKept == ASSUME TypeOK, CallInv, [Next]_vars PROVE TypeOK'
<1> USE BoundsAssumption DEF database, session, history, vars
<1>0. call \in Call /\ NoCall \in Call /\ NoRows \in Rows
  BY DEF TypeOK, Call, NoCall, NoRows, Rows
<1>1. CASE UNCHANGED vars
  BY <1>1 DEF TypeOK
<1>2. ASSUME NEW e \in Entries, NativeLoad(e) PROVE TypeOK'
  BY <1>0, <1>2 DEF TypeOK, NativeLoad, Begins
<1>3. ASSUME NEW e \in Entries, CommunityLoad(e) PROVE TypeOK'
  <2>1. [NoCall EXCEPT !.op = "alias", !.entry = e, !.todo = Offer[e]] \in Call
    BY CatalogAssumption DEF NoCall, Call, NoRows, Rows
  <2> QED
    BY <1>3, <2>1 DEF TypeOK, CommunityLoad, Begins
<1>4. ASSUME NEW f \in Functions, AliasAggregate(f) PROVE TypeOK'
  <2>1. call.entry \in Entries /\ NamespaceOf[call.entry] \in Schemas \cup {NoSchema}
    BY <1>4, CatalogAssumption DEF AliasAggregate, CallInv
  <2>2. call' \in Call
    BY <1>0, <1>4 DEF AliasAggregate, Call
  <2>3. delegates' \in [Functions -> Entries \cup {NoEntry}]
    BY <1>4, <2>1 DEF TypeOK, AliasAggregate, Registered
  <2>4. flat' \in [Schemas -> [Functions -> Entries \cup {NoEntry}]]
    BY <1>4, <2>1 DEF TypeOK, AliasAggregate, Registered
  <2> QED
    BY <1>4, <2>2, <2>3, <2>4 DEF TypeOK, AliasAggregate
<1>5. ASSUME NEW f \in Functions, AliasBare(f) PROVE TypeOK'
  <2>1. call.entry \in Entries
    BY <1>5 DEF AliasBare, CallInv
  <2>2. /\ [call EXCEPT !.todo = @ \ {f}] \in Call
        /\ [call EXCEPT !.op = "namespace", !.names = {f}] \in Call
        /\ [call EXCEPT !.todo = @ \ {f}, !.clean = FALSE] \in Call
    BY <1>0 DEF Call
  <2>3. call' \in Call
    BY <1>5, <2>2 DEF AliasBare
  <2>4. main' \in [Functions -> Macro \cup {NoMacro}]
    BY <1>5, <2>1, MacroKinds DEF TypeOK, AliasBare
  <2> QED
    BY <1>5, <2>3, <2>4 DEF TypeOK, AliasBare, Fails
<1>6. CASE AliasInNamespace
  <2>1. /\ call.entry \in Entries /\ NamespaceOf[call.entry] \in Schemas
        /\ call.names \subseteq Functions
    BY <1>6 DEF AliasInNamespace, CallInv
  <2>2. PICK f \in call.names :
            \/ /\ macros' = [macros EXCEPT ![NamespaceOf[call.entry]][f] =
                                Alias(call.entry)]
               /\ call' = [call EXCEPT !.op = "alias", !.todo = @ \ {f},
                                       !.names = {}]
               /\ UNCHANGED failures
            \/ /\ Fails
               /\ call' = [call EXCEPT !.op = "alias", !.todo = @ \ {f},
                                       !.names = {}, !.clean = FALSE]
               /\ UNCHANGED macros
    BY <1>6 DEF AliasInNamespace
  <2>3. /\ [call EXCEPT !.op = "alias", !.todo = @ \ {f}, !.names = {}] \in Call
        /\ [call EXCEPT !.op = "alias", !.todo = @ \ {f}, !.names = {},
                        !.clean = FALSE] \in Call
    BY <1>0 DEF Call
  <2>4. macros' \in [Schemas -> [Functions -> Macro \cup {NoMacro}]]
    <3>1. Alias(call.entry) \in Macro /\ f \in Functions
      BY <2>1, MacroKinds
    <3>2. [macros EXCEPT ![NamespaceOf[call.entry]][f] = Alias(call.entry)]
            \in [Schemas -> [Functions -> Macro \cup {NoMacro}]]
      BY <2>1, <3>1, MacrosTyped
    <3>3. macros \in [Schemas -> [Functions -> Macro \cup {NoMacro}]]
      BY DEF TypeOK
    <3> QED
      BY <2>2, <3>2, <3>3
  <2>5. call' \in Call /\ failures' \in 0 .. MaxFailures
    BY <2>2, <2>3 DEF Fails, TypeOK
  <2> QED
    BY <1>6, <2>4, <2>5 DEF TypeOK, AliasInNamespace
<1>7. CASE AliasesFail
  BY <1>0, <1>7 DEF TypeOK, AliasesFail, Fails
<1>8. CASE BeginReplay
  <2>1. /\ [call EXCEPT !.op = "replay", !.rows = table] \in Call
        /\ [call EXCEPT !.op = "replay", !.clean = FALSE] \in Call
    BY <1>0 DEF Call, TypeOK
  <2>2. call' \in Call
    BY <1>8, <2>1 DEF BeginReplay
  <2> QED
    BY <1>8, <2>2 DEF TypeOK, BeginReplay, Fails
<1>9. ASSUME NEW a \in Schemas, ReplayRow(a) PROVE TypeOK'
  <2>1. NamesIn(call.rows[a]) \subseteq Functions
        /\ call.rows[a] \in Schemas \cup {NoSchema}
    BY <1>0 DEF NamesIn, Call, Rows
  <2>2. [call EXCEPT !.op = "mirror", !.alias = a, !.namespace = call.rows[a],
                     !.names = NamesIn(call.rows[a])] \in Call
    BY <1>0, <2>1 DEF Call
  <2>3. [call EXCEPT !.rows[a] = NoSchema, !.clean = FALSE] \in Call
    BY <1>0 DEF Call, Rows
  <2> QED
    BY <1>9, <2>2, <2>3 DEF TypeOK, ReplayRow, Fails
<1>10. ASSUME NEW f \in Functions, MirrorOne(f) PROVE TypeOK'
  <2>1. call.alias \in Schemas /\ call.namespace \in Schemas
    BY <1>10 DEF MirrorOne, CallInv
  <2>2. call' \in Call
    BY <1>0, <1>10, ZenonT(30) DEF MirrorOne, Call
  <2>3. macros' \in [Schemas -> [Functions -> Macro \cup {NoMacro}]]
    <3>1. Mirror(call.namespace) \in Macro
      BY <2>1, MacroKinds
    <3>2. [macros EXCEPT ![call.alias][f] = Mirror(call.namespace)]
            \in [Schemas -> [Functions -> Macro \cup {NoMacro}]]
      BY <2>1, <3>1, MacrosTyped
    <3>3. macros \in [Schemas -> [Functions -> Macro \cup {NoMacro}]]
      BY DEF TypeOK
    <3> QED
      BY <1>10, <3>2, <3>3 DEF MirrorOne
  <2> QED
    BY <1>10, <2>2, <2>3 DEF TypeOK, MirrorOne, Fails
<1>11. CASE EndRow
  <2> DEFINE next == [call EXCEPT !.op = "replay",
                        !.rows[call.alias] = NoSchema, !.alias = NoSchema,
                        !.namespace = NoSchema, !.names = {},
                        !.created = FALSE]
  <2>1. next \in Call /\ [next EXCEPT !.clean = FALSE] \in Call
    BY <1>0 DEF Call, Rows
  <2>2. call' \in {next, [next EXCEPT !.clean = FALSE]}
    BY <1>11 DEF EndRow
  <2> QED
    BY <1>11, <2>1, <2>2 DEF TypeOK, EndRow, Fails
<1>12. CASE EndLoad
  BY <1>0, <1>12 DEF TypeOK, EndLoad
<1>13. ASSUME NEW d \in Declarations, Declare(d[1], d[2]) PROVE TypeOK'
  <2>1. d[1] \in Schemas /\ d[2] \in Schemas
    BY DeclarationsAssumption
  <2>2. [NoCall EXCEPT !.op = "declare", !.alias = d[1], !.namespace = d[2],
                       !.names = NamesIn(d[2])] \in Call
    BY <2>1 DEF NoCall, Call, NoRows, Rows, NamesIn
  <2> QED
    BY <1>13, <2>2 DEF TypeOK, Declare, Begins
<1>14. CASE EndMirror
  <2>1. [call EXCEPT !.op = "persist"] \in Call
    BY <1>0 DEF Call
  <2> QED
    BY <1>0, <1>14, <2>1 DEF TypeOK, EndMirror, Fails
<1>15. CASE Persist
  <2>1. call.alias \in Schemas /\ call.namespace \in Schemas
    BY <1>15 DEF Persist, CallInv
  <2> QED
    BY <1>0, <1>15, <2>1 DEF TypeOK, Persist, Fails, Rows
<1>16. ASSUME NEW s \in Schemas, NEW f \in Functions, RegisterMacro(s, f)
       PROVE  TypeOK'
  BY <1>0, <1>16 DEF TypeOK, RegisterMacro, Begins, Macro, Component
<1>17. CASE Exit
  BY <1>0, <1>17 DEF TypeOK, Exit
<1>18. CASE AtRest
  BY <1>18 DEF TypeOK, AtRest
<1> QED
  BY <1>1, <1>2, <1>3, <1>4, <1>5, <1>6, <1>7, <1>8, <1>9, <1>10, <1>11,
     <1>12, <1>13, <1>14, <1>15, <1>16, <1>17, <1>18 DEF Next

-----------------------------------------------------------------------------
(* The other invariants: steps that set no macro and no row of the table *)

LEMMA TableAndMacrosKept ==
    ASSUME IInv, UNCHANGED <<macros, table, declared, unkept>>
    PROVE  /\ RecordedInv' /\ KeptPrefixesServe' /\ MirrorsFind'
           /\ \A s \in Schemas : NamesIn(s)' = NamesIn(s) /\ IsPlain(s)' = IsPlain(s)
BY DEF IInv, RecordedInv, KeptPrefixesServe, MirrorsFind, NamesIn, IsPlain

\* A call that is not in a replay has nothing to do with it.
LEMMA NoReplay ==
    ASSUME IInv, call'.op \notin {"replay", "mirror"},
           call'.rows \in {call.rows, NoRows}, UNCHANGED table
    PROVE  RowsInv' /\ ProgressInv'
BY DEF IInv, RowsInv, ProgressInv, NoRows

\* A call that is about no schema, or about to start.
LEMMA RestSafe == ASSUME call' = NoCall PROVE CallInv' /\ RowsInv' /\ ProgressInv'
BY DEF CallInv, RowsInv, ProgressInv, NoCall, NoRows

LEMMA CommunityLoadSafe ==
    ASSUME IInv, NEW e \in Entries, CommunityLoad(e)
    PROVE  CallInv' /\ RowsInv' /\ ProgressInv'
<1>1. /\ call'.op = "alias" /\ call'.entry = e /\ call'.rows = NoRows
      /\ table' = table
  BY DEF CommunityLoad, Begins, NoCall, database
<1> QED
  BY <1>1, NoReplay DEF CallInv

LEMMA AliasAggregateSafe ==
    ASSUME IInv, NEW f \in Functions, AliasAggregate(f)
    PROVE  CallInv' /\ RowsInv' /\ ProgressInv'
<1>1. /\ call.op = "alias" /\ call'.op = "alias"
      /\ call'.entry = call.entry /\ call'.rows = call.rows /\ table' = table
  BY DEF IInv, TypeOK, Call, AliasAggregate, database
<1> QED
  BY <1>1, NoReplay DEF IInv, CallInv

LEMMA AliasBareSafe ==
    ASSUME IInv, NEW f \in Functions, AliasBare(f)
    PROVE  CallInv' /\ RowsInv' /\ ProgressInv'
<1>1. call \in Call /\ call.op = "alias" /\ call.entry \in Entries
  BY DEF IInv, TypeOK, CallInv, AliasBare
<1>2. /\ call'.entry = call.entry /\ call'.rows = call.rows /\ table' = table
      /\ \/ call'.op = "alias"
         \/ /\ call'.op = "namespace" /\ call'.names = {f}
            /\ NamespaceOf[call.entry] # NoSchema
  BY <1>1 DEF Call, AliasBare
<1>3. NamespaceOf[call.entry] \in Schemas \cup {NoSchema}
  BY <1>1, CatalogAssumption
<1>4. RowsInv' /\ ProgressInv'
  BY <1>2, NoReplay
<1> QED
  BY <1>1, <1>2, <1>3, <1>4 DEF CallInv

LEMMA BeginReplaySafe ==
    ASSUME IInv, BeginReplay
    PROVE  CallInv' /\ RowsInv' /\ ProgressInv'
<1>1. call \in Call /\ table \in Rows /\ table' = table
  BY DEF IInv, TypeOK, BeginReplay, database
<1>2. CASE call' = [call EXCEPT !.op = "replay", !.rows = table]
  <2>1. call'.op = "replay" /\ call'.rows = table
    BY <1>1, <1>2 DEF Call
  <2> QED
    BY <1>1, <2>1 DEF CallInv, RowsInv, ProgressInv, IsPlain
<1>3. CASE call' = [call EXCEPT !.op = "replay", !.clean = FALSE]
  <2>1. call'.op = "replay" /\ call'.rows = call.rows /\ ~call'.clean
    BY <1>1, <1>3 DEF Call
  <2> QED
    BY <1>1, <2>1 DEF IInv, CallInv, RowsInv, ProgressInv
<1> QED
  BY <1>2, <1>3 DEF BeginReplay

LEMMA ReplayRowSafe ==
    ASSUME IInv, NEW a \in Schemas, ReplayRow(a)
    PROVE  CallInv' /\ RowsInv' /\ ProgressInv'
<1>1. /\ call \in Call /\ table \in Rows /\ call.rows \in Rows
      /\ table' = table /\ macros' = macros
      /\ call.op = "replay" /\ call.rows[a] # NoSchema
  BY DEF IInv, TypeOK, Call, ReplayRow, database
<1>2. /\ \A s \in Schemas : NamesIn(s)' = NamesIn(s) /\ IsPlain(s)' = IsPlain(s)
      /\ call.rows[a] = table[a] /\ table[a] \in Schemas
  BY <1>1 DEF NamesIn, IsPlain, IInv, RowsInv, Rows
<1>3. CASE call' = [call EXCEPT !.op = "mirror", !.alias = a,
                                !.namespace = call.rows[a],
                                !.names = NamesIn(call.rows[a])]
  <2>1. /\ call'.op = "mirror" /\ call'.alias = a
        /\ call'.namespace = table[a] /\ call'.names = NamesIn(table[a])
        /\ call'.rows = call.rows /\ call'.clean = call.clean
    BY <1>1, <1>2, <1>3 DEF Call
  <2>2. CallInv' /\ RowsInv'
    BY <1>1, <1>2, <2>1 DEF IInv, CallInv, RowsInv
  <2>3. ASSUME call.clean, NEW b \in Schemas, IsPlain(b),
               call.rows[b] = NoSchema
        PROVE  \A f \in NamesIn(table[b]) : macros[b][f] = Mirror(table[b])
    BY <1>1, <2>3 DEF IInv, ProgressInv
  <2>4. ProgressInv'
    BY <1>1, <2>1, <2>3 DEF ProgressInv, NamesIn, IsPlain
  <2> QED
    BY <2>2, <2>4
<1>4. CASE call' = [call EXCEPT !.rows[a] = NoSchema, !.clean = FALSE]
  <2>1. /\ call'.op = "replay" /\ ~call'.clean
        /\ \A b \in Schemas : call'.rows[b] \in {call.rows[b], NoSchema}
    BY <1>1, <1>4 DEF Call, Rows
  <2> QED
    BY <1>1, <2>1 DEF IInv, CallInv, RowsInv, ProgressInv
<1> QED
  BY <1>3, <1>4 DEF ReplayRow

LEMMA EndRowSafe ==
    ASSUME IInv, EndRow PROVE CallInv' /\ RowsInv' /\ ProgressInv'
<1>1. /\ call \in Call /\ call.rows \in Rows /\ call.alias \in Schemas
      /\ table' = table /\ macros' = macros /\ call.op = "mirror"
  BY DEF IInv, TypeOK, Call, CallInv, EndRow, database
<1>2. /\ call'.op = "replay"
      /\ \A b \in Schemas :
            call'.rows[b] = IF b = call.alias THEN NoSchema ELSE call.rows[b]
      /\ ~call'.clean \/ (call'.clean = call.clean /\ call.names = {})
  <2> DEFINE next == [call EXCEPT !.op = "replay",
                        !.rows[call.alias] = NoSchema, !.alias = NoSchema,
                        !.namespace = NoSchema, !.names = {},
                        !.created = FALSE]
  <2>1. /\ next.op = "replay" /\ next.clean = call.clean
        /\ next.rows = [call.rows EXCEPT ![call.alias] = NoSchema]
        /\ [next EXCEPT !.clean = FALSE].op = "replay"
        /\ ~[next EXCEPT !.clean = FALSE].clean
        /\ [next EXCEPT !.clean = FALSE].rows = next.rows
    BY <1>1 DEF Call
  <2>2. \/ call' = next /\ call.names = {}
        \/ call' = [next EXCEPT !.clean = FALSE]
    BY DEF EndRow
  <2> HIDE DEF next
  <2>3. CASE call' = next /\ call.names = {}
    BY <1>1, <2>1, <2>3 DEF Rows
  <2>4. CASE call' = [next EXCEPT !.clean = FALSE]
    <3>1. call'.op = "replay" /\ ~call'.clean /\ call'.rows = next.rows
      BY <2>1, <2>4
    <3> QED
      BY <1>1, <2>1, <3>1 DEF Rows
  <2> QED
    BY <2>2, <2>3, <2>4
<1>3. CallInv' /\ RowsInv'
  BY <1>1, <1>2 DEF IInv, CallInv, RowsInv
<1>4. ProgressInv'
  <2> SUFFICES ASSUME call'.clean, NEW a \in Schemas, IsPlain(a),
                      call'.rows[a] = NoSchema, NEW f \in NamesIn(table[a])
               PROVE  macros[a][f] = Mirror(table[a])
    BY <1>1, <1>2 DEF ProgressInv, NamesIn, IsPlain
  <2>1. call.clean /\ call.names = {}
    BY <1>2
  <2>2. CASE a = call.alias
    BY <1>1, <2>1, <2>2 DEF IInv, ProgressInv, RowsInv
  <2>3. CASE a # call.alias
    BY <1>1, <1>2, <2>1, <2>3 DEF IInv, ProgressInv
  <2> QED
    BY <2>2, <2>3
<1> QED
  BY <1>3, <1>4

LEMMA DeclareSafe ==
    ASSUME IInv, NEW a \in Schemas, NEW s \in Schemas, Declare(a, s)
    PROVE  CallInv' /\ RowsInv' /\ ProgressInv'
<1>1. /\ call'.op = "declare" /\ call'.alias = a /\ call'.namespace = s
      /\ call'.names = NamesIn(s) /\ ~call'.created /\ call'.rows = NoRows
      /\ table' = table /\ macros' = macros
  BY DEF Declare, Begins, NoCall, database
<1>2. RowsInv' /\ ProgressInv'
  BY <1>1, NoReplay
<1> QED
  BY <1>1, <1>2 DEF CallInv, NamesIn

LEMMA EndMirrorSafe ==
    ASSUME IInv, EndMirror PROVE CallInv' /\ RowsInv' /\ ProgressInv'
<1>1. call \in Call /\ call.op = "declare" /\ table' = table /\ macros' = macros
  BY DEF IInv, TypeOK, EndMirror, database
<1>2. CASE call' = NoCall
  BY <1>1, <1>2, RestSafe
<1>3. CASE call' = [call EXCEPT !.op = "persist"] /\ call.created
  <2>1. /\ call'.op = "persist" /\ call'.alias = call.alias
        /\ call'.namespace = call.namespace /\ call'.rows = call.rows
        /\ call'.created
    BY <1>1, <1>3 DEF Call
  <2>2. RowsInv' /\ ProgressInv'
    BY <1>1, <2>1, NoReplay
  <2> QED
    BY <1>1, <1>3, <2>1, <2>2 DEF IInv, CallInv, NamesIn
<1> QED
  BY <1>2, <1>3 DEF EndMirror

-----------------------------------------------------------------------------
(* Steps that set one macro *)

\* One macro has been set: the others are as they were.
LEMMA MacroSet ==
    ASSUME TypeOK, NEW s \in Schemas, NEW f \in Functions, NEW m \in Macro,
           macros' = [macros EXCEPT ![s][f] = m]
    PROVE  /\ \A t \in Schemas, g \in Functions :
                macros'[t][g] = IF t = s /\ g = f THEN m ELSE macros[t][g]
           /\ m # NoMacro
<1>1. m # NoMacro
  BY DEF Macro, NoMacro
<1> QED
  BY <1>1 DEF TypeOK

LEMMA NamesSet ==
    ASSUME TypeOK, NEW s \in Schemas, NEW f \in Functions, NEW m \in Macro,
           macros' = [macros EXCEPT ![s][f] = m]
    PROVE  /\ \A t \in Schemas : NamesIn(t) \subseteq NamesIn(t)'
           /\ \A t \in Schemas \ {s} : NamesIn(t)' = NamesIn(t)
           /\ f \in NamesIn(s)'
<1>1. /\ \A t \in Schemas, g \in Functions :
            macros'[t][g] = IF t = s /\ g = f THEN m ELSE macros[t][g]
      /\ m # NoMacro
  BY MacroSet
<1> QED
  BY <1>1 DEF NamesIn

\* Setting a macro keeps what was said of the table, and of mirrors if the
\* macro is no mirror of what is not there.
LEMMA MacroSetSafe ==
    ASSUME IInv, NEW s \in Schemas, NEW f \in Functions, NEW m \in Macro,
           macros' = [macros EXCEPT ![s][f] = m],
           m.calls = "schema" => m.of \in Schemas /\ macros[m.of][f] # NoMacro,
           UNCHANGED <<table, declared, unkept>>
    PROVE  RecordedInv' /\ KeptPrefixesServe' /\ MirrorsFind'
<1>0. TypeOK
  BY DEF IInv
<1>1. RecordedInv'
  BY DEF IInv, RecordedInv
<1>2. KeptPrefixesServe'
  BY <1>0, NamesSet DEF IInv, KeptPrefixesServe
<1>3. /\ \A t \in Schemas, g \in Functions :
            macros'[t][g] = IF t = s /\ g = f THEN m ELSE macros[t][g]
      /\ m # NoMacro
  BY <1>0, MacroSet
<1>4. MirrorsFind'
  <2> SUFFICES ASSUME NEW t \in Schemas, NEW g \in Functions,
                      macros'[t][g].calls = "schema"
               PROVE  macros'[macros'[t][g].of][g] # NoMacro
    BY DEF MirrorsFind
  <2>1. ASSUME NEW u \in Schemas, macros[u][g] # NoMacro
        PROVE  macros'[u][g] # NoMacro
    BY <1>3, <2>1
  <2>2. CASE t = s /\ g = f
    BY <1>3, <2>1, <2>2
  <2>3. CASE t # s \/ g # f
    <3>1. macros'[t][g] = macros[t][g]
      BY <1>3, <2>3
    <3>2. macros[t][g].of \in Schemas
      BY <1>0, <3>1 DEF TypeOK, Macro, NoMacro
    <3> QED
      BY <2>1, <3>1, <3>2 DEF IInv, MirrorsFind
  <2> QED
    BY <2>2, <2>3
<1> QED
  BY <1>1, <1>2, <1>4

LEMMA AliasInNamespaceSafe ==
    ASSUME IInv, AliasInNamespace
    PROVE  /\ CallInv' /\ RowsInv' /\ ProgressInv'
           /\ RecordedInv' /\ KeptPrefixesServe' /\ MirrorsFind'
<1>1. /\ TypeOK /\ call \in Call /\ call.op = "namespace"
      /\ call.entry \in Entries /\ NamespaceOf[call.entry] \in Schemas
      /\ call.names \subseteq Functions
      /\ UNCHANGED <<table, declared, unkept>>
  BY DEF IInv, TypeOK, CallInv, AliasInNamespace, history
<1>2. /\ call'.op = "alias" /\ call'.entry = call.entry
      /\ call'.rows = call.rows
  BY <1>1 DEF AliasInNamespace, Call
<1>3. CallInv'
  BY <1>1, <1>2 DEF CallInv
<1>4. RowsInv' /\ ProgressInv'
  BY <1>1, <1>2, NoReplay
<1>5. CASE UNCHANGED macros
  BY <1>1, <1>3, <1>4, <1>5, TableAndMacrosKept
<1>6. CASE \E f \in call.names :
             macros' = [macros EXCEPT ![NamespaceOf[call.entry]][f] =
                           Alias(call.entry)]
  <2>1. PICK f \in call.names :
          macros' = [macros EXCEPT ![NamespaceOf[call.entry]][f] =
                        Alias(call.entry)]
    BY <1>6
  <2>2. Alias(call.entry) \in Macro /\ Alias(call.entry).calls # "schema"
    BY <1>1, MacroKinds DEF Alias
  <2>3. f \in Functions
    BY <1>1
  <2>4. RecordedInv' /\ KeptPrefixesServe' /\ MirrorsFind'
    BY <1>1, <2>1, <2>2, <2>3, MacroSetSafe
  <2> QED
    BY <1>3, <1>4, <2>4
<1> QED
  BY <1>5, <1>6 DEF AliasInNamespace

LEMMA RegisterMacroSafe ==
    ASSUME IInv, NEW s \in Schemas, NEW f \in Functions, RegisterMacro(s, f)
    PROVE  /\ CallInv' /\ RowsInv' /\ ProgressInv'
           /\ RecordedInv' /\ KeptPrefixesServe' /\ MirrorsFind'
<1>1. /\ call' = NoCall /\ UNCHANGED <<table, declared, unkept>>
      /\ macros' = [macros EXCEPT ![s][f] = Component]
  BY DEF RegisterMacro, Begins, history
<1>2. CallInv' /\ RowsInv' /\ ProgressInv'
  BY <1>1, RestSafe
<1>3. Component \in Macro /\ Component.calls # "schema"
  BY MacroKinds DEF Component
<1>4. RecordedInv' /\ KeptPrefixesServe' /\ MirrorsFind'
  BY <1>1, <1>3, MacroSetSafe
<1> QED
  BY <1>2, <1>4

\* What a declaration or the replay of a row does with one name: the macro is
\* set to one that finds its function, or the call is not clean any more.
LEMMA MirrorOneStep ==
    ASSUME IInv, NEW f \in Functions, MirrorOne(f)
    PROVE  /\ TypeOK /\ call \in Call
           /\ call.op \in {"mirror", "declare"}
           /\ call.alias \in Schemas /\ call.namespace \in Schemas
           /\ call.names \subseteq NamesIn(call.namespace)
           /\ f \in call.names /\ UNCHANGED <<table, declared, unkept>>
           /\ call'.op = call.op /\ call'.alias = call.alias
           /\ call'.namespace = call.namespace /\ call'.rows = call.rows
           /\ call'.names = call.names \ {f}
           /\ \/ /\ macros' = [macros EXCEPT ![call.alias][f] =
                                  Mirror(call.namespace)]
                 /\ call'.clean = call.clean
              \/ /\ macros' = macros /\ ~call'.clean
                 /\ call'.created = call.created
<1>1. /\ TypeOK /\ call \in Call /\ call.op \in {"mirror", "declare"}
      /\ f \in call.names /\ UNCHANGED <<table, declared, unkept>>
  BY DEF IInv, TypeOK, MirrorOne, history
<1>2. /\ call.alias \in Schemas /\ call.namespace \in Schemas
      /\ call.names \subseteq NamesIn(call.namespace)
  BY <1>1 DEF IInv, CallInv
<1>3. \/ /\ macros' = [macros EXCEPT ![call.alias][f] = Mirror(call.namespace)]
         /\ call' = [call EXCEPT !.names = @ \ {f}, !.created = TRUE]
      \/ /\ macros' = macros
         /\ call' = [call EXCEPT !.names = @ \ {f}, !.clean = FALSE]
  BY DEF MirrorOne
<1> QED
  BY <1>1, <1>2, <1>3 DEF Call

LEMMA MirrorOneSafe ==
    ASSUME IInv, NEW f \in Functions, MirrorOne(f)
    PROVE  /\ CallInv' /\ RowsInv' /\ ProgressInv'
           /\ RecordedInv' /\ KeptPrefixesServe' /\ MirrorsFind'
<1> DEFINE a == call.alias
           s == call.namespace
<1>1. /\ TypeOK /\ call.op \in {"mirror", "declare"}
      /\ a \in Schemas /\ s \in Schemas /\ call.names \subseteq NamesIn(s)
      /\ f \in call.names /\ UNCHANGED <<table, declared, unkept>>
      /\ call'.op = call.op /\ call'.alias = a /\ call'.namespace = s
      /\ call'.rows = call.rows /\ call'.names = call.names \ {f}
  BY MirrorOneStep
<1>2. RowsInv'
  BY <1>1 DEF IInv, RowsInv
<1>3. CASE macros' = macros /\ ~call'.clean /\ call'.created = call.created
  <2>1. CallInv'
    BY <1>1, <1>3 DEF IInv, CallInv, NamesIn
  <2>2. ProgressInv'
    BY <1>3 DEF ProgressInv
  <2> QED
    BY <1>1, <1>2, <1>3, <2>1, <2>2, TableAndMacrosKept
<1>4. CASE /\ macros' = [macros EXCEPT ![a][f] = Mirror(s)]
           /\ call'.clean = call.clean
  <2>1. Mirror(s) \in Macro /\ Mirror(s).calls = "schema" /\ Mirror(s).of = s
    BY <1>1, MacroKinds DEF Mirror
  <2>2. macros[s][f] # NoMacro
    BY <1>1 DEF NamesIn
  <2>3. RecordedInv' /\ KeptPrefixesServe' /\ MirrorsFind'
    BY <1>1, <1>4, <2>1, <2>2, MacroSetSafe
  <2>4. /\ \A t \in Schemas, g \in Functions :
              macros'[t][g] = IF t = a /\ g = f THEN Mirror(s) ELSE macros[t][g]
        /\ Mirror(s) # NoMacro
    BY <1>1, <1>4, <2>1, MacroSet
  <2>5. CallInv'
    <3>1. \A t \in Schemas, g \in Functions :
            macros[t][g] # NoMacro => macros'[t][g] # NoMacro
      BY <2>4
    <3>2. \A g \in call'.names : g \in Functions /\ macros'[s][g] # NoMacro
      BY <1>1, <3>1 DEF NamesIn
    <3>3. macros'[a][f] # NoMacro
      BY <1>1, <2>4
    <3> QED
      BY <1>1, <3>2, <3>3 DEF CallInv, NamesIn
  <2>6. ASSUME call'.op = "mirror", call'.clean, NEW b \in Schemas, IsPlain(b),
               NEW g \in Functions, macros'[table[b]][g] # NoMacro
        PROVE  /\ call.rows[b] = NoSchema =>
                    macros'[b][g] = Mirror(table[b])
               /\ b = a /\ g \notin call.names \ {f} =>
                    macros'[b][g] = Mirror(s)
    <3>1. /\ call.op = "mirror" /\ call.clean
          /\ s = table[a] /\ call.rows[a] = table[a]
      BY <1>1, <1>4, <2>6 DEF IInv, RowsInv
    <3>2. table[b] \in Schemas /\ table[b] # a
      BY <1>1, <2>6, <3>1, NoSchemaAssumption DEF IsPlain, TypeOK, Rows
    <3>3. g \in NamesIn(table[b])
      BY <2>4, <2>6, <3>2 DEF NamesIn
    <3>4. ASSUME call.rows[b] = NoSchema PROVE macros'[b][g] = Mirror(table[b])
      <4>1. b # a
        BY <1>1, <3>1, <3>4, NoSchemaAssumption
      <4>2. macros[b][g] = Mirror(table[b])
        BY <2>6, <3>1, <3>3, <3>4 DEF IInv, ProgressInv
      <4> QED
        BY <2>4, <4>1, <4>2
    <3>5. ASSUME b = a, g \notin call.names \ {f}
          PROVE  macros'[b][g] = Mirror(s)
      <4>1. CASE g = f
        BY <1>1, <2>4, <3>5, <4>1
      <4>2. CASE g # f
        BY <2>4, <2>6, <3>1, <3>3, <3>5, <4>2 DEF IInv, ProgressInv
      <4> QED
        BY <4>1, <4>2
    <3> QED
      BY <3>4, <3>5
  <2>7. ProgressInv'
    <3>1. CASE call'.op = "mirror" /\ call'.clean
      <4>1. /\ \A b \in Schemas : IsPlain(b)' = IsPlain(b)
            /\ s = table[a]
        BY <1>1, <3>1 DEF IsPlain, IInv, RowsInv
      <4>2. \A b \in Schemas : IsPlain(b) /\ call'.rows[b] = NoSchema =>
              \A g \in Functions : macros'[table'[b]][g] # NoMacro =>
                macros'[b][g] = Mirror(table'[b])
        BY <1>1, <2>6, <3>1
      <4>3. IsPlain(a) =>
              \A g \in Functions \ call'.names : macros'[s][g] # NoMacro =>
                macros'[a][g] = Mirror(s)
        BY <1>1, <2>6, <3>1, <4>1
      <4> QED
        BY <1>1, <3>1, <4>1, <4>2, <4>3 DEF ProgressInv, NamesIn, IsPlain
    <3>2. CASE ~(call'.op = "mirror" /\ call'.clean)
      BY <1>1, <3>2 DEF ProgressInv
    <3> QED
      BY <3>1, <3>2
  <2> QED
    BY <1>2, <2>3, <2>5, <2>7
<1> QED
  BY <1>3, <1>4, MirrorOneStep

-----------------------------------------------------------------------------
(* The invariance *)

LEMMA PersistSafe ==
    ASSUME IInv, Persist
    PROVE  /\ CallInv' /\ RowsInv' /\ ProgressInv'
           /\ RecordedInv' /\ KeptPrefixesServe' /\ MirrorsFind'
<1>1. /\ TypeOK /\ call' = NoCall /\ macros' = macros
      /\ call.alias \in Schemas /\ call.namespace \in Schemas
      /\ NamesIn(call.alias) # {}
  BY DEF IInv, CallInv, Persist
<1>2. table \in Rows /\ declared \in Rows
  BY <1>1 DEF TypeOK
<1>3. CallInv' /\ RowsInv' /\ ProgressInv'
  BY <1>1, RestSafe
<1>4. MirrorsFind'
  BY <1>1 DEF IInv, MirrorsFind
<1>5. declared' = [declared EXCEPT ![call.alias] = call.namespace]
  BY DEF Persist
<1>6. CASE /\ table' = [table EXCEPT ![call.alias] = call.namespace]
           /\ unkept' = unkept \ {call.alias}
  <2>1. RecordedInv'
    BY <1>1, <1>2, <1>5, <1>6 DEF IInv, RecordedInv, Rows
  <2>2. KeptPrefixesServe'
    BY <1>1, <1>2, <1>6 DEF IInv, KeptPrefixesServe, Rows, NamesIn
  <2> QED
    BY <1>3, <1>4, <2>1, <2>2
<1>7. CASE table' = table /\ unkept' = unkept \cup {call.alias}
  <2>1. RecordedInv'
    BY <1>1, <1>2, <1>5, <1>7 DEF IInv, RecordedInv, Rows
  <2>2. KeptPrefixesServe'
    BY <1>1, <1>7 DEF IInv, KeptPrefixesServe, NamesIn
  <2> QED
    BY <1>3, <1>4, <2>1, <2>2
<1> QED
  BY <1>6, <1>7 DEF Persist

LEMMA ExitSafe ==
    ASSUME IInv, Exit
    PROVE  /\ CallInv' /\ RowsInv' /\ ProgressInv'
           /\ RecordedInv' /\ KeptPrefixesServe' /\ MirrorsFind'
<1>1. CallInv' /\ RowsInv' /\ ProgressInv'
  BY RestSafe DEF Exit
<1>2. CASE UNCHANGED <<database, history>>
  BY <1>1, <1>2, TableAndMacrosKept DEF database, history
<1>3. CASE /\ macros' = [s \in Schemas |-> [f \in Functions |-> NoMacro]]
           /\ table' = NoRows /\ declared' = NoRows /\ unkept' = {}
  <2>1. RecordedInv' /\ KeptPrefixesServe'
    BY <1>3 DEF RecordedInv, KeptPrefixesServe, NoRows
  <2>2. MirrorsFind'
    BY <1>3 DEF MirrorsFind, NoMacro
  <2> QED
    BY <1>1, <2>1, <2>2
<1> QED
  BY <1>2, <1>3 DEF Exit

\* The steps that change neither a macro nor the table, nor their history.
LEMMA StillSafe ==
    ASSUME IInv, CallInv' /\ RowsInv' /\ ProgressInv', TypeOK',
           UNCHANGED <<macros, table, declared, unkept>>
    PROVE  IInv'
BY TableAndMacrosKept DEF IInv

LEMMA NextSafe == ASSUME IInv, [Next]_vars PROVE IInv'
<1>0. TypeOK'
  BY TypesKept DEF IInv
<1> DEFINE Safe == /\ CallInv' /\ RowsInv' /\ ProgressInv'
                   /\ RecordedInv' /\ KeptPrefixesServe' /\ MirrorsFind'
           Still == /\ CallInv' /\ RowsInv' /\ ProgressInv'
                    /\ UNCHANGED <<macros, table, declared, unkept>>
<1>1. ASSUME UNCHANGED vars PROVE Still
  BY <1>1 DEF vars, database, history, IInv, CallInv, RowsInv, ProgressInv,
     NamesIn, IsPlain
<1>2. ASSUME NEW e \in Entries, NativeLoad(e) PROVE Still
  BY <1>2, RestSafe DEF NativeLoad, Begins, database, history
<1>3. ASSUME NEW e \in Entries, CommunityLoad(e) PROVE Still
  BY <1>3, CommunityLoadSafe DEF CommunityLoad, database, history
<1>4. ASSUME NEW f \in Functions, AliasAggregate(f) PROVE Still
  BY <1>4, AliasAggregateSafe DEF AliasAggregate, database, history
<1>5. ASSUME NEW f \in Functions, AliasBare(f) PROVE Still
  BY <1>5, AliasBareSafe DEF AliasBare, history
<1>6. ASSUME AliasesFail PROVE Still
  <2>1. CallInv' /\ RowsInv' /\ ProgressInv'
    BY <1>6, RestSafe DEF AliasesFail
  <2>2. UNCHANGED <<macros, table, declared, unkept>>
    BY <1>6 DEF AliasesFail, database, history
  <2> QED
    BY <2>1, <2>2
<1>7. ASSUME BeginReplay PROVE Still
  <2>1. CallInv' /\ RowsInv' /\ ProgressInv'
    BY <1>7, BeginReplaySafe
  <2>2. UNCHANGED <<macros, table, declared, unkept>>
    BY <1>7 DEF BeginReplay, database, history
  <2> QED
    BY <2>1, <2>2
<1>8. ASSUME NEW a \in Schemas, ReplayRow(a) PROVE Still
  BY <1>8, ReplayRowSafe DEF ReplayRow, database, history
<1>9. ASSUME EndRow PROVE Still
  <2>1. CallInv' /\ RowsInv' /\ ProgressInv'
    BY <1>9, EndRowSafe
  <2>2. UNCHANGED <<macros, table, declared, unkept>>
    BY <1>9 DEF EndRow, database, history
  <2> QED
    BY <2>1, <2>2
<1>10. ASSUME EndLoad PROVE Still
  <2>1. CallInv' /\ RowsInv' /\ ProgressInv'
    BY <1>10, RestSafe DEF EndLoad
  <2>2. UNCHANGED <<macros, table, declared, unkept>>
    BY <1>10 DEF EndLoad, database, history
  <2> QED
    BY <2>1, <2>2
<1>11. ASSUME NEW d \in Declarations, Declare(d[1], d[2]) PROVE Still
  <2>1. d[1] \in Schemas /\ d[2] \in Schemas
    BY DeclarationsAssumption
  <2> QED
    BY <1>11, <2>1, DeclareSafe DEF Declare, database, history
<1>12. ASSUME EndMirror PROVE Still
  <2>1. CallInv' /\ RowsInv' /\ ProgressInv'
    BY <1>12, EndMirrorSafe
  <2>2. UNCHANGED <<macros, table, declared, unkept>>
    BY <1>12 DEF EndMirror, database, history
  <2> QED
    BY <2>1, <2>2
<1>13. ASSUME Still PROVE IInv'
  BY <1>0, <1>13, StillSafe
<1>14. ASSUME Safe PROVE IInv'
  BY <1>0, <1>14 DEF IInv
<1>15. CASE AliasInNamespace
  BY <1>14, <1>15, AliasInNamespaceSafe
<1>16. ASSUME NEW f \in Functions, MirrorOne(f) PROVE IInv'
  BY <1>14, <1>16, MirrorOneSafe
<1>17. CASE Persist
  BY <1>14, <1>17, PersistSafe
<1>18. ASSUME NEW s \in Schemas, NEW f \in Functions, RegisterMacro(s, f)
       PROVE  IInv'
  BY <1>14, <1>18, RegisterMacroSafe
<1>19. CASE Exit
  BY <1>14, <1>19, ExitSafe
<1>20. CASE AtRest
  BY <1>1, <1>13, <1>20 DEF AtRest
<1> HIDE DEF Still
<1> QED
  BY <1>1, <1>2, <1>3, <1>4, <1>5, <1>6, <1>7, <1>8, <1>9, <1>10, <1>11,
     <1>12, <1>13, <1>15, <1>16, <1>17, <1>18, <1>19, <1>20 DEF Next

LEMMA Invariance == Spec => []IInv
BY InitSafe, NextSafe, PTL DEF Spec

-----------------------------------------------------------------------------
(* What a chain of macros leads to *)

\* The pairs of a schema and a name whose macro leads, by itself or through a
\* pair of Found, to a function.
Extended(Found) ==
    {p \in Schemas \X Functions :
        LET m == macros[p[1]][p[2]]
        IN \/ m.calls \in {"community", "component"}
           \/ m.calls = "schema" /\ <<m.of, p[2]>> \in Found}

\* The first steps of Reaching, up to n.
IsStart(h, n) ==
    h \in [0 .. n -> SUBSET (Schemas \X Functions)] /\ h[0] = {}
        /\ \A k \in 1 .. n : h[k] = Extended(h[k - 1])

\* A set of natural numbers has a least element: induction over Nat as the
\* proofs below use it.
LEMMA LeastNumber ==
    ASSUME NEW T \in SUBSET Nat, T # {}
    PROVE  \E n \in T : \A m \in T : n =< m
<1> DEFINE Below == {1 .. n : n \in T}
<1>1. Below \subseteq FiniteSubsetsOf(Nat) /\ Below # {}
  <2> SUFFICES ASSUME NEW n \in T PROVE 1 .. n \in FiniteSubsetsOf(Nat)
    OBVIOUS
  <2>1. IsFiniteSet(1 .. n)
    BY FS_Interval
  <2> QED
    BY <2>1 DEF FiniteSubsetsOf
<1>2. PICK X \in Below : \A Y \in Below : <<Y, X>> \notin StrictSubsetOrdering(Nat)
  <2> HIDE DEF Below
  <2>1. IsWellFoundedOn(StrictSubsetOrdering(Nat), FiniteSubsetsOf(Nat))
    BY FS_StrictSubsetOrderingWellFounded
  <2> QED
    BY <1>1, <2>1, WFMin
<1>3. PICK n \in T : X = 1 .. n
  OBVIOUS
<1>4. ASSUME NEW m \in T, m < n PROVE FALSE
  <2>1. 1 .. m \in SUBSET Nat /\ 1 .. n \in SUBSET Nat
    OBVIOUS
  <2>2. 1 .. m \subseteq 1 .. n /\ n \in 1 .. n /\ n \notin 1 .. m
    BY <1>4
  <2>3. <<1 .. m, 1 .. n>> \in StrictSubsetOrdering(Nat)
    BY <2>1, <2>2 DEF StrictSubsetOrdering
  <2> QED
    BY <1>2, <1>3, <2>3
<1> QED
  BY <1>4

LEMMA StartsExist == \A n \in Nat : \E h : IsStart(h, n)
<1> SUFFICES ASSUME NEW n \in Nat, ~\E h : IsStart(h, n) PROVE FALSE
  OBVIOUS
<1> DEFINE Missing == {m \in Nat : ~\E h : IsStart(h, m)}
<1>1. PICK m \in Missing : \A k \in Missing : m =< k
  BY LeastNumber
<1>2. CASE m = 0
  <2>1. IsStart([k \in 0 .. 0 |-> {}], 0)
    BY DEF IsStart
  <2> QED
    BY <1>2, <2>1
<1>3. CASE m # 0
  <2>1. m - 1 \in Nat /\ m - 1 \notin Missing
    BY <1>1, <1>3
  <2>2. PICK h : IsStart(h, m - 1)
    BY <2>1
  <2> DEFINE g == [k \in 0 .. m |-> IF k = m THEN Extended(h[m - 1]) ELSE h[k]]
  <2>3. Extended(h[m - 1]) \in SUBSET (Schemas \X Functions)
    BY DEF Extended
  <2>4. g \in [0 .. m -> SUBSET (Schemas \X Functions)] /\ g[0] = {}
    BY <1>3, <2>1, <2>2, <2>3 DEF IsStart
  <2>5. ASSUME NEW k \in 1 .. m PROVE g[k] = Extended(g[k - 1])
    BY <1>3, <2>1, <2>2 DEF IsStart
  <2>6. IsStart(g, m)
    BY <2>4, <2>5 DEF IsStart
  <2> QED
    BY <2>6
<1> QED
  BY <1>2, <1>3

LEMMA StartsAgree ==
    ASSUME NEW m \in Nat, NEW n \in Nat, NEW g, NEW h, IsStart(g, m),
           IsStart(h, n)
    PROVE  \A k \in Nat : k =< m /\ k =< n => g[k] = h[k]
<1> SUFFICES ASSUME NEW k \in Nat, k =< m, k =< n, g[k] # h[k] PROVE FALSE
  OBVIOUS
<1> DEFINE Apart == {i \in Nat : i =< m /\ i =< n /\ g[i] # h[i]}
<1>1. PICK i \in Apart : \A j \in Apart : i =< j
  BY LeastNumber
<1>2. i # 0
  BY <1>1 DEF IsStart
<1>3. i - 1 \in Nat /\ g[i - 1] = h[i - 1]
  BY <1>1, <1>2
<1>4. i \in 1 .. m /\ i \in 1 .. n
  BY <1>1, <1>2
<1> QED
  BY <1>1, <1>3, <1>4 DEF IsStart

\* Reaching is the function that its definition describes.
LEMMA ReachingUnfolds ==
    /\ Reaching[0] = {}
    /\ \A n \in Nat : n # 0 => Reaching[n] = Extended(Reaching[n - 1])
<1> DEFINE Start(n) == CHOOSE h : IsStart(h, n)
           F == [n \in Nat |-> Start(n)[n]]
           Body(r) == [n \in Nat |->
              IF n = 0 THEN {}
              ELSE {p \in Schemas \X Functions :
                      LET m == macros[p[1]][p[2]]
                      IN \/ m.calls \in {"community", "component"}
                         \/ m.calls = "schema" /\ <<m.of, p[2]>> \in r[n - 1]}]
<1>1. \A n \in Nat : IsStart(Start(n), n)
  BY StartsExist
<1>2. F[0] = {}
  BY <1>1 DEF IsStart
<1>3. ASSUME NEW n \in Nat, n # 0 PROVE F[n] = Extended(F[n - 1])
  <2>1. n - 1 \in Nat /\ n \in 1 .. n
    BY <1>3
  <2>2. Start(n)[n] = Extended(Start(n)[n - 1])
    BY <1>1, <2>1 DEF IsStart
  <2>3. Start(n)[n - 1] = Start(n - 1)[n - 1]
    <3> HIDE DEF Start
    <3> QED
      BY <1>1, <2>1, StartsAgree
  <2> HIDE DEF Start
  <2> QED
    BY <2>1, <2>2, <2>3
<1>4. F = Body(F)
  <2> HIDE DEF F
  <2>1. \A n \in Nat : F[n] = Body(F)[n]
    BY <1>2, <1>3 DEF Extended
  <2>2. F = [n \in Nat |-> F[n]]
    BY DEF F
  <2>3. Body(F) = [n \in Nat |-> Body(F)[n]]
    OBVIOUS
  <2> HIDE DEF Body
  <2> QED
    BY <2>1, <2>2, <2>3
<1>5. Reaching = Body(Reaching)
  <2>1. \E r : r = Body(r)
    <3> HIDE DEF F, Body
    <3> QED
      BY <1>4
  <2>2. Reaching = CHOOSE r : r = Body(r)
    BY DEF Reaching
  <2> HIDE DEF Body
  <2> QED
    BY <2>1, <2>2
<1> QED
  BY <1>5 DEF Extended

-----------------------------------------------------------------------------
(* Layers: no prefix is, through other prefixes, a prefix of itself *)

\* Each namespace is of a lower layer than its prefixes.  The code has no such
\* guard, and declares a circle too: this is how users declare prefixes.
IsRanking(rank) ==
    /\ rank \in [Schemas -> 1 .. Cardinality(Schemas)]
    /\ \A d \in Declarations : rank[d[2]] < rank[d[1]]

Layered == \E rank \in [Schemas -> 1 .. Cardinality(Schemas)] : IsRanking(rank)

\* The macros, the table and the call go down the layers.
DescentInv(rank) ==
    /\ \A s \in Schemas, f \in Functions : macros[s][f].calls = "schema" =>
        rank[macros[s][f].of] < rank[s]
    /\ \A a \in Schemas : table[a] # NoSchema => rank[table[a]] < rank[a]
    /\ call.op \in {"mirror", "declare", "persist"} =>
        rank[call.namespace] < rank[call.alias]

LEMMA InitDescends == ASSUME Init, NEW rank PROVE DescentInv(rank)
BY DEF Init, DescentInv, NoMacro, NoRows, NoCall

\* A step that sets no macro and no row and begins to mirror nothing.
LEMMA DescentKept ==
    ASSUME NEW rank, DescentInv(rank), UNCHANGED <<macros, table>>,
           call'.op \in {"mirror", "declare", "persist"} =>
               /\ call.op \in {"mirror", "declare", "persist"}
               /\ call'.alias = call.alias /\ call'.namespace = call.namespace
    PROVE  DescentInv(rank)'
BY DEF DescentInv

\* A step that sets one macro, which is no mirror, or of a lower layer.
LEMMA DescentOfMacro ==
    ASSUME IInv, NEW rank, DescentInv(rank), NEW s \in Schemas,
           NEW f \in Functions, NEW m \in Macro,
           macros' = [macros EXCEPT ![s][f] = m],
           m.calls = "schema" => rank[m.of] < rank[s],
           UNCHANGED table,
           call'.op \in {"mirror", "declare", "persist"} =>
               /\ call.op \in {"mirror", "declare", "persist"}
               /\ call'.alias = call.alias /\ call'.namespace = call.namespace
    PROVE  DescentInv(rank)'
<1>0. TypeOK
  BY DEF IInv
<1>1. /\ \A t \in Schemas, g \in Functions :
            macros'[t][g] = IF t = s /\ g = f THEN m ELSE macros[t][g]
      /\ m # NoMacro
  BY <1>0, MacroSet
<1>2. ASSUME NEW t \in Schemas, NEW g \in Functions,
             macros'[t][g].calls = "schema"
      PROVE  rank[macros'[t][g].of] < rank[t]
  <2>1. CASE t = s /\ g = f
    BY <1>1, <1>2, <2>1
  <2>2. CASE ~(t = s /\ g = f)
    BY <1>1, <1>2, <2>2 DEF DescentInv
  <2> QED
    BY <2>1, <2>2
<1> QED
  BY <1>2 DEF DescentInv

LEMMA NextDescends ==
    ASSUME IInv, [Next]_vars, NEW rank, IsRanking(rank), DescentInv(rank)
    PROVE  DescentInv(rank)'
<1>0. TypeOK /\ call \in Call
  BY DEF IInv, TypeOK
<1> DEFINE Quiet ==
        /\ UNCHANGED <<macros, table>>
        /\ call'.op \in {"mirror", "declare", "persist"} =>
            /\ call.op \in {"mirror", "declare", "persist"}
            /\ call'.alias = call.alias /\ call'.namespace = call.namespace
<1>1. CASE UNCHANGED vars
  BY <1>1, DescentKept DEF vars, database
<1>2. ASSUME NEW e \in Entries, NativeLoad(e) \/ CommunityLoad(e) PROVE Quiet
  BY <1>2 DEF NativeLoad, CommunityLoad, Begins, NoCall, database
<1>3. ASSUME NEW f \in Functions, AliasAggregate(f) PROVE Quiet
  BY <1>0, <1>3 DEF AliasAggregate, Call, database
<1>4. ASSUME NEW f \in Functions, AliasBare(f) PROVE Quiet
  <2>1. call'.op \in {"alias", "namespace"}
    BY <1>0, <1>4 DEF AliasBare, Call
  <2> QED
    BY <1>4, <2>1 DEF AliasBare
<1>5. CASE AliasInNamespace
  <2>1. /\ call'.op = "alias" /\ table' = table
        /\ call.entry \in Entries /\ NamespaceOf[call.entry] \in Schemas
        /\ call.names \subseteq Functions
    BY <1>0, <1>5 DEF AliasInNamespace, IInv, CallInv, Call
  <2>2. CASE UNCHANGED macros
    BY <2>1, <2>2, DescentKept
  <2>3. ASSUME NEW f \in call.names,
               macros' = [macros EXCEPT ![NamespaceOf[call.entry]][f] =
                              Alias(call.entry)]
        PROVE  DescentInv(rank)'
    <3>1. Alias(call.entry) \in Macro /\ Alias(call.entry).calls # "schema"
      BY <2>1, MacroKinds DEF Alias
    <3> QED
      BY <2>1, <2>3, <3>1, DescentOfMacro
  <2> QED
    BY <1>5, <2>2, <2>3 DEF AliasInNamespace
<1>6. ASSUME AliasesFail \/ EndLoad PROVE Quiet
  BY <1>6 DEF AliasesFail, EndLoad, NoCall, database
<1>7. ASSUME BeginReplay PROVE Quiet
  <2>1. call'.op = "replay"
    BY <1>0, <1>7 DEF BeginReplay, Call
  <2> QED
    BY <1>7, <2>1 DEF BeginReplay, database
<1>8. ASSUME NEW a \in Schemas, ReplayRow(a) PROVE DescentInv(rank)'
  <2>1. UNCHANGED <<macros, table>>
    BY <1>8 DEF ReplayRow, database
  <2>2. CASE call' = [call EXCEPT !.op = "mirror", !.alias = a,
                                  !.namespace = call.rows[a],
                                  !.names = NamesIn(call.rows[a])]
    <3>1. call'.alias = a /\ call'.namespace = call.rows[a]
      BY <1>0, <2>2 DEF Call
    <3>2. call.rows[a] = table[a] /\ table[a] # NoSchema
      BY <1>8 DEF ReplayRow, IInv, RowsInv
    <3> QED
      BY <2>1, <3>1, <3>2 DEF DescentInv
  <2>3. CASE call' = [call EXCEPT !.rows[a] = NoSchema, !.clean = FALSE]
    <3>1. call'.op = "replay"
      BY <1>0, <1>8, <2>3 DEF ReplayRow, Call
    <3> QED
      BY <2>1, <3>1, DescentKept
  <2> QED
    BY <1>8, <2>2, <2>3 DEF ReplayRow
<1>9. ASSUME NEW f \in Functions, MirrorOne(f) PROVE DescentInv(rank)'
  <2>1. /\ call.op \in {"mirror", "declare"} /\ f \in call.names
        /\ call.alias \in Schemas /\ call.namespace \in Schemas
        /\ table' = table /\ call'.op = call.op /\ call'.alias = call.alias
        /\ call'.namespace = call.namespace
        /\ \/ macros' = [macros EXCEPT ![call.alias][f] = Mirror(call.namespace)]
           \/ macros' = macros
    BY <1>9, MirrorOneStep
  <2>2. CASE macros' = macros
    BY <2>1, <2>2, DescentKept
  <2>3. CASE macros' = [macros EXCEPT ![call.alias][f] = Mirror(call.namespace)]
    <3>1. Mirror(call.namespace) \in Macro /\ Mirror(call.namespace).of = call.namespace
      BY <2>1, MacroKinds DEF Mirror
    <3>2. rank[call.namespace] < rank[call.alias]
      BY <2>1 DEF DescentInv
    <3> QED
      BY <2>1, <2>3, <3>1, <3>2, DescentOfMacro
  <2> QED
    BY <2>1, <2>2, <2>3
<1>10. ASSUME EndRow PROVE Quiet
  <2> DEFINE next == [call EXCEPT !.op = "replay",
                        !.rows[call.alias] = NoSchema, !.alias = NoSchema,
                        !.namespace = NoSchema, !.names = {},
                        !.created = FALSE]
  <2>1. next.op = "replay" /\ [next EXCEPT !.clean = FALSE].op = "replay"
    BY <1>0 DEF Call
  <2>2. call' \in {next, [next EXCEPT !.clean = FALSE]}
    BY <1>10 DEF EndRow
  <2> HIDE DEF next
  <2> QED
    BY <1>10, <2>1, <2>2 DEF EndRow, database
<1>11. ASSUME NEW d \in Declarations, Declare(d[1], d[2])
       PROVE  DescentInv(rank)'
  <2>1. /\ UNCHANGED <<macros, table>>
        /\ call'.alias = d[1] /\ call'.namespace = d[2]
    BY <1>11 DEF Declare, Begins, NoCall, database
  <2> QED
    BY <2>1 DEF DescentInv, IsRanking
<1>12. ASSUME EndMirror PROVE Quiet
  <2>1. call' = NoCall \/ call' = [call EXCEPT !.op = "persist"]
    BY <1>12 DEF EndMirror
  <2> QED
    BY <1>0, <1>12, <2>1 DEF EndMirror, NoCall, Call, database
<1>13. CASE Persist
  <2>1. /\ macros' = macros /\ call' = NoCall /\ call.op = "persist"
        /\ call.alias \in Schemas /\ table \in Rows
        /\ table' \in {table, [table EXCEPT ![call.alias] = call.namespace]}
    BY <1>0, <1>13 DEF Persist, IInv, CallInv, TypeOK
  <2> QED
    BY <2>1 DEF DescentInv, NoCall, Rows
<1>14. ASSUME NEW s \in Schemas, NEW f \in Functions, RegisterMacro(s, f)
       PROVE  DescentInv(rank)'
  <2>1. Component \in Macro /\ Component.calls # "schema"
    BY MacroKinds DEF Component
  <2>2. /\ macros' = [macros EXCEPT ![s][f] = Component]
        /\ table' = table /\ call' = NoCall
    BY <1>14 DEF RegisterMacro, Begins
  <2>3. call'.op = "none"
    BY <2>2 DEF NoCall
  <2> QED
    BY <2>1, <2>2, <2>3, DescentOfMacro
<1>15. CASE Exit
  <2>1. call'.op = "none"
    BY <1>15 DEF Exit, NoCall
  <2>2. CASE UNCHANGED database
    BY <2>1, <2>2, DescentKept DEF database
  <2>3. CASE ~UNCHANGED database
    <3>1. /\ macros' = [s \in Schemas |-> [f \in Functions |-> NoMacro]]
          /\ table' = NoRows
      BY <1>15, <2>3 DEF Exit
    <3> QED
      BY <2>1, <3>1 DEF DescentInv, NoMacro, NoRows
  <2> QED
    BY <2>2, <2>3
<1>16. ASSUME Quiet PROVE DescentInv(rank)'
  BY <1>16, DescentKept
<1> HIDE DEF Quiet
<1> QED
  BY <1>1, <1>2, <1>3, <1>4, <1>5, <1>6, <1>7, <1>8, <1>9, <1>10, <1>11,
     <1>12, <1>13, <1>14, <1>15, <1>16 DEF Next, AtRest

\* Down the layers, what is mirrored is there, and the lowest layer mirrors
\* nothing: the chain from a macro of layer n has at most n macros.
LEMMA DescentLeads ==
    ASSUME IInv, NEW rank, IsRanking(rank), DescentInv(rank),
           Cardinality(Schemas) \in Nat
    PROVE  AliasesLead
<1> DEFINE Leads(n) == \A s \in Schemas, f \in Functions :
             macros[s][f] # NoMacro /\ rank[s] =< n => <<s, f>> \in Reaching[n]
           Astray == {n \in Nat : ~Leads(n)}
<1>1. ASSUME Astray # {} PROVE FALSE
  <2>1. PICK n \in Astray : \A k \in Astray : n =< k
    <3> HIDE DEF Astray
    <3>1. Astray \in SUBSET Nat
      BY DEF Astray
    <3> QED
      BY <1>1, <3>1, LeastNumber
  <2>2. PICK s \in Schemas, f \in Functions :
          macros[s][f] # NoMacro /\ rank[s] =< n /\ <<s, f>> \notin Reaching[n]
    BY <2>1
  <2>3. n # 0 /\ n - 1 \in Nat /\ Leads(n - 1)
    BY <2>1, <2>2 DEF IsRanking
  <2>4. macros[s][f] \in Macro
    BY <2>2 DEF IInv, TypeOK
  <2>5. macros[s][f].calls = "schema" => <<macros[s][f].of, f>> \in Reaching[n - 1]
    <3> SUFFICES ASSUME macros[s][f].calls = "schema"
                 PROVE  <<macros[s][f].of, f>> \in Reaching[n - 1]
      OBVIOUS
    <3>1. macros[s][f].of \in Schemas
      BY <2>4 DEF Macro
    <3>2. macros[macros[s][f].of][f] # NoMacro
      BY DEF IInv, MirrorsFind
    <3>3. rank[macros[s][f].of] < rank[s]
      BY DEF DescentInv
    <3>4. rank[macros[s][f].of] \in Nat /\ rank[s] \in Nat
      BY <3>1 DEF IsRanking
    <3> QED
      BY <2>2, <2>3, <3>1, <3>2, <3>3, <3>4
  <2>6. macros[s][f].calls \in {"community", "component", "schema"}
    BY <2>4 DEF Macro
  <2>7. <<s, f>> \in Extended(Reaching[n - 1])
    BY <2>5, <2>6 DEF Extended
  <2> QED
    BY <2>2, <2>3, <2>7, ReachingUnfolds
<1>2. Leads(Cardinality(Schemas))
  BY <1>1
<1> QED
  BY <1>2 DEF AliasesLead, IsRanking

-----------------------------------------------------------------------------
(* The theorems *)

\* The macros of the schemas and the rows of ducklink.prefixes are of their
\* types, and the call that holds rt.con is in one of its stages.
THEOREM PrefixesTyped == Spec => []TypeOK
BY Invariance, PTL DEF IInv

\* run_ducklink_prefix records a prefix only if its schema has a macro, and no
\* crash or failing statement parts the two: what ducklink.prefixes keeps for
\* later sessions serves.
THEOREM PrefixesServe == Spec => []KeptPrefixesServe
BY Invariance, PTL DEF IInv

\* replay_persisted_prefixes, if none of its statements failed, has made of
\* every kept prefix a mirror of all that its namespace has.
THEOREM ReplayIsWhole == Spec => []ReplayMirrors
<1>1. IInv => ReplayMirrors
  <2> SUFFICES ASSUME IInv, Replayed, call.clean, NEW a \in Schemas,
                      IsPlain(a), NEW f \in NamesIn(table[a])
               PROVE  macros[a][f] = Mirror(table[a])
    BY DEF ReplayMirrors, IsPlain
  <2>1. call.op = "replay" /\ call.rows[a] = NoSchema
    BY DEF Replayed, NoRows
  <2> QED
    BY <2>1 DEF IInv, ProgressInv
<1> QED
  BY <1>1, Invariance, PTL

\* create_prefix_aliases, called for a row by a load, turns the macros of a
\* prefix to the namespace that was declared for it last, if persist_prefix
\* could record that: a load never brings an older declaration back.
THEOREM LoadsKeepDeclarations == Spec => DeclarationsStick
<1> DEFINE Kept ==
        \A a \in Schemas \ unkept, f \in Functions :
            macros'[a][f] \in {macros[a][f], NoMacro, Mirror(declared[a])}
<1>1. ASSUME IInv, [Next]_vars, call.op = "mirror" PROVE Kept
  <2>1. ASSUME macros' = macros PROVE Kept
    BY <2>1
  <2>2. call # NoCall
    BY <1>1 DEF NoCall
  <2>3. ASSUME NEW f \in Functions, MirrorOne(f) PROVE Kept
    <3>1. TypeOK /\ call.alias \in Schemas /\ call.namespace \in Schemas
      BY <1>1, <2>3, MirrorOneStep
    <3>2. \/ macros' = [macros EXCEPT ![call.alias][f] =
                           Mirror(call.namespace)]
          \/ macros' = macros
      BY <1>1, <2>3, MirrorOneStep
    <3>3. call.alias \notin unkept => call.namespace = declared[call.alias]
      BY <1>1, <3>1 DEF IInv, RowsInv, RecordedInv
    <3>4. CASE macros' = [macros EXCEPT ![call.alias][f] =
                              Mirror(call.namespace)]
      <4>1. \A t \in Schemas, g \in Functions :
              macros'[t][g] = IF t = call.alias /\ g = f
                              THEN Mirror(call.namespace) ELSE macros[t][g]
        BY <3>1, <3>4 DEF TypeOK
      <4> SUFFICES ASSUME NEW t \in Schemas \ unkept, NEW g \in Functions
                   PROVE  macros'[t][g] \in
                            {macros[t][g], NoMacro, Mirror(declared[t])}
        OBVIOUS
      <4> QED
        BY <3>3, <4>1
    <3> QED
      BY <2>1, <3>2, <3>4
  <2>4. CASE Exit
    BY <2>1, <2>4 DEF Exit, database
  <2>5. ASSUME NEW e \in Entries, NativeLoad(e) \/ CommunityLoad(e) PROVE FALSE
    BY <2>2, <2>5 DEF NativeLoad, CommunityLoad, Begins
  <2>6. ASSUME NEW f \in Functions, AliasAggregate(f) \/ AliasBare(f)
        PROVE  FALSE
    BY <1>1, <2>6 DEF AliasAggregate, AliasBare
  <2>7. ~AliasInNamespace
    BY <1>1 DEF AliasInNamespace
  <2>8. ASSUME NEW s \in Schemas, NEW f \in Functions, RegisterMacro(s, f)
        PROVE  FALSE
    BY <2>2, <2>8 DEF RegisterMacro, Begins
  <2>9. ASSUME NEW d \in Declarations, Declare(d[1], d[2]) PROVE FALSE
    BY <2>2, <2>9 DEF Declare, Begins
  <2>10. ASSUME NEW a \in Schemas, ReplayRow(a) PROVE Kept
    BY <2>1, <2>10 DEF ReplayRow, database
  <2>11. CASE EndRow
    BY <2>1, <2>11 DEF EndRow, database
  <2>12. ~AliasesFail /\ ~BeginReplay /\ ~EndLoad /\ ~EndMirror /\ ~Persist
    BY <1>1 DEF AliasesFail, BeginReplay, EndLoad, Replayed, EndMirror, Persist
  <2>13. CASE UNCHANGED vars
    BY <2>1, <2>13 DEF vars, database
  <2> HIDE DEF Kept
  <2> QED
    BY <1>1, <2>3, <2>4, <2>5, <2>6, <2>7, <2>8, <2>9, <2>10, <2>11, <2>12,
       <2>13 DEF Next, AtRest
<1> HIDE DEF Kept
<1>2. ASSUME IInv, [Next]_vars
      PROVE  [call.op = "mirror" => Kept]_vars
  BY <1>1, <1>2
<1> USE DEF Kept
<1> QED
  BY <1>2, Invariance, PTL DEF Spec, DeclarationsStick

\* create_prefix_aliases makes macros that call each other, through prefixes of
\* prefixes: whatever loads, replays and crashes do to them, each leads to a
\* function in the end, if no prefix is declared for itself in a circle.
THEOREM AliasesReachFunctions ==
    ASSUME Layered, IsFiniteSet(Schemas)
    PROVE  Spec => []AliasesLead
<1>1. PICK rank : IsRanking(rank)
  BY DEF Layered
<1>2. Cardinality(Schemas) \in Nat
  BY FS_CardinalityType
<1>3. Init => DescentInv(rank)
  BY InitDescends
<1>4. IInv /\ DescentInv(rank) /\ [Next]_vars => DescentInv(rank)'
  BY <1>1, NextDescends
<1>5. IInv /\ DescentInv(rank) => AliasesLead
  BY <1>1, <1>2, DescentLeads
<1> QED
  BY <1>3, <1>4, <1>5, Invariance, PTL DEF Spec
=============================================================================
