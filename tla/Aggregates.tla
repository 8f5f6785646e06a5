----------------------------- MODULE Aggregates -----------------------------
(***************************************************************************)
(* The aggregate functions of the extension, as DuckDB calls them: those   *)
(* of wasm components (agg_* in src/reg_duckdb.rs) and those that delegate *)
(* to a community extension's aggregate (src/delegating_agg.rs).  One      *)
(* query uses one aggregate.  DuckDB makes states, puts rows into them,    *)
(* merges them, asks for their values and destroys them; the order of      *)
(* these calls is DuckDB's, not the code's.  It may merge a state twice,   *)
(* for windows, and pass one state for a whole chunk, for sorted input.    *)
(*                                                                         *)
(* The value of a group is represented by the rows it is computed from.    *)
(***************************************************************************)
EXTENDS ColumnState

CONSTANTS
    States,       \* each stands for one life of a state, from init to destroy
    NoState,      \* the null pointer
    Kinds,        \* the registrations that are tried
    Alike, Literal, NoReading,    \* see Delegation
    Readings,     \* what SQL reads literals as
    Rows,         \* the rows of the input
    MaxChunk,     \* bound on the rows of a chunk
    MaxRows,      \* bound on the rows of the input, and of a state
    MaxAnswers,   \* bound on the answers of the query
    NoAnswer

INSTANCE Delegation

\* Column-native with fixed-width arguments, or with TEXT or BLOB ones;
\* row-major, for DECIMAL, INTERVAL, UUID and complex ones; delegating.
AllKinds == {"primitive", "text", "wide", "delegating"}
ColNative == {"primitive", "text"}

ASSUME KindsAssumption == Kinds \subseteq AllKinds
ASSUME NoStateAssumption == NoState \notin States
ASSUME RowsAssumption == Rows \subseteq Row
ASSUME BoundsAssumption ==
    MaxChunk \in Nat /\ MaxRows \in Nat /\ MaxAnswers \in Nat

\* What is alike is written alike, or read alike: -0 is the INTEGER 0.
ASSUME LiteralAssumption ==
    /\ Literal \in [Values \cup {Null} -> Readings \cup {NoReading}]
    /\ NoReading \notin Readings
    /\ \A pair \in Alike : Literal[pair[1]] = Literal[pair[2]]

VARIABLES
    kind,       \* of the aggregate this query uses
    status,     \* what DuckDB does with each state
    columns,    \* AggState::ColNative
    rowMajor,   \* AggState::RowMajor, DelegatingAggState.rows
    call,       \* the callback in progress
    vector,     \* the result vector, by place
    query,      \* how the query stands
    fed,        \* how many rows of the input DuckDB has passed on
    given,      \* history: the rows DuckDB has put into each state
    robbed,     \* history: states merged with what an earlier merge had emptied
    asked       \* history: the group each place should be computed from

vars == <<kind, status, columns, rowMajor, call, vector, query, fed, given,
          robbed, asked>>

-----------------------------------------------------------------------------
(* Types *)

\* A kept state has been merged into another and may be again.
Status == {"unborn", "held", "kept", "merged", "spent", "free"}
\* agg_guard makes an error of a panic; nothing survives a bad pointer.
Outcome == {"running", "done", "failed", "panicked", "crashed"}

\* targets are the states that the callback uses for the rows, or those it
\* finalizes; meant are the states DuckDB means.  place is where the next
\* answer goes: the offset DuckDB passed, and one more per answer.
Call == [op : {"none", "append", "push", "finalize"}, rows : Seq(Row),
         targets : Seq(States \cup {NoState}), meant : Seq(States),
         place : Nat]
NoCall == [op |-> "none", rows |-> <<>>, targets |-> <<>>, meant |-> <<>>,
           place |-> 0]

Value(rows) == [is |-> "value", of |-> rows]
NullAnswer == [is |-> "null", of |-> <<>>]
Answer == [is : {"value", "null"},
           of : Seq([Columns -> Values \cup {Null} \cup Readings])]
Group == [rows : Seq(Row), robbed : BOOLEAN]

ASSUME NoAnswerAssumption == NoAnswer \notin Answer

Init ==
    /\ kind \in Kinds
    /\ status = [s \in States |-> "unborn"]
    /\ columns = [s \in States |-> NewState]
    /\ rowMajor = [s \in States |-> <<>>]
    /\ call = NoCall
    /\ vector = <<>>
    /\ query = "running"
    /\ fed = 0
    /\ given = [s \in States |-> <<>>]
    /\ robbed = {}
    /\ asked = <<>>

-----------------------------------------------------------------------------
(* State predicates *)

Idle == query = "running" /\ call.op = "none"

\* The rows that a state stands for.
RowsIn(s) ==
    IF kind \in ColNative THEN RowsOf(columns[s]) ELSE rowMajor[s]

Whole(s) == DOMAIN columns[s].cells = Columns

-----------------------------------------------------------------------------
(* agg_init, init *)

InitState(s) ==
    /\ Idle /\ status[s] = "unborn"
    /\ status' = [status EXCEPT ![s] = "held"]
    /\ columns' = [columns EXCEPT ![s] = NewState]
    /\ rowMajor' = [rowMajor EXCEPT ![s] = <<>>]
    /\ given' = [given EXCEPT ![s] = <<>>]
    /\ UNCHANGED <<kind, call, vector, query, fed, robbed, asked>>

-----------------------------------------------------------------------------
(* agg_update, update *)

\* The sign of a shared state: a null pointer in slot 1.
SingleState(slots) == Len(slots) >= 2 /\ slots[2] = NoState

\* The state that the callback uses for each row.  Only the delegating one
\* looks for the sign.
Targets(slots) ==
    IF kind = "delegating" /\ SingleState(slots)
    THEN [i \in DOMAIN slots |-> slots[1]]
    ELSE slots

\* What DuckDB may pass for rows meant for certain states: these, or, if all
\* of them are one, this one, a null pointer and rubbish.
SlotsFor(meant) ==
    {meant} \cup
    IF \A i \in DOMAIN meant : meant[i] = meant[1]
    THEN {f \in [DOMAIN meant -> States \cup {NoState}] :
             SingleState(f) /\ f[1] = meant[1]}
    ELSE {}

\* append: the fast path, when all rows of the chunk go to one state.
BeginUpdate(rows, meant, slots) ==
    LET targets == Targets(slots)
        uniform == \A i \in DOMAIN targets : targets[i] = targets[1]
    IN /\ Idle
       /\ \A i \in DOMAIN meant : status[meant[i]] = "held"
       /\ fed' = fed + Len(rows) /\ fed' <= MaxRows
       /\ call' = [op |-> IF kind = "primitive" /\ uniform THEN "append"
                          ELSE "push",
                   rows |-> rows, targets |-> targets, meant |-> meant,
                   place |-> 0]
       /\ UNCHANGED <<kind, status, columns, rowMajor, vector, query, given,
                      robbed, asked>>

AppendRows(under) ==
    /\ call.op = "append"
    /\ LET s == Head(call.targets)
       IN /\ columns' =
               [columns EXCEPT ![s] = AppendChunk(@, call.rows, under)]
          /\ given' = [given EXCEPT ![Head(call.meant)] = @ \o call.rows]
    /\ call' = NoCall
    /\ UNCHANGED <<kind, status, rowMajor, vector, query, fed, robbed, asked>>

\* The first row that is left; delegating passes over a row without a state.
PushOne ==
    /\ call.op = "push"
    /\ kind = "delegating" \/ Head(call.targets) # NoState
    /\ LET s == Head(call.targets)
           row == Head(call.rows)
       IN /\ columns' = IF kind \in ColNative
                        THEN [columns EXCEPT ![s] = PushRow(@, row)]
                        ELSE columns
          /\ rowMajor' = IF kind \notin ColNative /\ s # NoState
                         THEN [rowMajor EXCEPT ![s] = Append(@, row)]
                         ELSE rowMajor
          /\ given' = [given EXCEPT ![Head(call.meant)] = Append(@, row)]
    /\ call' = IF Len(call.rows) = 1 THEN NoCall
               ELSE [call EXCEPT !.rows = Tail(@), !.targets = Tail(@),
                                 !.meant = Tail(@)]
    /\ UNCHANGED <<kind, status, vector, query, fed, robbed, asked>>

\* agg_update follows the pointer of every row, a null one too.
Crash ==
    /\ call.op = "push"
    /\ kind # "delegating" /\ Head(call.targets) = NoState
    /\ query' = "crashed"
    /\ call' = NoCall
    /\ UNCHANGED <<kind, status, columns, rowMajor, vector, fed, given, robbed,
                   asked>>

-----------------------------------------------------------------------------
(* agg_combine, combine *)

\* The columns are indexed one by one: a source that has fewer is a panic,
\* before anything of the target has changed.
CombineColumns(s, t) ==
    /\ columns' = [columns EXCEPT
                     ![t] = IF Whole(s) THEN Joined(@, columns[s]) ELSE @,
                     ![s] = Gutted]
    /\ query' = IF Whole(s) THEN query ELSE "panicked"
    /\ UNCHANGED rowMajor

CombineRows(s, t) ==
    /\ rowMajor' = [rowMajor EXCEPT
                      ![t] = @ \o rowMajor[s],
                      ![s] = IF kind = "wide" THEN <<>> ELSE @]
    /\ UNCHANGED <<columns, query>>

\* A kept source was emptied when it was merged before, unless it was cloned.
Emptied(s) == status[s] = "kept" /\ kind # "delegating"

\* DuckDB may be through with the source, or keep it.  A panic is an error of
\* the query: the target has not been given the rows.
Combine(s, t) ==
    /\ Idle /\ s # t /\ status[t] = "held"
    /\ status[s] \in {"held", "kept"}
    /\ Len(given[s]) + Len(given[t]) <= MaxRows
    /\ \E st \in {"merged", "kept"} : status' = [status EXCEPT ![s] = st]
    /\ IF kind \in ColNative THEN CombineColumns(s, t) ELSE CombineRows(s, t)
    /\ IF query' = "panicked" THEN UNCHANGED <<given, robbed>>
       ELSE /\ given' = [given EXCEPT ![t] = @ \o given[s]]
            /\ robbed' = IF Emptied(s) \/ s \in robbed THEN robbed \cup {t}
                         ELSE robbed
    /\ UNCHANGED <<kind, call, vector, fed, asked>>

-----------------------------------------------------------------------------
(* agg_finalize, finalize *)

\* DuckDB asks for the next places of the vector.
BeginFinalize(ss) ==
    /\ Idle
    /\ Len(asked) + Len(ss) <= MaxAnswers
    /\ \A i \in DOMAIN ss : status[ss[i]] = "held"
    /\ call' = [NoCall EXCEPT !.op = "finalize", !.targets = ss, !.meant = ss,
                              !.place = Len(vector) + 1]
    /\ asked' = asked \o [i \in DOMAIN ss |->
                              [rows |-> given[ss[i]], robbed |-> ss[i] \in robbed]]
    /\ vector' = vector \o [i \in DOMAIN ss |-> NoAnswer]
    /\ UNCHANGED <<kind, status, columns, rowMajor, query, fed, given, robbed>>

Current == Head(call.targets)

\* The group is answered at its place, and the next one is due.
WriteAnswer(answer) ==
    /\ vector' = [vector EXCEPT ![call.place] = answer]
    /\ status' = [status EXCEPT ![Current] = "spent"]
    /\ call' = IF Len(call.targets) = 1 THEN NoCall
               ELSE [call EXCEPT !.targets = Tail(@), !.meant = Tail(@),
                                 !.place = @ + 1]
    /\ UNCHANGED <<kind, query, fed, given, robbed, asked>>

\* Mutant: the callback returns without telling DuckDB.
FailFinalizeSilently ==
    /\ status' = [status EXCEPT ![Current] = "spent"]
    /\ call' = NoCall
    /\ UNCHANGED <<kind, vector, query, fed, given, robbed, asked>>

\* The error ends the call: groups that are left get no answer.
FailFinalize ==
    /\ query' = "failed"
    /\ status' = [status EXCEPT ![Current] = "spent"]
    /\ call' = NoCall
    /\ UNCHANGED <<kind, vector, fed, given, robbed, asked>>

\* The pivot of row-major rows knows none of the types that make them row-major.
Pivots(rows) == kind = "wide" => rows = <<>>

\* A wasm aggregate takes the state's rows first.
FinalizeWasm ==
    /\ call.op = "finalize" /\ kind # "delegating"
    /\ columns' = [columns EXCEPT ![Current] = Gutted]
    /\ rowMajor' = [rowMajor EXCEPT ![Current] = <<>>]
    /\ \/ /\ Pivots(rowMajor[Current])
          /\ WriteAnswer(Value(RowsIn(Current)))
       \/ FailFinalize

\* run_delegation_and_write
Delegated(rows) == Value(SeenByTarget(DelegationQuery(rows)))

\* The nested query may fail: the answer is NULL then, as it is for no rows.
FinalizeDelegating ==
    /\ call.op = "finalize" /\ kind = "delegating"
    /\ \/ WriteAnswer(NullAnswer)
       \/ /\ rowMajor[Current] # <<>>
          /\ Readable(DelegationQuery(rowMajor[Current]))
          /\ WriteAnswer(Delegated(rowMajor[Current]))
    /\ UNCHANGED <<columns, rowMajor>>

-----------------------------------------------------------------------------
(* agg_destroy, destroy *)

\* The states of the query, all of those that were made.
Destroy ==
    /\ call.op = "none" /\ query \notin {"running", "crashed"}
    /\ status' = [s \in States |-> "free"]
    /\ columns' = [s \in States |-> NewState]
    /\ rowMajor' = [s \in States |-> <<>>]
    /\ given' = [s \in States |-> <<>>]
    /\ robbed' = {}
    /\ UNCHANGED <<kind, call, vector, query, fed, asked>>

\* The query has what it needs, or is given up.
EndQuery ==
    /\ Idle
    /\ query' = "done"
    /\ UNCHANGED <<kind, status, columns, rowMajor, call, vector, fed, given,
                   robbed, asked>>

\* A process that has crashed does nothing more.
Dead == query = "crashed" /\ UNCHANGED vars

-----------------------------------------------------------------------------

Distinct(ss) == \A i, j \in DOMAIN ss : ss[i] = ss[j] => i = j

Chunks == UNION {[1 .. n -> Rows] : n \in 1 .. MaxChunk}

\* Each row of a chunk with its state, and then the slots for these.
Update ==
    \E rows \in Chunks : \E meant \in [DOMAIN rows -> States] :
        \E slots \in SlotsFor(meant) : BeginUpdate(rows, meant, slots)

Finalize ==
    \E n \in 1 .. MaxChunk : \E ss \in [1 .. n -> States] :
        Distinct(ss) /\ BeginFinalize(ss)

Next ==
    \/ \E s \in States : InitState(s)
    \/ Update
    \/ \E under \in Values : AppendRows(under)
    \/ PushOne
    \/ Crash
    \/ \E s, t \in States : Combine(s, t)
    \/ Finalize
    \/ FinalizeWasm
    \/ FinalizeDelegating
    \/ EndQuery
    \/ Destroy
    \/ Dead

Spec == Init /\ [][Next]_vars

-----------------------------------------------------------------------------
(* Properties *)

TypeOK ==
    /\ kind \in Kinds
    /\ status \in [States -> Status]
    /\ columns \in [States -> ColumnStates \cup {Gutted}]
    /\ rowMajor \in [States -> Seq(Row)]
    /\ call \in Call
    /\ vector \in Seq(Answer \cup {NoAnswer})
    /\ query \in Outcome
    /\ fed \in 0 .. MaxRows
    /\ given \in [States -> Seq(Row)]
    /\ robbed \subseteq States
    /\ asked \in Seq(Group)

\* A state that DuckDB may still use stands for exactly the rows that were put
\* into it, in their order, NULLs where they were: through either update path,
\* lazy masks and merges.  Between the rows of a chunk too.  Excepted are the
\* states that took rows from a component's state which a merge had emptied.
StatesHoldTheirRows ==
    \A s \in States \ robbed :
        status[s] \in {"held", "kept"} /\ ~Emptied(s) => RowsIn(s) = given[s]

\* A target aggregate gets the rows of the group: each column of it as it is,
\* or throughout as SQL reads the literals of its own values.
Delivers(seen, rows) ==
    /\ Len(seen) = Len(rows)
    /\ \A c \in Columns :
        \/ \A i \in DOMAIN rows : seen[i][c] = rows[i][c]
        \/ \A i \in DOMAIN rows :
                /\ seen[i][c] = Literal[rows[i][c]]
                /\ seen[i][c] # NoReading

AnswerExact(p) ==
    \/ vector[p] = NoAnswer
    \/ asked[p].robbed
    \/ kind # "delegating" /\ vector[p] = Value(asked[p].rows)
    \/ kind = "delegating" /\ vector[p] = NullAnswer
    \/ kind = "delegating" /\ Delivers(vector[p].of, asked[p].rows)

\* What is written at a place is computed from the rows of the group that
\* DuckDB asked about there.  A delegating aggregate may write NULL instead,
\* and a component's may miss rows that a merge had taken before.
AnswersExact == \A p \in DOMAIN vector : AnswerExact(p)

\* A query that ends without an error has all its answers.
FinishedAnswered ==
    query = "done" => \A p \in DOMAIN vector : vector[p] # NoAnswer

=============================================================================
