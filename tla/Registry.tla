------------------------------ MODULE Registry ------------------------------
(***************************************************************************)
(* server._register_tools and the dispatch that relies on it.              *)
(*                                                                         *)
(* Importing the server walks the tool modules and collects every tagged   *)
(* function into its group, then turns each group into an operation table  *)
(* (_group_ops), an index of which group an operation belongs to           *)
(* (_all_grouped) and an MCP tool.  A grouped function that declares       *)
(* **kwargs, or a doc that names an operation that is not there, ends the  *)
(* import.  Both dictionaries are keyed by names that more than one        *)
(* function can claim: two modules may define the same function name in    *)
(* one group, two names may have the same PascalCase form, two groups may  *)
(* hold an operation of the same name.  The later one silently wins, in    *)
(* each dictionary on its own.                                             *)
(***************************************************************************)
EXTENDS Integers, Sequences, FiniteSets

CONSTANTS
    Names,      \* attribute names of tool functions
    Groups,     \* the meta-tools
    Root,       \* the group whose functions are tools of their own
    Ops,        \* PascalCase operation names
    Pascal,     \* _to_pascal
    MaxTools,   \* bound on the number of tagged functions
    DocOps,     \* the operations each group's doc refers to with $OpName
    None

ASSUME RegistryAssumption ==
    /\ Pascal \in [Names -> Ops]
    /\ DocOps \in [Groups -> SUBSET Ops]
    /\ Root \notin Groups
    /\ MaxTools \in Nat
    /\ None \notin Groups \cup Ops

\* A tagged function, in the order in which walk_packages and getmembers
\* come across it; `explicit` when it declares no **kwargs.
Tools == [name : Names, group : Groups \cup {Root}, explicit : BOOLEAN]

VARIABLES
    tagged,     \* the functions of the package, in walking order
    walked,     \* how many of them were looked at
    groups,     \* for each group, function name -> [fn, place]
    pending,    \* the groups still to be turned into a table, in order
    tables,     \* _group_ops
    index,      \* _all_grouped
    served,     \* the MCP tools registered so far
    phase,      \* "walking", "tabling", "ready", "aborted"
    ask,        \* an agent's attempt to call an operation
    found       \* the answer to an agent's search

vars == <<tagged, walked, groups, pending, tables, index, served, phase, ask, found>>

agent == <<ask, found>>

NoFunctions == [x \in {} |-> 0]

\* d[key] = value
Put(d, key, value) == [x \in DOMAIN d \cup {key} |-> IF x = key THEN value ELSE d[x]]

Init ==
    /\ tagged \in UNION {[1..n -> Tools] : n \in 0..MaxTools}
    /\ walked = 0
    /\ groups = NoFunctions
    /\ pending = <<>>
    /\ tables = NoFunctions
    /\ index = NoFunctions
    /\ served = {}
    /\ phase = "walking"
    /\ ask = None /\ found = None

(***************************************************************************)
(* _register_tools                                                         *)
(***************************************************************************)

\* A ROOT function becomes a tool at once.
WalkRoot ==
    /\ phase = "walking" /\ walked < Len(tagged)
    /\ tagged[walked + 1].group = Root
    /\ served' = served \cup {tagged[walked + 1].name}
    /\ walked' = walked + 1
    /\ UNCHANGED <<tagged, groups, pending, tables, index, phase, agent>>

\* Faulty WalkGrouped: the group is opened anew by each of its functions.
WalkReopening ==
    /\ phase = "walking" /\ walked < Len(tagged)
    /\ tagged[walked + 1].group # Root /\ tagged[walked + 1].explicit
    /\ groups' = Put(groups, tagged[walked + 1].group,
                     Put(NoFunctions, tagged[walked + 1].name,
                         [fn |-> walked + 1, place |-> walked + 1]))
    /\ pending' = IF tagged[walked + 1].group \in DOMAIN groups THEN pending
                  ELSE Append(pending, tagged[walked + 1].group)
    /\ walked' = walked + 1
    /\ UNCHANGED <<tagged, tables, index, served, phase, agent>>

\* Any other is collected under its name; a group is opened by its first
\* function.  A dict keeps the place of a key that is assigned again.
WalkGrouped ==
    /\ phase = "walking" /\ walked < Len(tagged)
    /\ LET g == tagged[walked + 1].group
           known == g \in DOMAIN groups
           fns == IF known THEN groups[g] ELSE NoFunctions
           n == tagged[walked + 1].name IN
         /\ g # Root /\ tagged[walked + 1].explicit
         /\ groups' = Put(groups, g, Put(fns, n,
                [fn |-> walked + 1,
                 place |-> IF n \in DOMAIN fns THEN fns[n].place ELSE walked + 1]))
         /\ pending' = IF known THEN pending ELSE Append(pending, g)
    /\ walked' = walked + 1
    /\ UNCHANGED <<tagged, tables, index, served, phase, agent>>

\* _prepare_op builds the params model first, which raises RuntimeError for
\* a function with **kwargs: the import fails in the middle of the walk.
AbortWalk ==
    /\ phase = "walking" /\ walked < Len(tagged)
    /\ tagged[walked + 1].group # Root /\ ~tagged[walked + 1].explicit
    /\ phase' = "aborted"
    /\ UNCHANGED <<tagged, walked, groups, pending, tables, index, served, agent>>

EndWalk ==
    /\ phase = "walking" /\ walked = Len(tagged)
    /\ phase' = "tabling"
    /\ UNCHANGED <<tagged, walked, groups, pending, tables, index, served, agent>>

\* {_to_pascal(n): fn for n, fn in fns.items()}: of the names with the same
\* form the one with the last place wins.
TableOf(fns) ==
    [o \in {Pascal[n] : n \in DOMAIN fns} |->
        LET same == {n \in DOMAIN fns : Pascal[n] = o} IN
        fns[CHOOSE n \in same : \A m \in same : fns[m].place <= fns[n].place].fn]

\* Faulty Table: every group with functions is indexed under the operations
\* of all groups tabled so far.
TableIndexingAll ==
    /\ phase = "tabling" /\ pending # <<>>
    /\ LET g == Head(pending)
           t == TableOf(groups[g]) IN
         /\ tables' = Put(tables, g, t)
         /\ DocOps[g] \subseteq DOMAIN t
         /\ index' = [o \in DOMAIN index \cup DOMAIN t |-> g]
         /\ served' = served \cup {g}
    /\ pending' = Tail(pending)
    /\ UNCHANGED <<tagged, walked, groups, phase, agent>>

\* The next group: its table is published, its doc is rendered, its
\* operations are indexed and its tool is registered.
Table ==
    /\ phase = "tabling" /\ pending # <<>>
    /\ LET g == Head(pending)
           t == TableOf(groups[g]) IN
         /\ tables' = Put(tables, g, t)
         /\ DocOps[g] \subseteq DOMAIN t
         /\ index' = [o \in DOMAIN index \cup DOMAIN t |->
                          IF o \in DOMAIN t THEN g ELSE index[o]]
         /\ served' = served \cup {g}
    /\ pending' = Tail(pending)
    /\ UNCHANGED <<tagged, walked, groups, phase, agent>>

\* A doc refers to an operation that is not there: RuntimeError, the import
\* fails and there is no server.
Abort ==
    /\ phase = "tabling" /\ pending # <<>>
    /\ LET g == Head(pending)
           t == TableOf(groups[g]) IN
         /\ tables' = Put(tables, g, t)
         /\ ~(DocOps[g] \subseteq DOMAIN t)
    /\ phase' = "aborted"
    /\ UNCHANGED <<tagged, walked, groups, pending, index, served, agent>>

Serve ==
    /\ phase = "tabling" /\ pending = <<>>
    /\ phase' = "ready"
    /\ UNCHANGED <<tagged, walked, groups, pending, tables, index, served, agent>>

(***************************************************************************)
(* _dispatch, and an agent that follows what it is told                    *)
(***************************************************************************)

\* Faulty Dispatch: the index is asked before the group's own table.
DispatchByIndex(g, o) ==
    IF o \in DOMAIN index THEN [result |-> IF index[o] = g THEN "unknown" ELSE "redirect",
                                to |-> index[o]]
    ELSE [result |-> "unknown", to |-> g]

\* The answer of group g to operation o: it runs, the agent is told which
\* group it belongs to, or it is unknown.
Dispatch(g, o) ==
    CASE o \in DOMAIN tables[g] -> [result |-> "runs", to |-> g]
      [] o \notin DOMAIN tables[g] /\ o \in DOMAIN index ->
             [result |-> "redirect", to |-> index[o]]
      [] OTHER -> [result |-> "unknown", to |-> g]

\* An agent calls operation o through the tool of group g.
Call ==
    /\ phase = "ready" /\ agent = <<None, None>>
    /\ \E g \in served \cap DOMAIN tables, o \in Ops :
         ask' = [op |-> o, first |-> g, hops |-> 0, answer |-> Dispatch(g, o)]
    /\ UNCHANGED <<tagged, walked, groups, pending, tables, index, served, phase, found>>

\* It calls again through the group the error names.
Follow ==
    /\ phase = "ready" /\ ask # None
    /\ ask.answer.result = "redirect" /\ ask.hops < 2
    /\ ask' = [ask EXCEPT !.hops = @ + 1,
                          !.answer = Dispatch(ask.answer.to, ask.op)]
    /\ UNCHANGED <<tagged, walked, groups, pending, tables, index, served, phase, found>>

\* Faulty Matches: other groups are looked at when the own one has no match.
MatchesOwnFirst(g, hits) ==
    LET own == {o \in DOMAIN tables[g] : tables[g][o] \in hits} IN
    [h \in DOMAIN tables |->
        IF h = g THEN own
        ELSE {o \in DOMAIN index : own = {} /\ index[o] = h /\ tables[h][o] \in hits}]

\* _build_help of group g with a search that the functions `hits` contain in
\* their names or docstrings: the operations it names, group by group.  Those
\* of other groups are looked up in the index.
Matches(g, hits) ==
    [h \in DOMAIN tables |->
        IF h = g THEN {o \in DOMAIN tables[g] : tables[g][o] \in hits}
        ELSE {o \in DOMAIN index : index[o] = h /\ tables[h][o] \in hits}]

\* _build_schema of one operation: described or "Unknown operation", never a
\* redirect.
Described(g, o) == o \in DOMAIN tables[g]

\* The functions of the groups; those of ROOT have no part in help.
Grouped == {i \in 1..Len(tagged) : tagged[i].group # Root}

\* An agent searches through the tool of group g.
Search ==
    /\ phase = "ready" /\ agent = <<None, None>>
    /\ \E g \in served \cap DOMAIN tables, hits \in SUBSET Grouped :
         found' = [by |-> g, hits |-> hits, names |-> Matches(g, hits)]
    /\ UNCHANGED <<tagged, walked, groups, pending, tables, index, served, phase, ask>>

Rest ==
    /\ phase = "aborted" \/ phase = "ready"
    /\ UNCHANGED vars

Register ==
    WalkRoot \/ WalkGrouped \/ AbortWalk \/ EndWalk \/ Table \/ Abort \/ Serve

Next == Register \/ Call \/ Follow \/ Search \/ Rest

Spec == Init /\ [][Next]_vars

(***************************************************************************)
(* Properties                                                              *)
(***************************************************************************)

\* The index never names a group that does not hold the operation: neither
\* the redirect nor the search over other groups of _build_help, which
\* subscripts _group_ops with what it finds in _all_grouped, can fail.
IndexSound ==
    \A o \in DOMAIN index :
        index[o] \in DOMAIN tables /\ o \in DOMAIN tables[index[o]]

\* An agent that follows a redirect runs its operation with the next call,
\* and is told "unknown" only of an operation that no group has.
RedirectsConverge ==
    ask # None =>
        /\ ask.hops <= 1
        /\ ask.hops = 1 => ask.answer.result = "runs"
        /\ ask.answer.result = "unknown" => \A g \in DOMAIN tables : ask.op \notin DOMAIN tables[g]

\* No two functions claim the same operation of the same group.
Unambiguous ==
    \A i, j \in 1..Len(tagged) :
        tagged[i].group = tagged[j].group /\ Pascal[tagged[i].name] = Pascal[tagged[j].name]
            => i = j

\* Every operation name a function stands for is served by its group, by a
\* function of that group and name, and by that very function unless names
\* collide.
NothingLost ==
    phase = "ready" =>
        \A i \in 1..Len(tagged) :
            LET g == tagged[i].group
                o == Pascal[tagged[i].name] IN
            IF g = Root THEN tagged[i].name \in served
            ELSE /\ g \in served /\ o \in DOMAIN tables[g]
                 /\ LET fn == tagged[tables[g][o]] IN
                      fn.group = g /\ Pascal[fn.name] = o
                 /\ Unambiguous => tables[g][o] = i

\* No other function of any group claims the operation of function i.
Alone(i) ==
    \A j \in Grouped : Pascal[tagged[j].name] = Pascal[tagged[i].name] => i = j

\* A search tells the truth, through whichever group it is made: what it names
\* for a group is described and run by that group and is a match, and
\* every match whose operation name no other function claims is named for its
\* group.
SearchHonest ==
    found # None =>
        /\ \A g \in DOMAIN found.names : \A o \in found.names[g] :
             /\ Described(g, o)
             /\ Dispatch(g, o).result = "runs"
             /\ tables[g][o] \in found.hits
        /\ \A i \in found.hits :
             Alone(i) => Pascal[tagged[i].name] \in found.names[tagged[i].group]
=============================================================================
