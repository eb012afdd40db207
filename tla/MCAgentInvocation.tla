-------------------------- MODULE MCAgentInvocation --------------------------
(***************************************************************************)
(* Messages of up to two parts and tasks with a history of up to three     *)
(* messages: text within and beyond the cap, files with and without a      *)
(* count of their own, a count of the agent's own before and after a       *)
(* history, kinds of any length, at every depth of the shape.              *)
(***************************************************************************)
EXTENDS AgentInvocation

\* A dict whose order of keys does not show.
Fields(f) == Dict(f, FALSE)

Short == Str("short", 1)
Long == Str("long", 6)

Parts ==
    {Fields([k \in {"kind", "text"} |-> IF k = "kind" THEN Short ELSE s]) : s \in {Short, Long}}
    \cup {Fields([k \in {"kind", "bytes"} |-> IF k = "kind" THEN Short ELSE raw]) :
              raw \in {Long, List(<<Short>>)}}
    \cup {Fields([k \in {"bytes", "bytes_omitted"} |-> IF k = "bytes" THEN Long ELSE Num(0)])}
    \cup {Fields([k \in {"kind"} |-> Str(t, 9)]) : t \in {"odd", "odder"}}

PartLists(n) == UNION {{List(s) : s \in [1..i -> Parts]} : i \in 0..n}

Messages(n) == {Fields([k \in {"parts"} |-> ps]) : ps \in PartLists(n)}

Histories == UNION {{List(s) : s \in [1..i -> Messages(1)]} : i \in 0..2} \cup {Long}

Turned == {List(<<>>), List(<<Short, Short, Long>>)}

Tasks ==
    {Fields([k \in {"kind", "history"} |-> IF k = "kind" THEN Short ELSE h]) : h \in Histories}
    \cup {Fields([k \in {"artifacts", "history"} |-> IF k = "history" THEN h ELSE List(<<m>>)]) :
              h \in Turned, m \in Messages(2)}
    \cup {Dict([k \in {"history", "history_omitted"} |-> IF k = "history" THEN h ELSE own], last) :
              h \in Turned, own \in {Num(5), Long}, last \in BOOLEAN}

MCResults == Messages(2) \cup Tasks \cup {Short, Long, Num(0)}

RECURSIVE Under(_)
Under(docs) ==
    LET below == UNION {Below(d) : d \in docs} IN
    IF docs = {} THEN {} ELSE docs \cup Under(below)

MCDocuments == Under(MCResults)

Highest(numbers) == CHOOSE n \in numbers \cup {0} : \A m \in numbers : m <= n

RECURSIVE Height(_)
Height(doc) ==
    IF Below(doc) = {} THEN 0 ELSE 1 + Highest({Height(d) : d \in Below(doc)})

MCRank == [doc \in MCDocuments |-> Height(doc)]

MCDepth == Highest({Height(doc) : doc \in MCResults})

Total(numbers) == FoldLeft(LAMBDA x, y : x + y, 0, numbers)

\* len(json.dumps(doc)), but for the punctuation.
RECURSIVE MCChars(_)
MCChars(doc) ==
    CASE doc.is = "str" -> doc.length
      [] doc.is = "num" -> 1
      [] doc.is = "list" -> Total([i \in DOMAIN doc.items |-> MCChars(doc.items[i])])
      [] doc.is = "dict" ->
           LET keys == SetToSeq(Keys(doc)) IN
           Total([i \in DOMAIN keys |-> 1 + MCChars(doc.fields[keys[i]])])
=============================================================================
