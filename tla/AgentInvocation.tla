--------------------------- MODULE AgentInvocation ---------------------------
(***************************************************************************)
(* overrides.invoke_agent: one JSON-RPC message/send to an A2A agent.      *)
(*                                                                         *)
(* The operation checks its parameters, builds the envelope itself, reads  *)
(* the JSON-RPC response and cuts the agent's result down: no file bytes,  *)
(* no long strings, only the last entries of a history; and a structural   *)
(* summary when what is left is still too long.                            *)
(*                                                                         *)
(* A document is a string, of which only its length and its kind of text   *)
(* matter, a number, a list or a dict.                                     *)
(***************************************************************************)
EXTENDS Integers, SequencesExt

CONSTANTS
    Results,        \* the results an agent may answer with
    Documents,      \* the results and what is in them
    Rank,           \* how deep a document is
    Depth,          \* and how deep the deepest one
    Chars(_),       \* len(json.dumps(doc))
    TextCap,        \* _EXEC_TEXT_CAP
    HistoryKeep,    \* _EXEC_HISTORY_KEEP
    ResultCap,      \* _EXEC_RESULT_CAP
    UNSET,
    Null,
    Absent          \* no result, no answer

Str(text, length) == [is |-> "str", text |-> text, length |-> length]
Num(n) == [is |-> "num", n |-> n]
List(items) == [is |-> "list", items |-> items]

\* Of the order of a dict's keys only one thing shows: does a "history_omitted"
\* of the agent's own come after the "history"?
Dict(fields, last) == [is |-> "dict", fields |-> fields, last |-> last]

Keys(doc) == DOMAIN doc.fields

\* The items or values directly below a document.
Below(doc) ==
    CASE doc.is = "list" -> {doc.items[i] : i \in DOMAIN doc.items}
      [] doc.is = "dict" -> {doc.fields[k] : k \in Keys(doc)}
      [] OTHER -> {}

IsDocument(doc) ==
    CASE doc.is = "str" -> doc = Str(doc.text, doc.length) /\ doc.length \in Nat
      [] doc.is = "num" -> doc = Num(doc.n)
      [] doc.is = "list" -> doc = List(doc.items) /\ doc.items \in Seq(Documents)
      [] doc.is = "dict" ->
           /\ doc = Dict(doc.fields, doc.last)
           /\ doc.fields \in [Keys(doc) -> Documents]
           /\ doc.last \in BOOLEAN
      [] OTHER -> FALSE

\* JSON is finite: what is below a document is less deep.
ASSUME AgentAssumption ==
    /\ {TextCap, HistoryKeep, ResultCap} \subseteq Nat \ {0}
    /\ Null \notin {UNSET, Absent} /\ UNSET # Absent
    /\ Results \subseteq Documents /\ Absent \notin Documents
    /\ Depth \in Nat /\ Rank \in [Documents -> 0..Depth]
    /\ \A doc \in Documents :
         IsDocument(doc) /\ \A d \in Below(doc) : Rank[d] < Rank[doc]

(***************************************************************************)
(* _bound_a2a                                                              *)
(***************************************************************************)

\* Faulty Kept: the first entries.
KeptFirst(items) == SubSeq(items, 1, IF Len(items) < HistoryKeep THEN Len(items) ELSE HistoryKeep)

\* item[-_EXEC_HISTORY_KEEP:]
Kept(items) == IF Len(items) <= HistoryKeep THEN items
               ELSE SubSeq(items, Len(items) - HistoryKeep + 1, Len(items))

History(doc) == "history" \in Keys(doc) /\ doc.fields["history"].is = "list"

Turns(doc) == doc.fields["history"].items

Dropped(doc) == IF History(doc) THEN Len(Turns(doc)) - Len(Kept(Turns(doc))) ELSE 0

\* The count of the bytes, by what they are.
Size(raw) == IF raw.is = "str" THEN raw.length ELSE Chars(raw)

\* The keys the walk adds.  An agent's own "bytes_omitted" comes later in the
\* walk than the count and replaces it.
Notes(doc) ==
    (IF "bytes" \in Keys(doc) THEN {"bytes_omitted"} ELSE {})
        \cup (IF Dropped(doc) > 0 THEN {"history_omitted"} ELSE {})

Own(doc) == Keys(doc) \ {"bytes"}

\* Is the count of the entries what stays under its key?
Counted(doc) == Dropped(doc) > 0 /\ ("history_omitted" \in Own(doc) => ~doc.last)

\* Faulty Walked: the entries of a history are kept as they are.
WalkedAround(doc, b) ==
    LET value(k) ==
          IF k = "history_omitted" /\ Counted(doc) THEN Num(Dropped(doc))
          ELSE IF k \notin Own(doc) THEN Num(Size(doc.fields["bytes"]))
          ELSE IF k = "history" /\ History(doc) THEN List(Kept(Turns(doc)))
          ELSE b[doc.fields[k]].value
    IN Dict([k \in Own(doc) \cup Notes(doc) |-> value(k)], doc.last)

\* A dict, when b has what is below it.
Walked(doc, b) ==
    LET kept == Kept(Turns(doc))
        value(k) ==
          IF k = "history_omitted" /\ Counted(doc) THEN Num(Dropped(doc))
          ELSE IF k \notin Own(doc) THEN Num(Size(doc.fields["bytes"]))
          ELSE IF k = "history" /\ History(doc)
               THEN List([i \in DOMAIN kept |-> b[kept[i]].value])
          ELSE b[doc.fields[k]].value
    IN Dict([k \in Own(doc) \cup Notes(doc) |-> value(k)], doc.last)

\* Faulty CutIn: what was cut inside a list is forgotten.
CutInShallow(doc, b) ==
    CASE doc.is = "str" -> doc.length > TextCap
      [] doc.is = "dict" -> Notes(doc) # {} \/ \E k \in Own(doc) : b[doc.fields[k]].cut
      [] OTHER -> FALSE

\* Was anything cut?  Of a history only the entries that are kept are walked.
CutIn(doc, b) ==
    CASE doc.is = "str" -> doc.length > TextCap
      [] doc.is = "list" -> \E i \in DOMAIN doc.items : b[doc.items[i]].cut
      [] doc.is = "dict" ->
           \/ Notes(doc) # {}
           \/ \E k \in Own(doc) :
                IF k = "history" /\ History(doc)
                THEN \E i \in DOMAIN Kept(Turns(doc)) : b[Kept(Turns(doc))[i]].cut
                ELSE b[doc.fields[k]].cut
      [] OTHER -> FALSE

ValueOf(doc, b) ==
    CASE doc.is = "dict" -> Walked(doc, b)
      [] doc.is = "list" -> List([i \in DOMAIN doc.items |-> b[doc.items[i]].value])
      [] doc.is = "str" -> Str(doc.text, IF doc.length > TextCap THEN TextCap ELSE doc.length)
      [] OTHER -> doc

\* (bounded_value, anything_cut)
bound_a2a[doc \in Documents] ==
    [value |-> ValueOf(doc, bound_a2a), cut |-> CutIn(doc, bound_a2a)]

(***************************************************************************)
(* _a2a_result_stub                                                        *)
(***************************************************************************)

\* A document and what is in it, level by level.
Within(doc) ==
    LET level[i \in 0..Depth] ==
          IF i = 0 THEN {doc} ELSE UNION {Below(d) : d \in level[i - 1]}
    IN UNION {level[i] : i \in 0..Depth}

\* The "kind" of every dict that has one, in full.
Kinds(doc) ==
    {d.fields["kind"] : d \in {e \in Within(doc) : /\ e.is = "dict"
                                                   /\ "kind" \in Keys(e)
                                                   /\ e.fields["kind"].is = "str"}}

\* The kinds and the counts, each count one number.
Stub(doc) ==
    Dict([k \in {"kinds", "parts_total", "artifacts_total", "history_len", "serialized_chars"} |->
            IF k = "kinds" THEN List(SetToSeq(Kinds(doc))) ELSE Num(0)], FALSE)

(***************************************************************************)
(* The operation                                                           *)
(***************************************************************************)

\* Parameters: what each form of the arguments comes down to.
Calls == [text : {UNSET, "text"}, message : {UNSET, "message"}, message_id : {UNSET, "id"},
          blocking : {UNSET, TRUE, FALSE, Null}]

\* JSON bodies of the response.
Error == {"absent", "object", "null"}
Responses == [dict : {TRUE}, error : Error, result : Results \cup {Absent}]
             \cup [dict : {FALSE}, error : {"absent"}, result : {Absent}]

VARIABLES
    stage,      \* "called", "sent", "received", "ended"
    call,
    envelope,   \* what was sent: its message, the messageId, its blocking
    reply,      \* the response
    answer      \* an error, or the bounded result

agentVars == <<stage, call, envelope, reply, answer>>

Failed == [ok |-> FALSE, result |-> Absent, truncated |-> FALSE]

AgentInit ==
    /\ stage = "called" /\ call \in Calls
    /\ envelope = Absent /\ reply = Absent /\ answer = Absent

\* "config.get("blocking") is False", but not any other false value.
Refusable(c) ==
    \/ (c.text # UNSET) = (c.message # UNSET)
    \/ c.message # UNSET /\ c.message_id # UNSET
    \/ c.blocking = FALSE

RefuseCall ==
    /\ stage = "called" /\ Refusable(call)
    /\ answer' = Failed
    /\ stage' = "ended"
    /\ UNCHANGED <<call, envelope, reply>>

Send ==
    /\ stage = "called" /\ ~Refusable(call)
    /\ envelope' = [message |-> IF call.text # UNSET THEN call.text ELSE call.message,
                    blocking |-> TRUE]
    /\ stage' = "sent"
    /\ UNCHANGED <<call, reply, answer>>

\* The request failed, see HttpExchange.
RequestFails ==
    /\ stage = "sent"
    /\ answer' = Failed
    /\ stage' = "ended"
    /\ UNCHANGED <<call, envelope, reply>>

Receive ==
    /\ stage = "sent"
    /\ reply' \in Responses
    /\ stage' = "received"
    /\ UNCHANGED <<call, envelope, answer>>

\* An "error" member, or no "result".
Unusable(r) == ~r.dict \/ r.error # "absent" \/ r.result = Absent

RaiseError ==
    /\ stage = "received" /\ Unusable(reply)
    /\ answer' = Failed
    /\ stage' = "ended"
    /\ UNCHANGED <<call, envelope, reply>>

\* What the agent's result becomes.
Outcome(result) ==
    LET bounded == bound_a2a[result] IN
    IF Chars(bounded.value) > ResultCap
    THEN [ok |-> TRUE, result |-> Stub(result), truncated |-> TRUE]
    ELSE [ok |-> TRUE, result |-> bounded.value, truncated |-> bounded.cut]

Return ==
    /\ stage = "received" /\ ~Unusable(reply)
    /\ answer' = Outcome(reply.result)
    /\ stage' = "ended"
    /\ UNCHANGED <<call, envelope, reply>>

Over == stage = "ended" /\ UNCHANGED agentVars

AgentNext == RefuseCall \/ Send \/ RequestFails \/ Receive \/ RaiseError \/ Return \/ Over

AgentSpec == AgentInit /\ [][AgentNext]_agentVars

(***************************************************************************)
(* Properties                                                              *)
(***************************************************************************)

Succeeded == answer # Absent /\ answer.ok

\* The answer is the bounded result itself, not its summary.
NoStub == Succeeded /\ ~(Chars(bound_a2a[reply.result].value) > ResultCap)

\* An answer that is not marked truncated is the agent's result, to the last
\* character: no cut at any depth goes unmentioned.
HonestTruncation ==
    Succeeded /\ ~answer.truncated => answer.result = reply.result

Modest(doc) ==
    /\ doc.is = "str" => doc.length <= TextCap
    /\ doc.is = "dict" =>
         /\ "bytes" \notin Keys(doc)
         /\ History(doc) => Len(Turns(doc)) <= HistoryKeep

\* Oversized pieces are cut wherever they are, also inside the entries of a
\* history and the lists of other fields.
NothingOversized == NoStub => \A doc \in Within(answer.result) : Modest(doc)

\* How many entries of a history are gone.
Gone(whole, short) ==
    IF History(whole) /\ History(short) THEN Len(Turns(whole)) - Len(Turns(short)) ELSE 0

Replaced(whole, short) ==
    Gone(whole, short) > 0 /\ short.fields["history_omitted"] = Num(Gone(whole, short))

\* What a bounded document may say of a whole one, what is below both aside:
\* only bytes, the ends of long strings and the first entries of histories are
\* gone, and bytes and entries are counted, unless the agent uses that key.
Accounts(whole, short) ==
    /\ short.is = whole.is
    /\ whole.is = "num" => short = whole
    /\ whole.is = "str" => short.text = whole.text /\ short.length \in {whole.length, TextCap}
    /\ whole.is = "list" => Len(short.items) = Len(whole.items)
    /\ whole.is = "dict" =>
         /\ Own(whole) \subseteq Keys(short)
         /\ Keys(short) \subseteq Keys(whole) \cup {"bytes_omitted", "history_omitted"}
         /\ "bytes" \in Keys(whole) /\ "bytes_omitted" \notin Keys(whole) =>
              short.fields["bytes_omitted"] = Num(Size(whole.fields["bytes"]))
         /\ History(whole) => History(short)
         /\ Gone(whole, short) # 0 /\ "history_omitted" \notin Keys(whole) =>
              Replaced(whole, short)

\* The pairs that correspond directly below: the latest entries of a history,
\* and the values of all other keys but the bytes and a count.
Beside(pair) ==
    LET whole == pair[1]
        short == pair[2]
        gone == Gone(whole, short)
    IN CASE whole.is = "list" -> {<<whole.items[i], short.items[i]>> : i \in DOMAIN short.items}
         [] whole.is = "dict" ->
              {<<whole.fields[k], short.fields[k]>> :
                 k \in Own(whole) \ ((IF History(whole) THEN {"history"} ELSE {})
                                     \cup (IF Replaced(whole, short) THEN {"history_omitted"}
                                                                     ELSE {}))}
              \cup (IF History(whole)
                    THEN {<<Turns(whole)[gone + i], Turns(short)[i]>> : i \in DOMAIN Turns(short)}
                    ELSE {})
         [] OTHER -> {}

\* All pairs that correspond, level by level.
Pairs(whole, short) ==
    LET level[i \in 0..Depth] ==
          IF i = 0 THEN {<<whole, short>>} ELSE UNION {Beside(p) : p \in level[i - 1]}
    IN UNION {level[i] : i \in 0..Depth}

\* The agent's latest turns are returned, and everything that is missing is
\* accounted for.
OmissionsCounted ==
    NoStub => \A p \in Pairs(reply.result, answer.result) : Accounts(p[1], p[2])
=============================================================================
