----------------------------- MODULE ExecuteProofs -----------------------------
(***************************************************************************)
(* The two operations that return what a model or an agent has said.       *)
(*                                                                         *)
(* test_prompt: a result is faithful, marked when it is cut, and the       *)
(* response closed, for streams of any length, any events and any cap.     *)
(* The text of a result is defined by a recursive function of the lines.   *)
(* Its values are not computed by induction over the lines but along the   *)
(* run: at every state there is a function that has the defining equation  *)
(* for the lines read so far (Textual), a line extends it by one value,    *)
(* and two functions with that equation are equal (FullTextIs).            *)
(*                                                                         *)
(* invoke_agent: a result is cut honestly, everywhere and accountably, for *)
(* documents of any shape and depth.  The walk is a recursive function of  *)
(* the documents; that it has its equation is shown rank by rank.          *)
(***************************************************************************)
EXTENDS PromptStream, AgentInvocation, SequenceTheorems, WellFoundedInduction, TLAPS

-----------------------------------------------------------------------------
(***************************************************************************)
(* test_prompt                                                             *)
(***************************************************************************)

Characters == {"x", "y"}

Lines ==
    Events \cup [kind : {"comment", "done", "badjson", "eof", "drop", "error", "odd"}]

FieldNames == {"model", "usage", "finish"}

(***************************************************************************)
(* The text and the fields of one more line                                *)
(***************************************************************************)

\* f has the defining equation of FullText's function.
IsTextOf(lines, f) ==
    f = [n \in 0..Len(lines) |->
           IF n = 0 THEN <<>> ELSE f[n - 1] \o Piece(lines[n])]

\* Only events have pieces, and pieces are text.
LEMMA Pieces ==
    ASSUME NEW l \in Lines
    PROVE  /\ Piece(l) \in Seq(Characters)
           /\ l \in Events => l.kind = "event" /\ Piece(l) = l.piece
           /\ l \notin Events => l.kind # "event" /\ Piece(l) = <<>>
<1>1. CASE l \in Events
  BY <1>1, PromptAssumption DEF IsEvent, Piece, Characters
<1>2. CASE l \notin Events
  BY <1>2 DEF Lines, Piece
<1> QED
  BY <1>1, <1>2

\* A non-empty set of numbers from 0 on has a smallest one.
LEMMA HasSmallest ==
    ASSUME NEW S \in SUBSET Nat, S # {}
    PROVE  \E m \in S : \A k \in S : ~(k < m)
<1> DEFINE R == {ss \in Nat \X Nat : ss[1] < ss[2]}
<1>1. IsWellFoundedOn(R, Nat)
  BY NatLessThanWellFounded, Zenon DEF OpToRel
<1>2. PICK m \in S : \A k \in S : ~(<<k, m>> \in R)
  <2> HIDE DEF R
  <2> QED
    BY <1>1, WFMin
<1>3. \A k \in S : k < m => <<k, m>> \in R
  OBVIOUS
<1> QED
  BY <1>2, <1>3

\* Whatever has the equation is the function that FullText chooses.
LEMMA FullTextIs ==
    ASSUME NEW lines \in Seq(Lines), NEW f, IsTextOf(lines, f)
    PROVE  FullText(lines) = f[Len(lines)]
<1> DEFINE g == CHOOSE h : IsTextOf(lines, h)
           D == {n \in 0..Len(lines) : f[n] # g[n]}
<1>1. IsTextOf(lines, g)
  OBVIOUS
<1>2. FullText(lines) = g[Len(lines)]
  BY DEF FullText, IsTextOf
<1> HIDE DEF g
<1>3. Len(lines) \in Nat
  OBVIOUS
<1>4. D = {}
  <2> SUFFICES ASSUME D # {} PROVE FALSE
    OBVIOUS
  <2>0. D \in SUBSET Nat
    BY <1>3
  <2>1. PICK m \in D : \A k \in D : ~(k < m)
    <3> HIDE DEF D
    <3> QED
      BY <2>0, HasSmallest
  <2>2. m # 0
    BY <1>1 DEF IsTextOf
  <2>3. m - 1 \in 0..Len(lines) /\ m - 1 < m
    BY <1>3, <2>1, <2>2
  <2>4. f[m - 1] = g[m - 1]
    BY <2>1, <2>3
  <2>5. f[m] = f[m - 1] \o Piece(lines[m]) /\ g[m] = g[m - 1] \o Piece(lines[m])
    BY <1>1, <2>2 DEF IsTextOf
  <2> QED
    BY <2>1, <2>4, <2>5
<1> QED
  BY <1>2, <1>3, <1>4

\* One more line extends the function by its piece.
LEMMA TextExtends ==
    ASSUME NEW lines \in Seq(Lines), NEW l \in Lines, NEW f, IsTextOf(lines, f)
    PROVE  \E h : IsTextOf(Append(lines, l), h)
                  /\ h[Len(lines) + 1] = f[Len(lines)] \o Piece(l)
<1> DEFINE n0 == Len(lines)
           all == Append(lines, l)
           h == [n \in 0..n0 + 1 |-> IF n <= n0 THEN f[n] ELSE f[n0] \o Piece(l)]
<1>1. n0 \in Nat /\ Len(all) = n0 + 1 /\ all[n0 + 1] = l
      /\ \A n \in 1..n0 : all[n] = lines[n]
  OBVIOUS
<1> HIDE DEF n0, all
<1>2. ASSUME NEW n \in 0..n0 + 1
      PROVE  h[n] = IF n = 0 THEN <<>> ELSE h[n - 1] \o Piece(all[n])
  <2>1. CASE n = 0
    BY <2>1, <1>1 DEF IsTextOf, n0
  <2>2. CASE n \in 1..n0
    <3>1. f[n] = f[n - 1] \o Piece(lines[n])
      BY <2>2, <1>1 DEF IsTextOf, n0
    <3>2. h[n] = f[n] /\ h[n - 1] = f[n - 1]
      BY <2>2, <1>1
    <3>3. all[n] = lines[n] /\ n # 0
      BY <2>2, <1>1
    <3> HIDE DEF h
    <3> QED
      BY <3>1, <3>2, <3>3
  <2>3. CASE n = n0 + 1
    <3>1. h[n] = f[n0] \o Piece(l) /\ h[n - 1] = f[n0]
      BY <2>3, <1>1
    <3> QED
      BY <3>1, <2>3, <1>1
  <2> QED
    BY <2>1, <2>2, <2>3, <1>1
<1>3. IsTextOf(all, h)
  BY <1>1, <1>2 DEF IsTextOf
<1>4. h[n0 + 1] = f[n0] \o Piece(l)
  BY <1>1
<1> QED
  BY <1>3, <1>4 DEF n0, all

\* Of the lines that give a field a value there is a last one.
HasLast(lines, field) ==
    Given(lines, field) # {} =>
        \E m \in Given(lines, field) : \A k \in Given(lines, field) : m >= k

\* One more line is the last one that gives a value, or changes nothing.
LEMMA LastOfAppend ==
    ASSUME NEW lines \in Seq(Lines), NEW l \in Lines, NEW field \in FieldNames,
           HasLast(lines, field)
    PROVE  /\ HasLast(Append(lines, l), field)
           /\ LastOf(Append(lines, l), field) =
                IF l.kind = "event" /\ l[field] # None THEN l[field] ELSE LastOf(lines, field)
<1> DEFINE n0 == Len(lines)
           all == Append(lines, l)
           old == Given(lines, field)
           new == Given(all, field)
<1>1. n0 \in Nat /\ Len(all) = n0 + 1 /\ all[n0 + 1] = l
      /\ \A n \in 1..n0 : all[n] = lines[n]
  OBVIOUS
<1>2. old \subseteq 1..n0
  BY DEF Given
<1>3. new = old \cup (IF l.kind = "event" /\ l[field] # None THEN {n0 + 1} ELSE {})
  <2>1. new = {n \in 1..n0 + 1 : all[n].kind = "event" /\ all[n][field] # None}
    BY <1>1 DEF Given
  <2>2. old = {n \in 1..n0 : lines[n].kind = "event" /\ lines[n][field] # None}
    BY DEF Given
  <2> HIDE DEF new, old, all, n0
  <2> QED
    BY <1>1, <2>1, <2>2
<1> HIDE DEF new, old, all, n0
<1>4. CASE l.kind = "event" /\ l[field] # None
  <2>1. n0 + 1 \in new /\ \A k \in new : n0 + 1 >= k
    BY <1>1, <1>2, <1>3, <1>4
  <2>2. Max(new) \in new /\ \A k \in new : Max(new) >= k
    BY <2>1 DEF Max
  <2>3. new \subseteq 1..n0 + 1
    BY <1>1, <1>2, <1>3, <1>4
  <2>4. Max(new) = n0 + 1
    <3>1. PICK k \in new : k = Max(new) /\ \A j \in new : k >= j
      BY <2>2
    <3>2. k >= n0 + 1 /\ n0 + 1 >= k /\ k \in 1..n0 + 1
      BY <3>1, <2>1, <2>3
    <3> QED
      BY <3>1, <3>2, <1>1
  <2>5. LastOf(all, field) = all[Max(new)][field]
    BY <2>1 DEF LastOf, new
  <2>6. HasLast(all, field)
    BY <2>1 DEF HasLast, new
  <2> QED
    BY <1>1, <1>4, <2>4, <2>5, <2>6 DEF all
<1>5. CASE ~(l.kind = "event" /\ l[field] # None)
  <2>1. new = old
    BY <1>3, <1>5
  <2>2. CASE old = {}
    BY <2>1, <2>2, <1>5 DEF HasLast, LastOf, new, old, all
  <2>3. CASE old # {}
    <3>1. Max(old) \in old
      BY <2>3 DEF HasLast, Max, old
    <3>2. all[Max(old)] = lines[Max(old)]
      BY <3>1, <1>1, <1>2
    <3>3. LastOf(all, field) = LastOf(lines, field)
      BY <2>1, <2>3, <3>2 DEF LastOf, new, old
    <3>4. HasLast(all, field)
      BY <2>1 DEF HasLast, new, old
    <3> QED
      BY <3>3, <3>4, <1>5 DEF all
  <2> QED
    BY <2>2, <2>3
<1> QED
  BY <1>4, <1>5

(***************************************************************************)
(* The inductive invariant                                                 *)
(***************************************************************************)

TypeOK ==
    /\ pc \in {"start", "reading", "leaving", "ended"}
    /\ seen \in Seq(Lines)
    /\ text \in Seq(Characters)
    /\ truncated \in BOOLEAN

\* The response is open from its acceptance or refusal until the with-block
\* is left.
Releasing ==
    /\ pc \in {"reading", "leaving"} => response = "open"
    /\ pc \in {"start", "ended"} => response # "open"

\* While the loop runs nothing was cut and nothing went wrong; what ends it
\* with a result is [DONE] or the cap.
Marking ==
    /\ pc = "start" => seen = <<>>
    /\ pc \in {"start", "reading"} =>
         /\ Len(text) < Cap
         /\ \A i \in 1..Len(seen) : seen[i].kind \in {"event", "comment"}
    /\ pc \in {"leaving", "ended"} /\ ending = "result" /\ ~truncated =>
         /\ Len(text) < Cap
         /\ seen # <<>> /\ seen[Len(seen)].kind = "done"
         /\ \A i \in 1..Len(seen) - 1 : seen[i].kind \in {"event", "comment"}

\* The text so far is the text of the lines read.
Textual == \E f : IsTextOf(seen, f) /\ f[Len(seen)] = text

\* The fields are the last values given.
Valued ==
    /\ \A field \in FieldNames : HasLast(seen, field)
    /\ model = LastOf(seen, "model")
    /\ usage = LastOf(seen, "usage")
    /\ finish = LastOf(seen, "finish")

IInv == TypeOK /\ Releasing /\ Marking /\ Textual /\ Valued

\* In the beginning nothing was read.
LEMMA Initially == Init => IInv
<1> SUFFICES ASSUME Init PROVE IInv
  OBVIOUS
<1> USE DEF Init
<1>1. seen = <<>> /\ Len(seen) = 0 /\ text = <<>> /\ Len(text) = 0 /\ pc = "start"
  OBVIOUS
<1>2. TypeOK
  <2>1. seen \in Seq(Lines) /\ text \in Seq(Characters)
    BY <1>1, EmptySeq
  <2> QED
    BY <2>1 DEF TypeOK
<1>3. Releasing
  BY DEF Releasing
<1>4. Marking
  BY <1>1, PromptAssumption DEF Marking
<1>5. Textual
  <2> DEFINE f == [n \in 0..0 |-> <<>>]
  <2>1. f = [n \in 0..0 |-> IF n = 0 THEN <<>> ELSE f[n - 1] \o Piece(seen[n])]
    OBVIOUS
  <2>2. IsTextOf(seen, f) /\ f[Len(seen)] = text
    BY <2>1, <1>1 DEF IsTextOf
  <2> QED
    BY <2>2 DEF Textual
<1>6. Valued
  <2>1. \A field : Given(seen, field) = {}
    BY <1>1 DEF Given
  <2> QED
    BY <2>1 DEF Valued, HasLast, LastOf
<1> QED
  BY <1>2, <1>3, <1>4, <1>5, <1>6 DEF IInv

\* A line without an event leaves text and fields as they stand for it.
LEMMA OtherLine ==
    ASSUME TypeOK, Textual, Valued, NEW l \in Lines \ Events,
           seen' = Append(seen, l), UNCHANGED fields
    PROVE  Textual' /\ Valued'
<1>1. Piece(l) = <<>> /\ l.kind # "event"
  BY Pieces
<1>2. Textual'
  <2>1. PICK f : IsTextOf(seen, f) /\ f[Len(seen)] = text
    BY DEF Textual
  <2>2. PICK h : IsTextOf(Append(seen, l), h)
                 /\ h[Len(seen) + 1] = f[Len(seen)] \o Piece(l)
    BY <2>1, TextExtends DEF TypeOK
  <2>3. text \o <<>> = text
    BY ConcatEmptySeq DEF TypeOK
  <2>4. Len(seen') = Len(seen) + 1
    BY DEF TypeOK
  <2> QED
    BY <2>1, <2>2, <2>3, <2>4, <1>1 DEF Textual, fields
<1>3. \A field \in FieldNames :
        HasLast(seen', field) /\ LastOf(seen', field) = LastOf(seen, field)
  BY <1>1, LastOfAppend DEF Valued, TypeOK
<1>4. Valued'
  BY <1>3 DEF Valued, FieldNames, fields
<1> QED
  BY <1>2, <1>4

\* An event appends its piece and gives the fields it has.
LEMMA EventLine ==
    ASSUME TypeOK, Textual, Valued, NEW e \in Events,
           seen' = Append(seen, e),
           model' = Or(e.model, model), usage' = Or(e.usage, usage),
           finish' = Or(e.finish, finish), text' = text \o e.piece
    PROVE  Textual' /\ Valued'
<1>1. e \in Lines /\ Piece(e) = e.piece /\ e.kind = "event"
  BY Pieces DEF Lines
<1>2. Textual'
  <2>1. PICK f : IsTextOf(seen, f) /\ f[Len(seen)] = text
    BY DEF Textual
  <2>2. PICK h : IsTextOf(Append(seen, e), h)
                 /\ h[Len(seen) + 1] = f[Len(seen)] \o Piece(e)
    BY <1>1, <2>1, TextExtends DEF TypeOK
  <2>3. Len(seen') = Len(seen) + 1
    BY DEF TypeOK
  <2> QED
    BY <2>1, <2>2, <2>3, <1>1 DEF Textual
<1>3. \A field \in FieldNames :
        /\ HasLast(seen', field)
        /\ LastOf(seen', field) = IF e[field] # None THEN e[field] ELSE LastOf(seen, field)
  BY <1>1, LastOfAppend DEF Valued, TypeOK
<1>4. Valued'
  BY <1>3 DEF Valued, FieldNames, Or
<1> QED
  BY <1>2, <1>4

\* Leaving the loop on a line without an event, for any reason but a result
\* or for the end of the stream.
LEMMA LastLine ==
    ASSUME IInv, pc = "reading",
           NEW l \in Lines \ Events, NEW how,
           seen' = Append(seen, l), Exit(how), UNCHANGED <<response, fields>>,
           how = "result" => l.kind = "done"
    PROVE  IInv'
<1> USE DEF IInv, Exit, fields
<1>1. /\ seen' \in Seq(Lines) /\ Len(seen') = Len(seen) + 1 /\ Len(seen) \in Nat
      /\ seen'[Len(seen) + 1] = l /\ \A i \in 1..Len(seen) : seen'[i] = seen[i]
  BY DEF TypeOK
<1>2. TypeOK' /\ Releasing'
  BY <1>1 DEF TypeOK, Releasing
<1>3. Marking'
  <2>1. \A i \in 1..Len(seen') - 1 : seen'[i].kind \in {"event", "comment"}
    BY <1>1 DEF Marking
  <2>2. seen' # <<>>
    BY <1>1
  <2> QED
    BY <1>1, <2>1, <2>2 DEF Marking
<1>4. Textual' /\ Valued'
  BY OtherLine
<1> QED
  BY <1>2, <1>3, <1>4

\* One more event or comment while the loop goes on.
LEMMA MoreLines ==
    ASSUME IInv, pc = "reading", NEW l \in Lines, l.kind \in {"event", "comment"},
           seen' = Append(seen, l), Len(text') < Cap, pc' = "reading"
    PROVE  Marking'
<1>1. /\ Len(seen') = Len(seen) + 1 /\ Len(seen) \in Nat
      /\ seen'[Len(seen) + 1] = l /\ \A i \in 1..Len(seen) : seen'[i] = seen[i]
  BY DEF IInv, TypeOK
<1>2. \A i \in 1..Len(seen') : seen'[i].kind \in {"event", "comment"}
  BY <1>1 DEF IInv, Marking
<1> QED
  BY <1>2 DEF Marking

\* Opening: no response, a refusal, or the loop.
LEMMA OpenKeeps ==
    ASSUME IInv, Open
    PROVE  IInv'
<1> USE DEF IInv, fields
<1>1. UNCHANGED <<seen, fields>> /\ pc = "start" /\ seen = <<>> /\ response # "open"
  BY DEF Open, NoResponse, Refuse, Accept, Marking, Releasing
<1>2. Textual' /\ Valued'
  BY <1>1 DEF Textual, Valued
<1>3. \A body \in BodyKinds : RefusalOf(body) # "result"
  BY DEF RefusalOf, JsonOf, BodyKinds
<1>4. CASE NoResponse
  BY <1>1, <1>2, <1>4 DEF NoResponse, TypeOK, Releasing, Marking
<1>5. CASE Refuse
  <2>1. pc' = "leaving" /\ ending' # "result" /\ response' = "open"
    BY <1>3, <1>5, PromptAssumption DEF Refuse, Exit
  <2> QED
    BY <1>1, <1>2, <2>1 DEF TypeOK, Releasing, Marking
<1>6. CASE Accept
  BY <1>1, <1>2, <1>6 DEF Accept, TypeOK, Releasing, Marking
<1> QED
  BY <1>4, <1>5, <1>6 DEF Open

\* Every line keeps the invariant.
LEMMA LineKeeps ==
    ASSUME IInv, Line
    PROVE  IInv'
<1> USE DEF IInv, Read
<1>1. pc = "reading"
  BY DEF Line, Skip, Finish, Malformed, Drop, ErrorEvent, OddEvent, Event
<1>2. \A k \in {"comment", "done", "badjson", "eof", "drop", "error", "odd"} :
        [kind |-> k] \in Lines \ Events
  BY PromptAssumption DEF IsEvent, Lines
<1>3. CASE Skip
  <2>1. seen' = Append(seen, [kind |-> "comment"]) /\ UNCHANGED <<pc, response, fields, ending>>
    BY <1>3 DEF Skip
  <2>2. Textual' /\ Valued'
    BY <2>1, <1>2, OtherLine
  <2>3. Marking'
    BY <2>1, <1>1, <1>2, MoreLines DEF fields, Marking
  <2>4. TypeOK' /\ Releasing'
    BY <2>1, <1>2 DEF TypeOK, Releasing, fields
  <2> QED
    BY <2>2, <2>3, <2>4
<1>4. CASE Finish \/ Malformed \/ Drop \/ ErrorEvent \/ OddEvent
  <2>1. PICK k \in {"done", "badjson", "eof", "drop", "error", "odd"},
             how \in {"result", "APIError", "RequestError", "ValueError", "crash"} :
          /\ seen' = Append(seen, [kind |-> k]) /\ Exit(how)
          /\ UNCHANGED <<response, fields>>
          /\ how = "result" => k = "done"
    BY <1>4 DEF Finish, Malformed, Drop, ErrorEvent, OddEvent
  <2> QED
    BY <2>1, <1>1, <1>2, LastLine
<1>5. CASE Event
  <2>1. PICK e \in Events :
          /\ seen' = Append(seen, e)
          /\ model' = Or(e.model, model) /\ usage' = Or(e.usage, usage)
          /\ finish' = Or(e.finish, finish) /\ text' = text \o e.piece
    BY <1>5 DEF Event
  <2>2. Textual' /\ Valued'
    BY <2>1, EventLine
  <2>3. e \in Lines /\ e.kind = "event" /\ e.piece \in Seq(Characters)
    BY PromptAssumption DEF Lines, IsEvent, Characters
  <2>4. text' \in Seq(Characters) /\ Len(text') \in Nat
    BY <2>1, <2>3 DEF TypeOK
  <2>5. seen' \in Seq(Lines)
    BY <2>1, <2>3 DEF TypeOK
  <2>6. truncated' = (Len(text') >= Cap) /\ UNCHANGED response
    BY <1>5 DEF Event
  <2>7. CASE Len(text') >= Cap
    <3>1. pc' = "leaving" /\ truncated'
      BY <1>5, <2>6, <2>7 DEF Event, Exit
    <3> QED
      BY <1>1, <2>2, <2>4, <2>5, <2>6, <3>1 DEF TypeOK, Releasing, Marking
  <2>8. CASE Len(text') < Cap
    <3>1. UNCHANGED <<pc, ending>>
      BY <1>5, <2>4, <2>8, PromptAssumption DEF Event
    <3>2. Marking'
      BY <1>1, <2>1, <2>3, <2>8, <3>1, MoreLines
    <3> QED
      BY <1>1, <2>2, <2>4, <2>5, <2>6, <3>1, <3>2 DEF TypeOK, Releasing
  <2> QED
    BY <2>4, <2>7, <2>8, PromptAssumption
<1> QED
  BY <1>3, <1>4, <1>5 DEF Line

(***************************************************************************)
(* The theorems                                                            *)
(***************************************************************************)

\* The inductive invariant of one test_prompt call.
THEOREM Invariance == Spec => []IInv
<1>1. Init => IInv
  BY Initially
<1>2. IInv /\ [Next]_vars => IInv'
  <2> SUFFICES ASSUME IInv, [Next]_vars PROVE IInv'
    OBVIOUS
  <2>1. CASE Open
    BY <2>1, OpenKeeps
  <2>2. CASE Line
    BY <2>2, LineKeeps
  <2>3. CASE Leave
    BY <2>3 DEF IInv, Leave, TypeOK, Releasing, Marking, Textual, Valued, fields
  <2>4. CASE UNCHANGED vars
    BY <2>4 DEF IInv, vars, TypeOK, Releasing, Marking, Textual, Valued
  <2> QED
    BY <2>1, <2>2, <2>3, <2>4 DEF Next, Ended
<1> QED
  BY <1>1, <1>2, PTL DEF Spec

\* However the operation ends (client.py, the with-block of post_sse), the
\* response it opened is closed.
THEOREM ResponseReleasedThm == Spec => []ResponseReleased
<1>1. IInv => ResponseReleased
  BY DEF IInv, Releasing, ResponseReleased
<1> QED
  BY <1>1, Invariance, PTL

\* What is returned of a text: a prefix, up to the cap, and all that is shorter.
LEMMA CutIsPrefix ==
    ASSUME TypeOK
    PROVE  /\ IsPrefix(ResultText, text)
           /\ Len(ResultText) = Len(text) \/ Len(ResultText) = Cap
           /\ Len(text) < Cap => ResultText = text
<1>1. Len(text) \in Nat /\ Cap \in Nat
  BY PromptAssumption DEF TypeOK
<1>2. CASE Len(text) > Cap
  <2>1. ResultText = SubSeq(text, 1, Cap)
    BY <1>2 DEF ResultText
  <2>2. Len(ResultText) = Cap /\ ResultText \in Seq(Characters)
    BY <1>1, <1>2, <2>1 DEF TypeOK
  <2>3. SubSeq(ResultText, 1, Cap) = ResultText
    BY <2>2, SubSeqFull
  <2> QED
    BY <1>1, <1>2, <2>1, <2>2, <2>3 DEF IsPrefix
<1>3. CASE ~(Len(text) > Cap)
  <2>1. ResultText = text
    BY <1>3 DEF ResultText
  <2> QED
    BY <1>1, <2>1 DEF IsPrefix
<1> QED
  BY <1>2, <1>3

\* The text kept along the run is the text of the lines.
LEMMA TextIsFull ==
    ASSUME TypeOK, Textual
    PROVE  text = FullText(seen)
  BY FullTextIs DEF TypeOK, Textual

\* A result is what the lines read stand for (overrides.py, test_prompt).
THEOREM ResultFaithfulThm == Spec => []ResultFaithful
<1>1. IInv => ResultFaithful
  BY TextIsFull, CutIsPrefix DEF IInv, Valued, ResultFaithful
<1> QED
  BY <1>1, Invariance, PTL

\* A result without the mark is the whole answer (overrides.py, test_prompt
\* and client.py, _iter_sse_events).
THEOREM CompleteOrTruncatedThm == Spec => []CompleteOrTruncated
<1>1. IInv => CompleteOrTruncated
  <2> SUFFICES ASSUME IInv, Answered, ~truncated
               PROVE  /\ Last(seen).kind = "done"
                      /\ \A i \in 1..Len(seen) - 1 : seen[i].kind \in {"event", "comment"}
                      /\ ResultText = FullText(seen)
    BY DEF CompleteOrTruncated
  <2>1. /\ Len(text) < Cap /\ seen[Len(seen)].kind = "done"
        /\ \A i \in 1..Len(seen) - 1 : seen[i].kind \in {"event", "comment"}
    BY DEF IInv, Marking, Answered
  <2>2. ResultText = FullText(seen)
    BY <2>1, TextIsFull, CutIsPrefix DEF IInv
  <2> QED
    BY <2>1, <2>2 DEF Last
<1> QED
  BY <1>1, Invariance, PTL

-----------------------------------------------------------------------------
(***************************************************************************)
(* invoke_agent: documents and what is below them                          *)
(***************************************************************************)

\* A document is one of four things.
LEMMA Shapes ==
    ASSUME NEW doc \in Documents
    PROVE  /\ doc.is \in {"str", "num", "list", "dict"}
           /\ doc.is = "str" => doc = Str(doc.text, doc.length) /\ doc.length \in Nat
           /\ doc.is = "num" => doc = Num(doc.n)
           /\ doc.is = "list" => doc = List(doc.items) /\ doc.items \in Seq(Documents)
           /\ doc.is = "dict" => /\ doc = Dict(doc.fields, doc.last)
                                 /\ doc.fields \in [Keys(doc) -> Documents]
<1>1. IsDocument(doc)
  BY AgentAssumption
<1> QED
  BY <1>1, Zenon DEF IsDocument

LEMMA ListBelow ==
    ASSUME NEW doc \in Documents, doc.is = "list"
    PROVE  /\ doc.items \in Seq(Documents)
           /\ \A i \in DOMAIN doc.items : /\ doc.items[i] \in Documents
                                          /\ Rank[doc.items[i]] < Rank[doc]
<1>1. doc.items \in Seq(Documents)
  BY Shapes
<1>2. \A i \in DOMAIN doc.items : doc.items[i] \in Documents
  BY <1>1
<1>3. \A i \in DOMAIN doc.items : doc.items[i] \in Below(doc)
  BY DEF Below
<1> QED
  BY <1>1, <1>2, <1>3, AgentAssumption

LEMMA DictBelow ==
    ASSUME NEW doc \in Documents, doc.is = "dict", NEW k \in Keys(doc)
    PROVE  doc.fields[k] \in Documents /\ Rank[doc.fields[k]] < Rank[doc]
<1>1. doc.fields[k] \in Documents
  BY Shapes
<1>2. doc.fields[k] \in Below(doc)
  BY DEF Below
<1> QED
  BY <1>1, <1>2, AgentAssumption

LEMMA Ranks == \A doc \in Documents : Rank[doc] \in Nat /\ Rank[doc] <= Depth
BY AgentAssumption

\* The entries that are kept are the last ones.
LEMMA KeptIs ==
    ASSUME NEW items \in Seq(Documents)
    PROVE  LET kept == Kept(items)
               gone == Len(items) - Len(kept)
           IN /\ kept \in Seq(Documents) /\ gone \in Nat /\ Len(kept) \in Nat
              /\ Len(kept) <= HistoryKeep
              /\ \A i \in 1..Len(kept) : kept[i] = items[gone + i] /\ gone + i \in 1..Len(items)
              /\ gone = 0 => kept = items
<1>1. Len(items) \in Nat /\ HistoryKeep \in Nat
  BY AgentAssumption
<1>2. CASE Len(items) <= HistoryKeep
  BY <1>1, <1>2 DEF Kept
<1>3. CASE ~(Len(items) <= HistoryKeep)
  <2> DEFINE n == Len(items)
             kept == SubSeq(items, n - HistoryKeep + 1, n)
  <2>1. Kept(items) = kept
    BY <1>3 DEF Kept
  <2>2. n - HistoryKeep + 1 \in 1..n /\ n \in Nat
    BY <1>1, <1>3, AgentAssumption
  <2>3. \A i \in n - HistoryKeep + 1..n : items[i] \in Documents
    BY <2>2
  <2>4. /\ kept \in Seq(Documents)
        /\ Len(kept) = IF n - HistoryKeep + 1 <= n THEN n - (n - HistoryKeep + 1) + 1 ELSE 0
        /\ \A i \in 1..n - (n - HistoryKeep + 1) + 1 :
             kept[i] = items[n - HistoryKeep + 1 + i - 1]
    <3> HIDE DEF n
    <3> QED
      BY <1>1, <2>2, <2>3, SubSeqProperties
  <2> HIDE DEF n, kept
  <2>5. Len(kept) = HistoryKeep /\ n - Len(kept) \in Nat /\ n - Len(kept) # 0
    BY <1>1, <1>3, <2>2, <2>4, AgentAssumption DEF n
  <2>6. \A i \in 1..Len(kept) : kept[i] = items[n - Len(kept) + i] /\ n - Len(kept) + i \in 1..n
    <3> TAKE i \in 1..Len(kept)
    <3>1. i \in 1..n - (n - HistoryKeep + 1) + 1
      BY <1>1, <2>2, <2>5
    <3>2. n - HistoryKeep + 1 + i - 1 = n - Len(kept) + i
      BY <1>1, <2>2, <2>5
    <3>3. n - Len(kept) + i \in 1..n
      BY <1>1, <2>2, <2>5
    <3> QED
      BY <2>4, <3>1, <3>2, <3>3
  <2> QED
    BY <1>1, <2>1, <2>4, <2>5, <2>6 DEF n
<1> QED
  BY <1>2, <1>3

\* The turns of a history are below the dict, and so are those that are kept.
LEMMA TurnsBelow ==
    ASSUME NEW doc \in Documents, doc.is = "dict", History(doc)
    PROVE  /\ Turns(doc) \in Seq(Documents) /\ Kept(Turns(doc)) \in Seq(Documents)
           /\ \A i \in DOMAIN Kept(Turns(doc)) :
                /\ Kept(Turns(doc))[i] \in Documents
                /\ Rank[Kept(Turns(doc))[i]] < Rank[doc]
                /\ Rank[Kept(Turns(doc))[i]] < Rank[doc] - 1
<1> DEFINE h == doc.fields["history"]
           kept == Kept(Turns(doc))
<1>1. h \in Documents /\ Rank[h] < Rank[doc] /\ h.is = "list"
  BY DictBelow DEF History
<1>2. Turns(doc) = h.items
  BY DEF Turns
<1> HIDE DEF h
<1>3. /\ h.items \in Seq(Documents)
      /\ \A i \in DOMAIN h.items : h.items[i] \in Documents /\ Rank[h.items[i]] < Rank[h]
  BY <1>1, ListBelow
<1>4. /\ kept \in Seq(Documents)
      /\ \A i \in 1..Len(kept) : /\ kept[i] = h.items[Len(h.items) - Len(kept) + i]
                                 /\ Len(h.items) - Len(kept) + i \in 1..Len(h.items)
  BY <1>2, <1>3, KeptIs
<1> HIDE DEF kept
<1>5. ASSUME NEW i \in DOMAIN kept
      PROVE  /\ kept[i] \in Documents
             /\ Rank[kept[i]] < Rank[doc] /\ Rank[kept[i]] < Rank[doc] - 1
  <2>1. i \in 1..Len(kept)
    BY <1>4
  <2>2. Len(h.items) - Len(kept) + i \in DOMAIN h.items
    BY <1>3, <1>4, <2>1
  <2>3. kept[i] \in Documents /\ Rank[kept[i]] < Rank[h]
    BY <1>3, <1>4, <2>1, <2>2
  <2> QED
    BY <1>1, <2>3, Ranks
<1> QED
  BY <1>2, <1>3, <1>4, <1>5 DEF kept

(***************************************************************************)
(* invoke_agent: the walk                                                  *)
(***************************************************************************)

\* One level of the walk asks for what is less deep, and for nothing else.
LEMMA OneLevel ==
    ASSUME NEW doc \in Documents, NEW f, NEW g,
           \A d \in Documents : Rank[d] < Rank[doc] => f[d] = g[d]
    PROVE  ValueOf(doc, f) = ValueOf(doc, g) /\ CutIn(doc, f) = CutIn(doc, g)
<1>1. CASE doc.is = "str"
  BY <1>1 DEF ValueOf, CutIn
<1>2. CASE doc.is = "num"
  BY <1>2 DEF ValueOf, CutIn
<1>3. CASE doc.is = "list"
  <2>1. \A i \in DOMAIN doc.items : f[doc.items[i]] = g[doc.items[i]]
    BY <1>3, ListBelow
  <2>2. [i \in DOMAIN doc.items |-> f[doc.items[i]].value]
          = [i \in DOMAIN doc.items |-> g[doc.items[i]].value]
    BY <2>1
  <2>3. (\E i \in DOMAIN doc.items : f[doc.items[i]].cut)
          = (\E i \in DOMAIN doc.items : g[doc.items[i]].cut)
    BY <2>1
  <2> QED
    BY <1>3, <2>2, <2>3 DEF ValueOf, CutIn
<1>4. CASE doc.is = "dict"
  <2> DEFINE kept == Kept(Turns(doc))
  <2>1. \A k \in Own(doc) : f[doc.fields[k]] = g[doc.fields[k]]
    BY <1>4, DictBelow DEF Own
  <2>2. History(doc) => \A i \in DOMAIN kept : f[kept[i]] = g[kept[i]]
    BY <1>4, TurnsBelow
  <2> HIDE DEF kept
  <2>3. Walked(doc, f) = Walked(doc, g)
    <3>1. History(doc) => [i \in DOMAIN kept |-> f[kept[i]].value]
                            = [i \in DOMAIN kept |-> g[kept[i]].value]
      BY <2>2
    <3> DEFINE value(h, k) ==
                 IF k = "history_omitted" /\ Counted(doc) THEN Num(Dropped(doc))
                 ELSE IF k \notin Own(doc) THEN Num(Size(doc.fields["bytes"]))
                 ELSE IF k = "history" /\ History(doc)
                      THEN List([i \in DOMAIN kept |-> h[kept[i]].value])
                 ELSE h[doc.fields[k]].value
    <3>2. \A k : value(f, k) = value(g, k)
      BY <2>1, <3>1
    <3>3. Walked(doc, f) = Dict([k \in Own(doc) \cup Notes(doc) |-> value(f, k)], doc.last)
      BY DEF Walked, kept
    <3>4. Walked(doc, g) = Dict([k \in Own(doc) \cup Notes(doc) |-> value(g, k)], doc.last)
      BY DEF Walked, kept
    <3> HIDE DEF value
    <3> QED
      BY <3>2, <3>3, <3>4
  <2>4. CutIn(doc, f) = CutIn(doc, g)
    <3> DEFINE in(h) == \E k \in Own(doc) :
                          IF k = "history" /\ History(doc)
                          THEN \E i \in DOMAIN kept : h[kept[i]].cut
                          ELSE h[doc.fields[k]].cut
    <3>1. in(f) = in(g)
      BY <2>1, <2>2
    <3>2. CutIn(doc, f) = (Notes(doc) # {} \/ in(f)) /\ CutIn(doc, g) = (Notes(doc) # {} \/ in(g))
      BY <1>4 DEF CutIn, kept
    <3> HIDE DEF in
    <3> QED
      BY <3>1, <3>2
  <2> QED
    BY <1>4, <2>3, <2>4 DEF ValueOf
<1> QED
  BY <1>1, <1>2, <1>3, <1>4, Shapes

Walk(doc, f) == [value |-> ValueOf(doc, f), cut |-> CutIn(doc, f)]

\* f has the walk's equation for the documents of the first n ranks.
IsWalk(n, f) ==
    f = [doc \in Documents |-> IF Rank[doc] < n THEN Walk(doc, f)
                                                ELSE [value |-> doc, cut |-> FALSE]]

\* There is such a function: each rank needs the ranks before it only.
LEMMA WalkExists ==
    ASSUME NEW n \in Nat
    PROVE  \E f : IsWalk(n, f)
<1> DEFINE S == {m \in Nat : ~\E f : IsWalk(m, f)}
<1> SUFFICES ASSUME S # {} PROVE FALSE
  OBVIOUS
<1>1. PICK m \in S : \A k \in S : ~(k < m)
  <2>1. S \in SUBSET Nat
    OBVIOUS
  <2> HIDE DEF S
  <2> QED
    BY <2>1, HasSmallest
<1>2. m # 0
  <2>1. IsWalk(0, [doc \in Documents |-> [value |-> doc, cut |-> FALSE]])
    BY Ranks DEF IsWalk
  <2> QED
    BY <2>1
<1>3. PICK f : IsWalk(m - 1, f)
  BY <1>1, <1>2
<1> DEFINE g == [doc \in Documents |-> IF Rank[doc] < m THEN Walk(doc, f)
                                                        ELSE [value |-> doc, cut |-> FALSE]]
<1>4. ASSUME NEW d \in Documents, Rank[d] < m - 1 PROVE f[d] = g[d]
  <2>1. f[d] = Walk(d, f)
    <3>1. \A doc \in Documents : f[doc] = IF Rank[doc] < m - 1 THEN Walk(doc, f)
                                          ELSE [value |-> doc, cut |-> FALSE]
      BY <1>3 DEF IsWalk
    <3> QED
      BY <1>4, <3>1
  <2>2. Rank[d] < m
    BY <1>1, <1>4, Ranks
  <2> QED
    BY <2>1, <2>2
<1>5. ASSUME NEW doc \in Documents, Rank[doc] < m PROVE Walk(doc, f) = Walk(doc, g)
  <2>1. \A d \in Documents : Rank[d] < Rank[doc] => f[d] = g[d]
    <3> SUFFICES ASSUME NEW d \in Documents, Rank[d] < Rank[doc] PROVE f[d] = g[d]
      OBVIOUS
    <3>1. Rank[d] < m - 1
      BY <1>1, <1>5, Ranks
    <3> QED
      BY <1>4, <3>1
  <2> HIDE DEF g
  <2> QED
    BY <2>1, OneLevel DEF Walk
<1>6. IsWalk(m, g)
  <2>1. g = [doc \in Documents |-> IF Rank[doc] < m THEN Walk(doc, f)
                                                    ELSE [value |-> doc, cut |-> FALSE]]
    OBVIOUS
  <2> HIDE DEF g
  <2> QED
    BY <1>5, <2>1 DEF IsWalk
<1> QED
  BY <1>1, <1>6

\* bound_a2a is the function it is defined to be.
LEMMA WalkIs ==
    ASSUME NEW doc \in Documents
    PROVE  /\ bound_a2a[doc].value = ValueOf(doc, bound_a2a)
           /\ bound_a2a[doc].cut <=> CutIn(doc, bound_a2a)
<1> DEFINE IsAll(f) == f = [d \in Documents |-> Walk(d, f)]
<1>1. bound_a2a = CHOOSE f : IsAll(f)
  BY DEF bound_a2a, Walk
<1>2. \E f : IsAll(f)
  <2>1. PICK f : IsWalk(Depth + 1, f)
    BY AgentAssumption, WalkExists
  <2>2. \A d \in Documents : Rank[d] < Depth + 1
    BY AgentAssumption, Ranks
  <2>3. IsAll(f)
    BY <2>1, <2>2 DEF IsWalk
  <2> QED
    BY <2>3
<1>3. bound_a2a = [d \in Documents |-> Walk(d, bound_a2a)]
  BY <1>1, <1>2
<1>4. bound_a2a[doc] = Walk(doc, bound_a2a)
  BY <1>3
<1> QED
  BY <1>4 DEF Walk

\* The parts of a bounded dict.
Part(doc, k) ==
    LET kept == Kept(Turns(doc)) IN
    IF k = "history_omitted" /\ Counted(doc) THEN Num(Dropped(doc))
    ELSE IF k \notin Own(doc) THEN Num(Size(doc.fields["bytes"]))
    ELSE IF k = "history" /\ History(doc)
         THEN List([i \in DOMAIN kept |-> bound_a2a[kept[i]].value])
    ELSE bound_a2a[doc.fields[k]].value

LEMMA DictIs ==
    ASSUME NEW doc \in Documents, doc.is = "dict"
    PROVE  LET v == bound_a2a[doc].value IN
           /\ v = Dict([k \in Own(doc) \cup Notes(doc) |-> Part(doc, k)], doc.last)
           /\ v.is = "dict" /\ Keys(v) = Own(doc) \cup Notes(doc)
           /\ \A k \in Keys(v) : v.fields[k] = Part(doc, k)
<1> DEFINE v == bound_a2a[doc].value
           f == [k \in Own(doc) \cup Notes(doc) |-> Part(doc, k)]
<1>1. v = Walked(doc, bound_a2a)
  BY WalkIs DEF ValueOf
<1>2. v = Dict(f, doc.last)
  BY <1>1 DEF Walked, Part
<1> HIDE DEF v
<1>3. v.is = "dict" /\ v.fields = f
  BY <1>2 DEF Dict
<1> QED
  BY <1>2, <1>3 DEF Keys, v

LEMMA OthersAre ==
    ASSUME NEW doc \in Documents
    PROVE  LET v == bound_a2a[doc].value IN
           /\ doc.is = "num" => v = doc
           /\ doc.is = "str" =>
                v = Str(doc.text, IF doc.length > TextCap THEN TextCap ELSE doc.length)
           /\ doc.is = "list" =>
                v = List([i \in DOMAIN doc.items |-> bound_a2a[doc.items[i]].value])
BY WalkIs DEF ValueOf

\* Bounding a document leaves it what it is.
LEMMA SameKind ==
    ASSUME NEW doc \in Documents
    PROVE  bound_a2a[doc].value.is = doc.is
<1>1. CASE doc.is = "dict"
  BY <1>1, DictIs
<1>2. CASE doc.is = "list"
  <2>1. bound_a2a[doc].value = List([i \in DOMAIN doc.items |-> bound_a2a[doc.items[i]].value])
    BY <1>2, OthersAre
  <2> QED
    BY <1>2, <2>1 DEF List
<1>3. CASE doc.is = "str"
  <2>1. bound_a2a[doc].value
          = Str(doc.text, IF doc.length > TextCap THEN TextCap ELSE doc.length)
    BY <1>3, OthersAre
  <2> QED
    BY <1>3, <2>1 DEF Str
<1>4. CASE doc.is = "num"
  BY <1>4, OthersAre
<1> QED
  BY <1>1, <1>2, <1>3, <1>4, Shapes

\* What is dropped of a history is what is not kept.
LEMMA DroppedIs ==
    ASSUME NEW doc \in Documents, doc.is = "dict"
    PROVE  /\ Dropped(doc) \in Nat
           /\ History(doc) => Dropped(doc) = Len(Turns(doc)) - Len(Kept(Turns(doc)))
           /\ ~History(doc) => Dropped(doc) = 0
<1>1. CASE History(doc)
  BY <1>1, TurnsBelow, KeptIs DEF Dropped
<1>2. CASE ~History(doc)
  BY <1>2 DEF Dropped
<1> QED
  BY <1>1, <1>2

\* A dict of which nothing was cut stays as it is, if all below it does.
LEMMA WholeDict ==
    ASSUME NEW doc \in Documents, doc.is = "dict", ~bound_a2a[doc].cut,
           \A d \in Documents :
             Rank[d] < Rank[doc] => bound_a2a[d].cut \/ bound_a2a[d].value = d
    PROVE  bound_a2a[doc].value = doc
<1> DEFINE kept == Kept(Turns(doc))
<1>1. /\ Notes(doc) = {}
      /\ \A k \in Own(doc) : IF k = "history" /\ History(doc)
                             THEN \A i \in DOMAIN kept : ~bound_a2a[kept[i]].cut
                             ELSE ~bound_a2a[doc.fields[k]].cut
  BY WalkIs DEF CutIn
<1>2. "bytes" \notin Keys(doc) /\ ~(Dropped(doc) > 0)
  BY <1>1 DEF Notes
<1>3. Own(doc) \cup Notes(doc) = Keys(doc) /\ Own(doc) = Keys(doc)
  BY <1>1, <1>2 DEF Own
<1> HIDE DEF kept
<1>4. ASSUME NEW k \in Keys(doc) PROVE Part(doc, k) = doc.fields[k]
  <2>1. CASE k = "history" /\ History(doc)
    <3>1. kept = Turns(doc) /\ kept \in Seq(Documents)
      <4>1. Len(Turns(doc)) - Len(kept) = 0
        BY <1>2, <2>1, DroppedIs DEF kept
      <4> QED
        BY <2>1, <4>1, TurnsBelow, KeptIs DEF kept
    <3>2. \A i \in DOMAIN kept : bound_a2a[kept[i]].value = kept[i]
      BY <1>1, <1>3, <2>1, TurnsBelow DEF kept
    <3>3. [i \in DOMAIN kept |-> bound_a2a[kept[i]].value] = kept
      BY <3>1, <3>2
    <3>4. doc.fields["history"] = List(Turns(doc))
      <4>1. doc.fields["history"] \in Documents /\ doc.fields["history"].is = "list"
        BY <2>1, DictBelow DEF History
      <4> QED
        BY <4>1, Shapes DEF Turns
    <3>5. Part(doc, k) = List([i \in DOMAIN kept |-> bound_a2a[kept[i]].value])
      BY <1>3, <2>1 DEF Part, kept
    <3> QED
      BY <2>1, <3>1, <3>3, <3>4, <3>5
  <2>2. CASE ~(k = "history" /\ History(doc))
    <3>1. Part(doc, k) = bound_a2a[doc.fields[k]].value
      BY <1>2, <1>3, <2>2 DEF Part, Counted
    <3>2. ~bound_a2a[doc.fields[k]].cut
      BY <1>1, <1>3, <2>2
    <3> QED
      BY <3>1, <3>2, DictBelow
  <2> QED
    BY <2>1, <2>2
<1>5. doc = Dict(doc.fields, doc.last) /\ doc.fields = [k \in Keys(doc) |-> doc.fields[k]]
  BY Shapes
<1>6. bound_a2a[doc].value = Dict([k \in Keys(doc) |-> Part(doc, k)], doc.last)
  BY <1>3, DictIs
<1>7. [k \in Keys(doc) |-> Part(doc, k)] = [k \in Keys(doc) |-> doc.fields[k]]
  BY <1>4
<1> QED
  BY <1>5, <1>6, <1>7

\* A document of which nothing was cut is returned as it is.
LEMMA NothingCut ==
    ASSUME NEW doc \in Documents
    PROVE  bound_a2a[doc].cut \/ bound_a2a[doc].value = doc
<1> DEFINE Odds == {d \in Documents : ~bound_a2a[d].cut /\ bound_a2a[d].value # d}
           S == {Rank[d] : d \in Odds}
<1> SUFFICES ASSUME S # {} PROVE FALSE
  OBVIOUS
<1>1. PICK m \in S : \A k \in S : ~(k < m)
  <2>1. S \in SUBSET Nat
    BY Ranks
  <2> HIDE DEF S
  <2> QED
    BY <2>1, HasSmallest
<1>2. PICK d \in Documents : Rank[d] = m /\ ~bound_a2a[d].cut /\ bound_a2a[d].value # d
  BY <1>1
<1>3. \A e \in Documents : Rank[e] < Rank[d] => bound_a2a[e].cut \/ bound_a2a[e].value = e
  BY <1>1, <1>2
<1>4. CASE d.is = "dict"
  BY <1>2, <1>3, <1>4, WholeDict
<1>5. CASE d.is = "list"
  <2>1. \A i \in DOMAIN d.items : ~bound_a2a[d.items[i]].cut
    BY <1>2, <1>5, WalkIs DEF CutIn
  <2>2. \A i \in DOMAIN d.items : bound_a2a[d.items[i]].value = d.items[i]
    BY <1>3, <1>5, <2>1, ListBelow
  <2>3. [i \in DOMAIN d.items |-> bound_a2a[d.items[i]].value] = d.items
    <3>1. d.items \in Seq(Documents)
      BY <1>5, ListBelow
    <3>2. d.items = [i \in DOMAIN d.items |-> d.items[i]]
      BY <3>1
    <3> QED
      BY <2>2, <3>2
  <2>4. d = List(d.items) /\ bound_a2a[d].value = List(d.items)
    BY <1>5, <2>3, OthersAre, Shapes
  <2> QED
    BY <1>2, <2>4
<1>6. CASE d.is = "str"
  <2>1. ~(d.length > TextCap)
    BY <1>2, <1>6, WalkIs DEF CutIn
  <2> QED
    BY <1>2, <1>6, <2>1, OthersAre, Shapes
<1>7. CASE d.is = "num"
  BY <1>2, <1>7, OthersAre
<1> QED
  BY <1>4, <1>5, <1>6, <1>7, Shapes

(***************************************************************************)
(* invoke_agent: what is anywhere in a bounded result                      *)
(***************************************************************************)

Bounds == {bound_a2a[d].value : d \in Documents}

Counts == {Num(Size(d)) : d \in Documents} \cup {Num(Dropped(d)) : d \in Documents}

Lists == {List([i \in DOMAIN s |-> bound_a2a[s[i]].value]) : s \in Seq(Documents)}

LEMMA PartIs ==
    ASSUME NEW doc \in Documents, doc.is = "dict", NEW k \in Own(doc) \cup Notes(doc)
    PROVE  Part(doc, k) \in Bounds \cup Counts \cup Lists
<1>1. CASE k = "history_omitted" /\ Counted(doc)
  BY <1>1 DEF Part, Counts
<1>2. CASE ~(k = "history_omitted" /\ Counted(doc)) /\ k \notin Own(doc)
  <2>1. Part(doc, k) = Num(Size(doc.fields["bytes"]))
    BY <1>2 DEF Part
  <2>2. "bytes" \in Keys(doc)
    BY <1>2 DEF Notes, Counted
  <2> QED
    BY <2>1, <2>2, DictBelow DEF Counts
<1>3. CASE ~(k = "history_omitted" /\ Counted(doc)) /\ k \in Own(doc)
           /\ k = "history" /\ History(doc)
  <2>1. Part(doc, k) = List([i \in DOMAIN Kept(Turns(doc)) |->
                               bound_a2a[Kept(Turns(doc))[i]].value])
    BY <1>3 DEF Part
  <2>2. Kept(Turns(doc)) \in Seq(Documents)
    BY <1>3, TurnsBelow
  <2> QED
    BY <2>1, <2>2 DEF Lists
<1>4. CASE ~(k = "history_omitted" /\ Counted(doc)) /\ k \in Own(doc)
           /\ ~(k = "history" /\ History(doc))
  <2>1. Part(doc, k) = bound_a2a[doc.fields[k]].value
    BY <1>4 DEF Part
  <2>2. doc.fields[k] \in Documents
    BY <1>4, DictBelow DEF Own
  <2> QED
    BY <2>1, <2>2 DEF Bounds
<1> QED
  BY <1>1, <1>2, <1>3, <1>4

\* Below a bounded document are bounded documents, lists of them and counts.
LEMMA BelowBounded ==
    ASSUME NEW v \in Bounds \cup Counts \cup Lists
    PROVE  Below(v) \subseteq Bounds \cup Counts \cup Lists
<1>1. CASE v \in Counts
  <2>1. v.is = "num"
    BY <1>1 DEF Counts, Num
  <2> QED
    BY <2>1 DEF Below
<1>2. ASSUME NEW s \in Seq(Documents), v = List([i \in DOMAIN s |-> bound_a2a[s[i]].value])
      PROVE  Below(v) \subseteq Bounds
  <2>1. v.is = "list" /\ v.items = [i \in DOMAIN s |-> bound_a2a[s[i]].value]
    BY <1>2 DEF List
  <2>2. \A i \in DOMAIN s : s[i] \in Documents
    OBVIOUS
  <2> QED
    BY <2>1, <2>2 DEF Below, Bounds
<1>3. ASSUME NEW d \in Documents, v = bound_a2a[d].value
      PROVE  Below(v) \subseteq Bounds \cup Counts \cup Lists
  <2>1. CASE d.is = "dict"
    <3>1. /\ v.is = "dict" /\ Keys(v) = Own(d) \cup Notes(d)
          /\ \A k \in Keys(v) : v.fields[k] = Part(d, k)
      BY <1>3, <2>1, DictIs
    <3>2. \A k \in Keys(v) : v.fields[k] \in Bounds \cup Counts \cup Lists
      BY <2>1, <3>1, PartIs
    <3> QED
      BY <3>1, <3>2 DEF Below
  <2>2. CASE d.is = "list"
    <3>1. v = List([i \in DOMAIN d.items |-> bound_a2a[d.items[i]].value])
      BY <1>3, <2>2, OthersAre
    <3>2. d.items \in Seq(Documents)
      BY <2>2, ListBelow
    <3> QED
      BY <1>2, <3>1, <3>2
  <2>3. CASE d.is \in {"str", "num"}
    <3>1. v.is = d.is
      BY <1>3, SameKind
    <3> QED
      BY <2>3, <3>1 DEF Below
  <2> QED
    BY <2>1, <2>2, <2>3, Shapes
<1> QED
  BY <1>1, <1>2, <1>3 DEF Bounds, Lists

\* Each of them is modest.
LEMMA ModestBounded ==
    ASSUME NEW v \in Bounds \cup Counts \cup Lists
    PROVE  Modest(v)
<1>1. CASE v \in Counts \cup Lists
  <2>1. v.is \in {"num", "list"}
    BY <1>1 DEF Counts, Lists, Num, List
  <2> QED
    BY <2>1 DEF Modest
<1>2. ASSUME NEW d \in Documents, v = bound_a2a[d].value PROVE Modest(v)
  <2>1. CASE d.is = "str"
    <3>1. v = Str(d.text, IF d.length > TextCap THEN TextCap ELSE d.length)
      BY <1>2, <2>1, OthersAre
    <3>2. v.is = "str" /\ v.length = IF d.length > TextCap THEN TextCap ELSE d.length
      BY <3>1 DEF Str
    <3>3. d.length \in Nat /\ TextCap \in Nat
      BY <2>1, Shapes, AgentAssumption
    <3> QED
      BY <3>2, <3>3 DEF Modest
  <2>2. CASE d.is = "dict"
    <3>1. /\ v.is = "dict" /\ Keys(v) = Own(d) \cup Notes(d)
          /\ \A k \in Keys(v) : v.fields[k] = Part(d, k)
      BY <1>2, <2>2, DictIs
    <3>2. "bytes" \notin Keys(v)
      BY <3>1 DEF Own, Notes
    <3>3. ASSUME History(v) PROVE Len(Turns(v)) <= HistoryKeep
      <4>1. "history" \in Keys(v) /\ v.fields["history"].is = "list"
        BY <3>3 DEF History
      <4>2. "history" \in Own(d) /\ "history" \in Keys(d)
        BY <3>1, <4>1 DEF Notes, Own
      <4>3. v.fields["history"] = Part(d, "history")
        BY <3>1, <4>1
      <4>4. CASE History(d)
        <5> DEFINE kept == Kept(Turns(d))
                   short == [i \in DOMAIN kept |-> bound_a2a[kept[i]].value]
        <5>1. Part(d, "history") = List(short)
          BY <4>2, <4>4 DEF Part
        <5>2. Turns(v) = short
          BY <4>3, <5>1 DEF Turns, List
        <5>3. kept \in Seq(Documents) /\ Len(kept) <= HistoryKeep /\ Len(kept) \in Nat
          BY <2>2, <4>4, TurnsBelow, KeptIs
        <5> HIDE DEF kept
        <5>4. DOMAIN short = 1..Len(kept) /\ Len(short) = Len(kept)
          BY <5>3
        <5> QED
          BY <5>2, <5>3, <5>4
      <4>5. CASE ~History(d)
        <5>1. Part(d, "history") = bound_a2a[d.fields["history"]].value
          BY <4>2, <4>5 DEF Part
        <5>2. d.fields["history"] \in Documents /\ d.fields["history"].is # "list"
          BY <2>2, <4>2, <4>5, DictBelow DEF History
        <5> QED
          BY <4>1, <4>3, <5>1, <5>2, SameKind
      <4> QED
        BY <4>4, <4>5
    <3> QED
      BY <3>1, <3>2, <3>3 DEF Modest
  <2>3. CASE d.is \in {"list", "num"}
    <3>1. v.is = d.is
      BY <1>2, SameKind
    <3> QED
      BY <2>3, <3>1 DEF Modest
  <2> QED
    BY <2>1, <2>2, <2>3, Shapes
<1> QED
  BY <1>1, <1>2 DEF Bounds

\* f has the levels of Within's function from doc down to level n.
AreLevels(doc, n, f) ==
    f = [i \in 0..n |-> IF i = 0 THEN {doc} ELSE UNION {Below(d) : d \in f[i - 1]}]

LEMMA LevelsExist ==
    ASSUME NEW doc, NEW n \in Nat
    PROVE  \E f : AreLevels(doc, n, f)
<1> DEFINE S == {m \in Nat : ~\E f : AreLevels(doc, m, f)}
<1> SUFFICES ASSUME S # {} PROVE FALSE
  OBVIOUS
<1>1. PICK m \in S : \A k \in S : ~(k < m)
  <2>1. S \in SUBSET Nat
    OBVIOUS
  <2> HIDE DEF S
  <2> QED
    BY <2>1, HasSmallest
<1>2. m # 0
  <2>1. AreLevels(doc, 0, [i \in 0..0 |-> {doc}])
    BY DEF AreLevels
  <2> QED
    BY <2>1
<1>3. PICK f : AreLevels(doc, m - 1, f)
  BY <1>1, <1>2
<1> DEFINE last == UNION {Below(d) : d \in f[m - 1]}
           g == [i \in 0..m |-> IF i = m THEN last ELSE f[i]]
<1>4. ASSUME NEW i \in 0..m
      PROVE  g[i] = IF i = 0 THEN {doc} ELSE UNION {Below(d) : d \in g[i - 1]}
  <2>1. \A j \in 0..m - 1 : f[j] = IF j = 0 THEN {doc} ELSE UNION {Below(d) : d \in f[j - 1]}
    BY <1>3 DEF AreLevels
  <2>2. CASE i = 0
    <3>1. g[i] = f[0] /\ 0 \in 0..m - 1
      BY <1>2, <2>2
    <3> QED
      BY <2>1, <2>2, <3>1
  <2>3. CASE i # 0 /\ i # m
    <3>1. g[i] = f[i] /\ g[i - 1] = f[i - 1] /\ i \in 0..m - 1
      BY <2>3
    <3> HIDE DEF g
    <3> QED
      BY <2>1, <2>3, <3>1
  <2>4. CASE i = m
    <3>1. g[m] = last /\ g[m - 1] = f[m - 1]
      BY <1>2
    <3> HIDE DEF g
    <3> QED
      BY <1>2, <2>4, <3>1
  <2> QED
    BY <2>2, <2>3, <2>4
<1>5. AreLevels(doc, m, g)
  <2>1. g = [i \in 0..m |-> g[i]]
    OBVIOUS
  <2> HIDE DEF g
  <2> QED
    BY <1>4, <2>1 DEF AreLevels
<1> QED
  BY <1>1, <1>5

\* Whatever holds a document and all that is below its elements holds all
\* that is within the document.
LEMMA WithinStays ==
    ASSUME NEW U, NEW doc \in U, \A d \in U : Below(d) \subseteq U
    PROVE  Within(doc) \subseteq U
<1> DEFINE f == CHOOSE g : AreLevels(doc, Depth, g)
           S == {i \in 0..Depth : ~(f[i] \subseteq U)}
<1>1. Depth \in Nat
  BY AgentAssumption
<1>2. AreLevels(doc, Depth, f)
  BY <1>1, LevelsExist
<1>3. Within(doc) = UNION {f[i] : i \in 0..Depth}
  BY DEF Within, AreLevels
<1> HIDE DEF f
<1>4. S = {}
  <2> SUFFICES ASSUME S # {} PROVE FALSE
    OBVIOUS
  <2>1. PICK m \in S : \A k \in S : ~(k < m)
    <3>1. S \in SUBSET Nat
      BY <1>1
    <3> HIDE DEF S
    <3> QED
      BY <3>1, HasSmallest
  <2>2. \A i \in 0..Depth : f[i] = IF i = 0 THEN {doc} ELSE UNION {Below(d) : d \in f[i - 1]}
    BY <1>2 DEF AreLevels
  <2>3. m # 0
    BY <2>1, <2>2
  <2>4. m - 1 \in 0..Depth /\ m - 1 < m /\ m \in 0..Depth
    BY <1>1, <2>1, <2>3
  <2>5. f[m - 1] \subseteq U
    BY <2>1, <2>4
  <2>6. f[m] = UNION {Below(d) : d \in f[m - 1]}
    BY <2>2, <2>3, <2>4
  <2>7. f[m] \subseteq U
    BY <2>5, <2>6
  <2> QED
    BY <2>1, <2>7
<1> QED
  BY <1>3, <1>4

\* So all that is within a bounded document is modest.
LEMMA ModestWithin ==
    ASSUME NEW doc \in Documents
    PROVE  \A v \in Within(bound_a2a[doc].value) : Modest(v)
<1> DEFINE U == Bounds \cup Counts \cup Lists
<1>1. bound_a2a[doc].value \in U
  BY DEF Bounds
<1>2. \A d \in U : Below(d) \subseteq U
  BY BelowBounded
<1> HIDE DEF U
<1>3. Within(bound_a2a[doc].value) \subseteq U
  BY <1>1, <1>2, WithinStays
<1> QED
  BY <1>3, ModestBounded DEF U

(***************************************************************************)
(* invoke_agent: what a bounded result accounts for                        *)
(***************************************************************************)

\* The history of a bounded dict, and how many of its entries are gone.
LEMMA GoneIs ==
    ASSUME NEW doc \in Documents, doc.is = "dict"
    PROVE  LET v == bound_a2a[doc].value
               kept == Kept(Turns(doc))
           IN /\ Gone(doc, v) = Dropped(doc)
              /\ History(doc) =>
                   /\ History(v) /\ Len(Turns(v)) = Len(kept) /\ DOMAIN Turns(v) = 1..Len(kept)
                   /\ \A i \in 1..Len(kept) : Turns(v)[i] = bound_a2a[kept[i]].value
<1> DEFINE v == bound_a2a[doc].value
           kept == Kept(Turns(doc))
           short == [i \in DOMAIN kept |-> bound_a2a[kept[i]].value]
<1>1. CASE History(doc)
  <2>1. "history" \in Own(doc)
    BY <1>1 DEF History, Own
  <2>2. "history" \in Keys(v) /\ v.fields["history"] = List(short)
    <3>1. "history" \in Keys(v) /\ v.fields["history"] = Part(doc, "history")
      BY <2>1, DictIs
    <3>2. Part(doc, "history") = List(short)
      BY <1>1, <2>1 DEF Part
    <3> QED
      BY <3>1, <3>2
  <2>3. kept \in Seq(Documents)
    BY <1>1, TurnsBelow
  <2> HIDE DEF v, kept
  <2>4. DOMAIN short = 1..Len(kept) /\ Len(short) = Len(kept)
    BY <2>3
  <2>5. \A i \in 1..Len(kept) : short[i] = bound_a2a[kept[i]].value
    BY <2>4
  <2> HIDE DEF short
  <2>6. History(v) /\ Turns(v) = short
    BY <2>2 DEF History, Turns, List
  <2>7. Gone(doc, v) = Len(Turns(doc)) - Len(kept)
    BY <1>1, <2>4, <2>6 DEF Gone
  <2>8. Dropped(doc) = Len(Turns(doc)) - Len(kept)
    BY <1>1, DroppedIs DEF kept
  <2> QED
    BY <2>4, <2>5, <2>6, <2>7, <2>8 DEF v, kept
<1>2. CASE ~History(doc)
  BY <1>2, DroppedIs DEF Gone
<1> QED
  BY <1>1, <1>2

LEMMA AccountsDict ==
    ASSUME NEW doc \in Documents, doc.is = "dict"
    PROVE  Accounts(doc, bound_a2a[doc].value)
<1> DEFINE v == bound_a2a[doc].value
<1>1. /\ v.is = "dict" /\ Keys(v) = Own(doc) \cup Notes(doc)
      /\ \A k \in Keys(v) : v.fields[k] = Part(doc, k)
  BY DictIs
<1>2. /\ Gone(doc, v) = Dropped(doc) /\ Dropped(doc) \in Nat
      /\ History(doc) => History(v)
  BY GoneIs, DroppedIs
<1> HIDE DEF v
<1>3. Own(doc) \subseteq Keys(v)
      /\ Keys(v) \subseteq Keys(doc) \cup {"bytes_omitted", "history_omitted"}
  BY <1>1 DEF Own, Notes
<1>4. ASSUME "bytes" \in Keys(doc), "bytes_omitted" \notin Keys(doc)
      PROVE  v.fields["bytes_omitted"] = Num(Size(doc.fields["bytes"]))
  <2>1. "bytes_omitted" \in Keys(v) /\ "bytes_omitted" \notin Own(doc)
    BY <1>1, <1>4 DEF Notes, Own
  <2> QED
    BY <1>1, <2>1 DEF Part
<1>5. ASSUME Gone(doc, v) # 0, "history_omitted" \notin Keys(doc)
      PROVE  Replaced(doc, v)
  <2>1. Dropped(doc) > 0
    BY <1>2, <1>5
  <2>2. "history_omitted" \in Keys(v) /\ Counted(doc)
    BY <1>1, <1>5, <2>1 DEF Notes, Counted, Own
  <2>3. v.fields["history_omitted"] = Num(Dropped(doc))
    BY <1>1, <2>2 DEF Part
  <2> QED
    BY <1>2, <2>1, <2>3 DEF Replaced
<1> QED
  BY <1>1, <1>2, <1>3, <1>4, <1>5 DEF Accounts, v

LEMMA AccountsBounded ==
    ASSUME NEW doc \in Documents
    PROVE  Accounts(doc, bound_a2a[doc].value)
<1> DEFINE v == bound_a2a[doc].value
<1>1. CASE doc.is = "dict"
  BY <1>1, AccountsDict
<1>2. CASE doc.is = "list"
  <2> DEFINE s == [i \in DOMAIN doc.items |-> bound_a2a[doc.items[i]].value]
  <2>1. v = List(s)
    BY <1>2, OthersAre
  <2>2. v.is = "list" /\ v.items = s
    BY <2>1 DEF List
  <2>3. doc.items \in Seq(Documents)
    BY <1>2, ListBelow
  <2>4. Len(s) = Len(doc.items)
    BY <2>3
  <2> HIDE DEF s, v
  <2> QED
    BY <1>2, <2>2, <2>4 DEF Accounts, v
<1>3. CASE doc.is = "str"
  <2>1. v = Str(doc.text, IF doc.length > TextCap THEN TextCap ELSE doc.length)
    BY <1>3, OthersAre
  <2>2. /\ v.is = "str" /\ v.text = doc.text
        /\ v.length = IF doc.length > TextCap THEN TextCap ELSE doc.length
    BY <2>1 DEF Str
  <2> HIDE DEF v
  <2> QED
    BY <1>3, <2>2 DEF Accounts, v
<1>4. CASE doc.is = "num"
  BY <1>4, OthersAre DEF Accounts
<1> QED
  BY <1>1, <1>2, <1>3, <1>4, Shapes

\* A document of the first ranks and what it is bounded to.
Couples(n) == {<<d, bound_a2a[d].value>> : d \in {e \in Documents : Rank[e] < n}}

\* What corresponds below a couple are couples.
LEMMA BesideCouple ==
    ASSUME NEW doc \in Documents
    PROVE  Beside(<<doc, bound_a2a[doc].value>>) \subseteq Couples(Rank[doc])
<1> DEFINE v == bound_a2a[doc].value
<1>1. CASE doc.is = "list"
  <2> DEFINE s == [i \in DOMAIN doc.items |-> bound_a2a[doc.items[i]].value]
  <2>1. v = List(s)
    BY <1>1, OthersAre
  <2>2. v.items = s
    BY <2>1 DEF List
  <2>3. \A i \in DOMAIN v.items : doc.items[i] \in Documents
                                  /\ Rank[doc.items[i]] < Rank[doc]
                                  /\ v.items[i] = bound_a2a[doc.items[i]].value
    BY <1>1, <2>2, ListBelow
  <2>4. Beside(<<doc, v>>) = {<<doc.items[i], v.items[i]>> : i \in DOMAIN v.items}
    BY <1>1 DEF Beside
  <2> HIDE DEF v
  <2> QED
    BY <2>3, <2>4 DEF Couples, v
<1>2. CASE doc.is = "dict"
  <2> DEFINE skip == (IF History(doc) THEN {"history"} ELSE {})
                     \cup (IF Replaced(doc, v) THEN {"history_omitted"} ELSE {})
             kept == Kept(Turns(doc))
             gone == Gone(doc, v)
             plain == {<<doc.fields[k], v.fields[k]>> : k \in Own(doc) \ skip}
             turns == {<<Turns(doc)[gone + i], Turns(v)[i]>> : i \in DOMAIN Turns(v)}
  <2>1. Beside(<<doc, v>>) = plain \cup (IF History(doc) THEN turns ELSE {})
    BY <1>2 DEF Beside
  <2>2. ASSUME NEW k \in Own(doc) \ skip
        PROVE  <<doc.fields[k], v.fields[k]>> \in Couples(Rank[doc])
    <3>1. v.fields[k] = Part(doc, k)
      BY <1>2, DictIs
    <3>2. ~(k = "history_omitted" /\ Counted(doc))
      <4> SUFFICES ASSUME k = "history_omitted", Counted(doc) PROVE FALSE
        OBVIOUS
      <4>1. v.fields["history_omitted"] = Num(Dropped(doc))
        BY <3>1 DEF Part
      <4>2. gone = Dropped(doc) /\ Dropped(doc) > 0
        BY <1>2, GoneIs DEF Counted
      <4>3. Replaced(doc, v)
        BY <4>1, <4>2 DEF Replaced
      <4> QED
        BY <2>2, <4>3
    <3>3. ~(k = "history" /\ History(doc))
      BY <2>2
    <3>4. v.fields[k] = bound_a2a[doc.fields[k]].value
      BY <2>2, <3>1, <3>2, <3>3 DEF Part
    <3>5. doc.fields[k] \in Documents /\ Rank[doc.fields[k]] < Rank[doc]
      BY <1>2, <2>2, DictBelow DEF Own
    <3> QED
      BY <3>4, <3>5 DEF Couples
  <2>3. ASSUME History(doc), NEW i \in DOMAIN Turns(v)
        PROVE  <<Turns(doc)[gone + i], Turns(v)[i]>> \in Couples(Rank[doc])
    <3>1. i \in 1..Len(kept) /\ Turns(v)[i] = bound_a2a[kept[i]].value
      BY <1>2, <2>3, GoneIs
    <3>2. gone = Len(Turns(doc)) - Len(kept)
      BY <1>2, <2>3, GoneIs, DroppedIs
    <3>3. Turns(doc) \in Seq(Documents) /\ kept \in Seq(Documents)
      BY <1>2, <2>3, TurnsBelow
    <3>4. kept[i] = Turns(doc)[gone + i]
      BY <3>1, <3>2, <3>3, KeptIs
    <3>5. kept[i] \in Documents /\ Rank[kept[i]] < Rank[doc]
      BY <1>2, <2>3, <3>1, <3>3, TurnsBelow
    <3> QED
      BY <3>1, <3>4, <3>5 DEF Couples
  <2> HIDE DEF skip, gone
  <2>4. plain \subseteq Couples(Rank[doc])
    BY <2>2
  <2>5. History(doc) => turns \subseteq Couples(Rank[doc])
    BY <2>3
  <2> QED
    BY <2>1, <2>4, <2>5
<1>3. CASE doc.is \in {"str", "num"}
  BY <1>3 DEF Beside
<1> QED
  BY <1>1, <1>2, <1>3, Shapes

LEMMA BesideCouples ==
    ASSUME NEW n \in Nat, NEW p \in Couples(n + 1)
    PROVE  Beside(p) \subseteq Couples(n)
<1>1. PICK d \in Documents : Rank[d] < n + 1 /\ p = <<d, bound_a2a[d].value>>
  BY DEF Couples
<1>2. Couples(Rank[d]) \subseteq Couples(n)
  <2>1. \A e \in Documents : Rank[e] < Rank[d] => Rank[e] < n
    BY <1>1, Ranks
  <2> QED
    BY <2>1 DEF Couples
<1> QED
  BY <1>1, <1>2, BesideCouple

\* All documents have one of the first ranks.
LEMMA AllCouples ==
    /\ \A d \in Documents : <<d, bound_a2a[d].value>> \in Couples(Depth + 1)
    /\ Couples(Depth) \subseteq Couples(Depth + 1)
    /\ Couples(0) = {}
<1>1. \A d \in Documents : Rank[d] < Depth + 1 /\ ~(Rank[d] < 0)
  BY Ranks, AgentAssumption
<1> QED
  BY <1>1 DEF Couples

\* f has the levels of Pairs' function down to level n.
ArePairs(pair, n, f) ==
    f = [i \in 0..n |-> IF i = 0 THEN {pair} ELSE UNION {Beside(p) : p \in f[i - 1]}]

LEMMA PairsExist ==
    ASSUME NEW pair, NEW n \in Nat
    PROVE  \E f : ArePairs(pair, n, f)
<1> DEFINE S == {m \in Nat : ~\E f : ArePairs(pair, m, f)}
<1> SUFFICES ASSUME S # {} PROVE FALSE
  OBVIOUS
<1>1. PICK m \in S : \A k \in S : ~(k < m)
  <2>1. S \in SUBSET Nat
    OBVIOUS
  <2> HIDE DEF S
  <2> QED
    BY <2>1, HasSmallest
<1>2. m # 0
  <2>1. ArePairs(pair, 0, [i \in 0..0 |-> {pair}])
    BY DEF ArePairs
  <2> QED
    BY <2>1
<1>3. PICK f : ArePairs(pair, m - 1, f)
  BY <1>1, <1>2
<1> DEFINE last == UNION {Beside(p) : p \in f[m - 1]}
           g == [i \in 0..m |-> IF i = m THEN last ELSE f[i]]
<1>4. ASSUME NEW i \in 0..m
      PROVE  g[i] = IF i = 0 THEN {pair} ELSE UNION {Beside(p) : p \in g[i - 1]}
  <2>1. \A j \in 0..m - 1 : f[j] = IF j = 0 THEN {pair} ELSE UNION {Beside(p) : p \in f[j - 1]}
    BY <1>3 DEF ArePairs
  <2>2. CASE i = 0
    <3>1. g[i] = f[0] /\ 0 \in 0..m - 1
      BY <1>2, <2>2
    <3> QED
      BY <2>1, <2>2, <3>1
  <2>3. CASE i # 0 /\ i # m
    <3>1. g[i] = f[i] /\ g[i - 1] = f[i - 1] /\ i \in 0..m - 1
      BY <2>3
    <3> HIDE DEF g
    <3> QED
      BY <2>1, <2>3, <3>1
  <2>4. CASE i = m
    <3>1. g[m] = last /\ g[m - 1] = f[m - 1]
      BY <1>2
    <3> HIDE DEF g
    <3> QED
      BY <1>2, <2>4, <3>1
  <2> QED
    BY <2>2, <2>3, <2>4
<1>5. ArePairs(pair, m, g)
  <2>1. g = [i \in 0..m |-> g[i]]
    OBVIOUS
  <2> HIDE DEF g
  <2> QED
    BY <1>4, <2>1 DEF ArePairs
<1> QED
  BY <1>1, <1>5

LEMMA PairsStay ==
    ASSUME NEW U, NEW whole, NEW short, <<whole, short>> \in U,
           \A p \in U : Beside(p) \subseteq U
    PROVE  Pairs(whole, short) \subseteq U
<1> DEFINE f == CHOOSE g : ArePairs(<<whole, short>>, Depth, g)
           S == {i \in 0..Depth : ~(f[i] \subseteq U)}
<1>1. Depth \in Nat
  BY AgentAssumption
<1>2. ArePairs(<<whole, short>>, Depth, f)
  BY <1>1, PairsExist
<1>3. Pairs(whole, short) = UNION {f[i] : i \in 0..Depth}
  BY DEF Pairs, ArePairs
<1> HIDE DEF f
<1>4. S = {}
  <2> SUFFICES ASSUME S # {} PROVE FALSE
    OBVIOUS
  <2>1. PICK m \in S : \A k \in S : ~(k < m)
    <3>1. S \in SUBSET Nat
      BY <1>1
    <3> HIDE DEF S
    <3> QED
      BY <3>1, HasSmallest
  <2>2. \A i \in 0..Depth :
          f[i] = IF i = 0 THEN {<<whole, short>>} ELSE UNION {Beside(p) : p \in f[i - 1]}
    BY <1>2 DEF ArePairs
  <2>3. m # 0
    BY <2>1, <2>2
  <2>4. m - 1 \in 0..Depth /\ m - 1 < m /\ m \in 0..Depth
    BY <1>1, <2>1, <2>3
  <2>5. f[m - 1] \subseteq U
    BY <2>1, <2>4
  <2>6. f[m] = UNION {Beside(p) : p \in f[m - 1]}
    BY <2>2, <2>3, <2>4
  <2>7. f[m] \subseteq U
    BY <2>5, <2>6
  <2> QED
    BY <2>1, <2>7
<1> QED
  BY <1>3, <1>4

\* So everything is accounted for, at every level.
LEMMA AccountsWithin ==
    ASSUME NEW doc \in Documents
    PROVE  \A p \in Pairs(doc, bound_a2a[doc].value) : Accounts(p[1], p[2])
<1> DEFINE U == Couples(Depth + 1)
<1>1. <<doc, bound_a2a[doc].value>> \in U
  BY AllCouples
<1>2. \A p \in U : Beside(p) \subseteq U
  BY AllCouples, BesideCouples, AgentAssumption
<1> HIDE DEF U
<1>3. Pairs(doc, bound_a2a[doc].value) \subseteq U
  BY <1>1, <1>2, PairsStay
<1>4. \A p \in U : Accounts(p[1], p[2])
  BY AccountsBounded DEF Couples, U
<1> QED
  BY <1>3, <1>4

(***************************************************************************)
(* invoke_agent: the levels are all there are                              *)
(***************************************************************************)

\* What can be within a bounded document with r levels below it.
UpTo(r) ==
    {bound_a2a[d].value : d \in {e \in Documents : Rank[e] <= r}}
    \cup (IF r >= 0 THEN Counts ELSE {})
    \cup {List([i \in DOMAIN s |-> bound_a2a[s[i]].value]) :
            s \in {q \in Seq(Documents) : r >= 0 /\ \A i \in DOMAIN q : Rank[q[i]] < r}}

LEMMA PartUpTo ==
    ASSUME NEW r \in Nat, NEW doc \in Documents, Rank[doc] <= r, doc.is = "dict",
           NEW k \in Own(doc) \cup Notes(doc)
    PROVE  Part(doc, k) \in UpTo(r - 1)
<1> DEFINE kept == Kept(Turns(doc))
<1>0. Rank[doc] \in Nat /\ \A d \in Documents : Rank[d] \in Nat
  BY Ranks
<1>1. CASE k = "history_omitted" /\ Counted(doc)
  <2>1. "history" \in Keys(doc)
    BY <1>1, DroppedIs DEF Counted, History
  <2>2. r - 1 >= 0
    BY <1>0, <2>1, DictBelow
  <2>3. Part(doc, k) \in Counts
    BY <1>1 DEF Part, Counts
  <2> QED
    BY <2>2, <2>3 DEF UpTo
<1>2. CASE ~(k = "history_omitted" /\ Counted(doc)) /\ k \notin Own(doc)
  <2>1. Part(doc, k) = Num(Size(doc.fields["bytes"]))
    BY <1>2 DEF Part
  <2>2. "bytes" \in Keys(doc)
    BY <1>2 DEF Notes, Counted
  <2>3. r - 1 >= 0
    BY <1>0, <2>2, DictBelow
  <2>4. Part(doc, k) \in Counts
    BY <2>1, <2>2, DictBelow DEF Counts
  <2> QED
    BY <2>3, <2>4 DEF UpTo
<1>3. CASE ~(k = "history_omitted" /\ Counted(doc)) /\ k \in Own(doc)
           /\ k = "history" /\ History(doc)
  <2>1. Part(doc, k) = List([i \in DOMAIN kept |-> bound_a2a[kept[i]].value])
    BY <1>3 DEF Part
  <2>2. kept \in Seq(Documents)
    BY <1>3, TurnsBelow
  <2>3. r - 1 >= 0
    BY <1>0, <1>3, DictBelow DEF History
  <2>4. \A i \in DOMAIN kept : Rank[kept[i]] < r - 1
    <3> TAKE i \in DOMAIN kept
    <3>1. kept[i] \in Documents /\ Rank[kept[i]] < Rank[doc] - 1
      BY <1>3, TurnsBelow
    <3> HIDE DEF kept
    <3> QED
      BY <1>0, <3>1
  <2> HIDE DEF kept
  <2> QED
    BY <2>1, <2>2, <2>3, <2>4 DEF UpTo
<1>4. CASE ~(k = "history_omitted" /\ Counted(doc)) /\ k \in Own(doc)
           /\ ~(k = "history" /\ History(doc))
  <2>1. Part(doc, k) = bound_a2a[doc.fields[k]].value
    BY <1>4 DEF Part
  <2>2. doc.fields[k] \in Documents /\ Rank[doc.fields[k]] < Rank[doc]
    BY <1>4, DictBelow DEF Own
  <2>3. Rank[doc.fields[k]] <= r - 1
    BY <1>0, <2>2
  <2> QED
    BY <2>1, <2>2, <2>3 DEF UpTo
<1> QED
  BY <1>1, <1>2, <1>3, <1>4

LEMMA BelowUpTo ==
    ASSUME NEW r \in Nat, NEW v \in UpTo(r)
    PROVE  Below(v) \subseteq UpTo(r - 1)
<1>0. \A d \in Documents : Rank[d] \in Nat
  BY Ranks
<1>1. CASE v \in Counts
  <2>1. v.is = "num"
    BY <1>1 DEF Counts, Num
  <2> QED
    BY <2>1 DEF Below
<1>2. ASSUME NEW s \in Seq(Documents), \A i \in DOMAIN s : Rank[s[i]] < r,
             v = List([i \in DOMAIN s |-> bound_a2a[s[i]].value])
      PROVE  Below(v) \subseteq UpTo(r - 1)
  <2>1. v.is = "list" /\ v.items = [i \in DOMAIN s |-> bound_a2a[s[i]].value]
    BY <1>2 DEF List
  <2>2. \A i \in DOMAIN s : s[i] \in Documents /\ Rank[s[i]] <= r - 1
    BY <1>0, <1>2
  <2> QED
    BY <2>1, <2>2 DEF Below, UpTo
<1>3. ASSUME NEW d \in Documents, Rank[d] <= r, v = bound_a2a[d].value
      PROVE  Below(v) \subseteq UpTo(r - 1)
  <2>1. CASE d.is = "dict"
    <3>1. /\ v.is = "dict" /\ Keys(v) = Own(d) \cup Notes(d)
          /\ \A k \in Keys(v) : v.fields[k] = Part(d, k)
      BY <1>3, <2>1, DictIs
    <3>2. \A k \in Keys(v) : v.fields[k] \in UpTo(r - 1)
      BY <1>3, <2>1, <3>1, PartUpTo
    <3> QED
      BY <3>1, <3>2 DEF Below
  <2>2. CASE d.is = "list"
    <3>1. v = List([i \in DOMAIN d.items |-> bound_a2a[d.items[i]].value])
      BY <1>3, <2>2, OthersAre
    <3>2. d.items \in Seq(Documents)
      BY <2>2, ListBelow
    <3>3. \A i \in DOMAIN d.items : Rank[d.items[i]] < r
      BY <1>0, <1>3, <2>2, ListBelow
    <3> QED
      BY <1>2, <3>1, <3>2, <3>3
  <2>3. CASE d.is \in {"str", "num"}
    <3>1. v.is = d.is
      BY <1>3, SameKind
    <3> QED
      BY <2>3, <3>1 DEF Below
  <2> QED
    BY <2>1, <2>2, <2>3, Shapes
<1> QED
  BY <1>1, <1>2, <1>3 DEF UpTo

\* Within reaches the bottom of a bounded document: it has all that is below
\* what it has, so NothingOversized speaks of every depth.
THEOREM WithinIsAll ==
    \A doc \in Documents :
        \A v \in Within(bound_a2a[doc].value) :
            Below(v) \subseteq Within(bound_a2a[doc].value)
<1> SUFFICES ASSUME NEW doc \in Documents, NEW v \in Within(bound_a2a[doc].value)
             PROVE  Below(v) \subseteq Within(bound_a2a[doc].value)
  OBVIOUS
<1> DEFINE top == bound_a2a[doc].value
           f == CHOOSE g : AreLevels(top, Depth, g)
           S == {i \in 0..Depth : ~(f[i] \subseteq UpTo(Depth - i))}
<1>1. Depth \in Nat
  BY AgentAssumption
<1>2. AreLevels(top, Depth, f)
  BY <1>1, LevelsExist
<1>3. Within(top) = UNION {f[i] : i \in 0..Depth}
  BY DEF Within, AreLevels
<1>4. top \in UpTo(Depth)
  BY Ranks DEF UpTo
<1> HIDE DEF f, top
<1>5. \A i \in 0..Depth : f[i] = IF i = 0 THEN {top} ELSE UNION {Below(d) : d \in f[i - 1]}
  BY <1>2 DEF AreLevels
<1>6. S = {}
  <2> SUFFICES ASSUME S # {} PROVE FALSE
    OBVIOUS
  <2>1. PICK m \in S : \A k \in S : ~(k < m)
    <3>1. S \in SUBSET Nat
      BY <1>1
    <3> HIDE DEF S
    <3> QED
      BY <3>1, HasSmallest
  <2>2. m # 0
    <3>1. 0 \in 0..Depth /\ Depth - 0 = Depth
      BY <1>1
    <3>2. f[0] \subseteq UpTo(Depth - 0)
      BY <1>4, <1>5, <3>1
    <3> QED
      BY <2>1, <3>2
  <2>3. m - 1 \in 0..Depth /\ m - 1 < m /\ m \in 0..Depth
    BY <1>1, <2>1, <2>2
  <2>4. f[m - 1] \subseteq UpTo(Depth - (m - 1))
    BY <2>1, <2>3
  <2>5. f[m] = UNION {Below(d) : d \in f[m - 1]}
    BY <1>5, <2>2, <2>3
  <2>6. Depth - (m - 1) \in Nat /\ Depth - (m - 1) - 1 = Depth - m
    BY <1>1, <2>3
  <2>7. \A d \in f[m - 1] : Below(d) \subseteq UpTo(Depth - m)
    BY <2>4, <2>6, BelowUpTo
  <2>8. f[m] \subseteq UpTo(Depth - m)
    BY <2>5, <2>7
  <2> QED
    BY <2>1, <2>8
<1>7. PICK i \in 0..Depth : v \in f[i]
  BY <1>3 DEF top
<1>8. CASE i < Depth
  <2>1. i + 1 \in 0..Depth /\ i + 1 # 0 /\ i + 1 - 1 = i
    BY <1>1, <1>8
  <2>2. f[i + 1] = UNION {Below(d) : d \in f[i]}
    <3> DEFINE j == i + 1
    <3>1. j \in 0..Depth /\ j # 0 /\ j - 1 = i
      BY <2>1
    <3> HIDE DEF j
    <3>2. f[j] = UNION {Below(d) : d \in f[j - 1]}
      BY <1>5, <3>1
    <3> QED
      BY <3>1, <3>2 DEF j
  <2> QED
    BY <1>3, <1>7, <2>1, <2>2 DEF top
<1>9. CASE i = Depth
  <2>1. v \in UpTo(0)
    <3>1. Depth - Depth = 0
      BY <1>1
    <3>2. f[Depth] \subseteq UpTo(Depth - Depth)
      BY <1>6, <1>7, <1>9
    <3> QED
      BY <1>7, <1>9, <3>1, <3>2
  <2>2. Below(v) \subseteq UpTo(0 - 1)
    BY <2>1, BelowUpTo
  <2>3. UpTo(0 - 1) = {}
    <3>1. \A d \in Documents : ~(Rank[d] <= 0 - 1)
      BY Ranks
    <3>2. ~(0 - 1 >= 0)
      OBVIOUS
    <3> QED
      BY <3>1, <3>2 DEF UpTo
  <2> QED
    BY <2>2, <2>3
<1> QED
  BY <1>1, <1>7, <1>8, <1>9

\* And Pairs has all pairs that correspond, so OmissionsCounted does too.
THEOREM PairsAreAll ==
    \A doc \in Documents :
        \A p \in Pairs(doc, bound_a2a[doc].value) :
            Beside(p) \subseteq Pairs(doc, bound_a2a[doc].value)
<1> SUFFICES ASSUME NEW doc \in Documents, NEW p \in Pairs(doc, bound_a2a[doc].value)
             PROVE  Beside(p) \subseteq Pairs(doc, bound_a2a[doc].value)
  OBVIOUS
<1> DEFINE top == <<doc, bound_a2a[doc].value>>
           f == CHOOSE g : ArePairs(top, Depth, g)
           S == {i \in 0..Depth : ~(f[i] \subseteq Couples(Depth - i + 1))}
<1>1. Depth \in Nat
  BY AgentAssumption
<1>2. ArePairs(top, Depth, f)
  BY <1>1, PairsExist
<1>3. Pairs(doc, bound_a2a[doc].value) = UNION {f[i] : i \in 0..Depth}
  BY DEF Pairs, ArePairs
<1>4. top \in Couples(Depth + 1)
  BY AllCouples
<1> HIDE DEF f, top
<1>5. \A i \in 0..Depth : f[i] = IF i = 0 THEN {top} ELSE UNION {Beside(c) : c \in f[i - 1]}
  BY <1>2 DEF ArePairs
<1>6. S = {}
  <2> SUFFICES ASSUME S # {} PROVE FALSE
    OBVIOUS
  <2>1. PICK m \in S : \A k \in S : ~(k < m)
    <3>1. S \in SUBSET Nat
      BY <1>1
    <3> HIDE DEF S
    <3> QED
      BY <3>1, HasSmallest
  <2>2. m # 0
    <3>1. 0 \in 0..Depth /\ Depth - 0 = Depth
      BY <1>1
    <3>2. f[0] \subseteq Couples(Depth - 0 + 1)
      BY <1>4, <1>5, <3>1
    <3> QED
      BY <2>1, <3>2
  <2>3. m - 1 \in 0..Depth /\ m - 1 < m /\ m \in 0..Depth
    BY <1>1, <2>1, <2>2
  <2>4. f[m - 1] \subseteq Couples(Depth - (m - 1) + 1)
    BY <2>1, <2>3
  <2>5. f[m] = UNION {Beside(c) : c \in f[m - 1]}
    BY <1>5, <2>2, <2>3
  <2>6. Depth - (m - 1) \in Nat /\ Depth - m + 1 = Depth - (m - 1)
    BY <1>1, <2>3
  <2>7. \A c \in f[m - 1] : Beside(c) \subseteq Couples(Depth - (m - 1))
    BY <2>4, <2>6, BesideCouples
  <2>8. f[m] \subseteq Couples(Depth - m + 1)
    BY <2>5, <2>6, <2>7
  <2> QED
    BY <2>1, <2>8
<1>7. PICK i \in 0..Depth : p \in f[i]
  BY <1>3
<1>8. CASE i < Depth
  <2>1. i + 1 \in 0..Depth /\ i + 1 # 0 /\ i + 1 - 1 = i
    BY <1>1, <1>8
  <2>2. f[i + 1] = UNION {Beside(c) : c \in f[i]}
    <3> DEFINE j == i + 1
    <3>1. j \in 0..Depth /\ j # 0 /\ j - 1 = i
      BY <2>1
    <3> HIDE DEF j
    <3>2. f[j] = UNION {Beside(c) : c \in f[j - 1]}
      BY <1>5, <3>1
    <3> QED
      BY <3>1, <3>2 DEF j
  <2> QED
    BY <1>3, <1>7, <2>1, <2>2
<1>9. CASE i = Depth
  <2>1. Depth - Depth + 1 = 0 + 1
    BY <1>1
  <2>2. f[Depth] \subseteq Couples(Depth - Depth + 1)
    BY <1>6, <1>7, <1>9
  <2>3. p \in Couples(0 + 1)
    BY <1>7, <1>9, <2>1, <2>2
  <2>4. Beside(p) \subseteq Couples(0)
    BY <2>3, BesideCouples
  <2> QED
    BY <2>4, AllCouples
<1> QED
  BY <1>1, <1>7, <1>8, <1>9

-----------------------------------------------------------------------------
(***************************************************************************)
(* invoke_agent: the theorems                                              *)
(***************************************************************************)

\* A success is what the walk makes of a result that the agent sent.
AgentInv ==
    /\ stage \in {"called", "sent", "received", "ended"}
    /\ stage # "ended" => answer = Absent
    /\ stage = "received" => reply \in Responses
    /\ \/ answer \in {Absent, Failed}
       \/ reply.result \in Documents /\ answer = Outcome(reply.result)

\* Nothing else is ever answered: no error of the agent becomes a result.
THEOREM AgentInvariance == AgentSpec => []AgentInv
<1>1. AgentInit => AgentInv
  BY DEF AgentInit, AgentInv
<1>2. AgentInv /\ [AgentNext]_agentVars => AgentInv'
  <2> SUFFICES ASSUME AgentInv, [AgentNext]_agentVars PROVE AgentInv'
    OBVIOUS
  <2> USE DEF AgentInv
  <2>1. CASE RefuseCall
    BY <2>1 DEF RefuseCall, Failed
  <2>2. CASE Send
    BY <2>2 DEF Send
  <2>3. CASE RequestFails
    BY <2>3 DEF RequestFails, Failed
  <2>4. CASE Receive
    BY <2>4 DEF Receive, Responses
  <2>5. CASE RaiseError
    BY <2>5 DEF RaiseError, Failed
  <2>6. CASE Return
    <3>1. reply.result \in Documents
      <4>1. reply \in Responses /\ reply.result # Absent
        BY <2>6 DEF Return, Unusable
      <4>2. reply.result \in Results
        BY <4>1 DEF Responses
      <4> QED
        BY <4>2, AgentAssumption
    <3> QED
      BY <2>6, <3>1 DEF Return, Outcome
  <2>7. CASE Over \/ UNCHANGED agentVars
    BY <2>7 DEF Over, agentVars, Outcome, Failed, Responses
  <2> QED
    BY <2>1, <2>2, <2>3, <2>4, <2>5, <2>6, <2>7 DEF AgentNext
<1> QED
  BY <1>1, <1>2, PTL DEF AgentSpec

\* What a success says.
LEMMA SuccessIs ==
    ASSUME AgentInv, Succeeded
    PROVE  /\ reply.result \in Documents
           /\ answer = Outcome(reply.result)
BY DEF AgentInv, Succeeded, Failed

LEMMA NoStubIs ==
    ASSUME AgentInv, NoStub
    PROVE  reply.result \in Documents /\ answer.result = bound_a2a[reply.result].value
<1>1. reply.result \in Documents /\ answer = Outcome(reply.result)
  BY SuccessIs DEF NoStub
<1> QED
  BY <1>1 DEF NoStub, Outcome

\* A result that is not marked truncated is the agent's, to the last character:
\* no cut of _bound_a2a at any depth goes unmentioned, and no summary either.
THEOREM HonestTruncationThm == AgentSpec => []HonestTruncation
<1>1. AgentInv => HonestTruncation
  <2> SUFFICES ASSUME AgentInv, Succeeded, ~answer.truncated
               PROVE  answer.result = reply.result
    BY DEF HonestTruncation
  <2>1. reply.result \in Documents /\ answer = Outcome(reply.result)
    BY SuccessIs
  <2>2. /\ answer.result = bound_a2a[reply.result].value
        /\ ~bound_a2a[reply.result].cut
    BY <2>1 DEF Outcome
  <2> QED
    BY <2>1, <2>2, NothingCut
<1> QED
  BY <1>1, AgentInvariance, PTL

\* Oversized pieces are cut wherever they are: no string beyond the cap, no
\* bytes and no long history is left at any depth of a walked result.
THEOREM NothingOversizedThm == AgentSpec => []NothingOversized
<1>1. AgentInv => NothingOversized
  BY NoStubIs, ModestWithin DEF NothingOversized
<1> QED
  BY <1>1, AgentInvariance, PTL

\* The latest turns of every history are returned, and everything that is
\* missing of a result is accounted for, at every depth.
THEOREM OmissionsCountedThm == AgentSpec => []OmissionsCounted
<1>1. AgentInv => OmissionsCounted
  BY NoStubIs, AccountsWithin DEF OmissionsCounted
<1> QED
  BY <1>1, AgentInvariance, PTL
=============================================================================
