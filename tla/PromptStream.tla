---------------------------- MODULE PromptStream ----------------------------
(***************************************************************************)
(* test_prompt over LiteLLMClient.post_sse: one SSE answer read line by    *)
(* line into {model, text, finish_reason, usage, truncated}.               *)
(*                                                                         *)
(* The proxy may refuse the request, answer with something that is no      *)
(* event stream, or stream; a stream may end with [DONE], end without it,  *)
(* break, fall silent until httpx times out, or go on past the cap.  What  *)
(* comes next is the proxy's choice at every read.                         *)
(*                                                                         *)
(* Text is a sequence of characters, pieces are short ones, and the cap is *)
(* a constant: nothing in the code depends on its being 20000.             *)
(***************************************************************************)
EXTENDS HttpExchange, SequencesExt

CONSTANTS
    Cap,        \* _EXEC_TEXT_CAP
    MaxLines,   \* bound on the lines of one answer
    Values,     \* values of the "model", "usage" and "finish_reason" fields
    Events,     \* the parsed events a stream may carry
    Opening,    \* [status, body, stream]: answers to the POST
    None

\* A parsed event: its fields as far as test_prompt looks at them.  An event
\* without choices, or with a choice without content, has an empty piece; the
\* piece of an event with several choices is their contents in a row.
IsEvent(e) ==
    /\ e.kind = "event"
    /\ e.piece \in Seq({"x", "y"})
    /\ {e.model, e.usage, e.finish} \subseteq Values \cup {None}

ASSUME PromptAssumption ==
    /\ Cap \in Nat \ {0} /\ MaxLines \in Nat
    /\ None \notin Values
    /\ \A e \in Events : IsEvent(e)
    /\ Opening \subseteq [status : 200..599, body : BodyKinds, stream : BOOLEAN]

\* The other lines of an answer, and the ways it stops without a line:
\*   "comment"  no "data:" line        "badjson"  data that is no JSON
\*   "error"    an event with "error"  "odd"      JSON of another shape
\*   "done"     data: [DONE]           "eof"      end of the stream
\*   "drop"     httpx.RequestError

VARIABLES
    pc,         \* "start", "reading", "leaving" (the with-block), "ended"
    response,   \* "none", "open", "closed"
    seen,       \* history: the lines read
    model, text, finish, usage, truncated,
    ending      \* how the operation ends: "result" or what it raises

vars == <<pc, response, seen, model, text, finish, usage, truncated, ending>>

fields == <<model, text, finish, usage, truncated>>

Init ==
    /\ pc = "start"
    /\ response = "none"
    /\ seen = <<>>
    /\ model = None /\ text = <<>> /\ finish = None /\ usage = None
    /\ truncated = FALSE
    /\ ending = None

(***************************************************************************)
(* post_sse                                                                *)
(***************************************************************************)

\* No answer: httpx.stream raises before there is a response to close.
NoResponse ==
    /\ pc = "start"
    /\ pc' = "ended"
    /\ ending' = "RequestError"
    /\ UNCHANGED <<response, seen, fields>>

\* Faulty Exit: the response is left open, for its consumer to close.
ExitWithoutClosing(how) ==
    /\ pc' = "ended"
    /\ ending' = how

\* The with-block is left by an exception or at the end of the loop.
Exit(how) ==
    /\ pc' = "leaving"
    /\ ending' = how

\* An error status raises with the body, a success that is no event stream
\* raises with a preview of it, and reading either body may fail.
Refuse ==
    /\ pc = "start"
    /\ \E a \in Opening :
         \/ a.status >= 400 /\ Exit(RefusalOf(a.body))
         \/ a.status < 400 /\ ~a.stream /\ Exit("APIError")
         \/ (a.status >= 400 \/ ~a.stream) /\ Exit("RequestError")
    /\ response' = "open"
    /\ UNCHANGED <<seen, fields>>

Accept ==
    /\ pc = "start"
    /\ \E a \in Opening : a.status < 400 /\ a.stream
    /\ pc' = "reading"
    /\ response' = "open"
    /\ UNCHANGED <<seen, fields, ending>>

\* _iter_sse_events reads one more line of the answer.
Read(kind) ==
    /\ pc = "reading" /\ Len(seen) < MaxLines
    /\ seen' = Append(seen, [kind |-> kind])
    /\ UNCHANGED response

Skip ==
    /\ Read("comment")
    /\ UNCHANGED <<pc, fields, ending>>

Finish ==
    /\ Read("done")
    /\ Exit("result")
    /\ UNCHANGED fields

\* Data that is no JSON, and the end of the stream before [DONE].
Malformed ==
    /\ Read("badjson") \/ Read("eof")
    /\ Exit("APIError")
    /\ UNCHANGED fields

\* Faulty Drop: a broken stream is read again, without end.
DropIgnored ==
    /\ pc = "reading"
    /\ UNCHANGED vars

\* The connection breaks, or is silent for the read timeout.  This needs no
\* line of the proxy, so it is possible past MaxLines.
Drop ==
    /\ pc = "reading"
    /\ seen' = Append(seen, [kind |-> "drop"])
    /\ Exit("RequestError")
    /\ UNCHANGED <<response, fields>>

(***************************************************************************)
(* test_prompt                                                             *)
(***************************************************************************)

\* Faulty ErrorEvent: an error event is an event without choices.
ErrorEventIgnored ==
    /\ Read("error")
    /\ UNCHANGED <<pc, fields, ending>>

ErrorEvent ==
    /\ Read("error")
    /\ Exit("ValueError")
    /\ UNCHANGED fields

\* JSON that is no object, or an object whose choices are no list of
\* objects: a TypeError or AttributeError.
OddEvent ==
    /\ Read("odd")
    /\ Exit("crash")
    /\ UNCHANGED fields

\* Faulty Or: the first value stays.
FirstStays(new, old) == IF old = None THEN new ELSE old

Or(new, old) == IF new = None THEN old ELSE new

\* One event: fields present replace, the piece is appended, and reaching
\* the cap leaves the loop.
Event ==
    /\ pc = "reading" /\ Len(seen) < MaxLines
    /\ \E e \in Events :
         /\ seen' = Append(seen, e)
         /\ model' = Or(e.model, model)
         /\ usage' = Or(e.usage, usage)
         /\ finish' = Or(e.finish, finish)
         /\ text' = text \o e.piece
    /\ truncated' = (Len(text') >= Cap)
    /\ IF Len(text') >= Cap THEN Exit("result") ELSE UNCHANGED <<pc, ending>>
    /\ UNCHANGED response

\* Leaving the with-block closes the response, whatever the reason.
Leave ==
    /\ pc = "leaving"
    /\ response' = "closed"
    /\ pc' = "ended"
    /\ UNCHANGED <<seen, fields, ending>>

Ended ==
    /\ pc = "ended"
    /\ UNCHANGED vars

Open == NoResponse \/ Refuse \/ Accept

Line == Skip \/ Finish \/ Malformed \/ Drop \/ ErrorEvent \/ OddEvent \/ Event

Next == Open \/ Line \/ Leave \/ Ended

\* The worker thread runs, and httpx bounds every single wait for bytes.
Spec == Init /\ [][Next]_vars /\ WF_vars(Open \/ Line \/ Leave)

(***************************************************************************)
(* What an answer stands for, defined on the lines read                    *)
(***************************************************************************)

\* The text returned: "".join(text_parts)[:_EXEC_TEXT_CAP]
ResultText == IF Len(text) > Cap THEN SubSeq(text, 1, Cap) ELSE text

\* What a line adds to the text.
Piece(line) == IF line.kind = "event" THEN line.piece ELSE <<>>

\* The pieces of all lines in a row.
FullText(lines) ==
    LET upTo[n \in 0..Len(lines)] ==
          IF n = 0 THEN <<>> ELSE upTo[n - 1] \o Piece(lines[n])
    IN  upTo[Len(lines)]

\* The events that give a field a value, and the last value it was given.
Given(lines, field) ==
    {n \in 1..Len(lines) : lines[n].kind = "event" /\ lines[n][field] # None}

LastOf(lines, field) ==
    IF Given(lines, field) = {} THEN None ELSE lines[Max(Given(lines, field))][field]

Answered == pc = "ended" /\ ending = "result"

(***************************************************************************)
(* Properties                                                              *)
(***************************************************************************)

\* However the operation ends, the response it opened is closed: breaking
\* out at the cap and every exception included.
ResponseReleased == pc = "ended" => response # "open"

\* A result is what the lines read stand for: the text of all events up to
\* the cap, and the last model, usage and finish_reason.
ResultFaithful ==
    Answered =>
        /\ IsPrefix(ResultText, FullText(seen))
        /\ Len(ResultText) = Len(FullText(seen)) \/ Len(ResultText) = Cap
        /\ model = LastOf(seen, "model")
        /\ usage = LastOf(seen, "usage")
        /\ finish = LastOf(seen, "finish")

\* A result that does not say "truncated" is a complete answer: the stream
\* ended with [DONE], nothing was cut, and no line before it was an error,
\* malformed or of another shape.
CompleteOrTruncated ==
    Answered /\ ~truncated =>
        /\ Last(seen).kind = "done"
        /\ \A i \in 1..Len(seen) - 1 : seen[i].kind \in {"event", "comment"}
        /\ ResultText = FullText(seen)

\* The operation ends, if the proxy does not keep the stream alive for ever.
Terminates == <>(pc = "ended")
=============================================================================
