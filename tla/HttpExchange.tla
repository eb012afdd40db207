---------------------------- MODULE HttpExchange ----------------------------
(***************************************************************************)
(* What LiteLLMClient makes of one answer of the proxy.                    *)
(*                                                                         *)
(* An answer is a status and the class of its body:                        *)
(*   "json"   a JSON document                                              *)
(*   "text"   decodable text that is no JSON (a gateway's HTML page)       *)
(*   "bytes"  bytes no UTF encoding accepts (a Latin-1 error page)         *)
(*   "empty"  no body at all                                               *)
(* NoAnswer stands for every httpx.RequestError: connection refused, read  *)
(* timeout, connection dropped.                                            *)
(*                                                                         *)
(* An outcome is what the caller of _request gets: a value it returns or   *)
(* the class of the exception it raises.                                   *)
(***************************************************************************)
EXTENDS Integers

BodyKinds == {"json", "text", "bytes", "empty"}

Answers(statuses) == [status : statuses, body : BodyKinds]

NoAnswer == [status |-> 0, body |-> "empty"]

\* r.json(): httpx hands the raw bytes to json.loads, which decodes them
\* first.  Both failures are ValueErrors, but only one is a JSONDecodeError.
JsonOf(body) ==
    CASE body = "json"            -> "value"
      [] body \in {"text", "empty"} -> "JSONDecodeError"
      [] body = "bytes"           -> "UnicodeDecodeError"

\* The branch for status >= 400: any JSONDecodeError is replaced by an
\* APIError carrying r.text, every other failure of r.json() escapes.
RefusalOf(body) ==
    IF JsonOf(body) \in {"value", "JSONDecodeError"} THEN "APIError" ELSE JsonOf(body)

\* LiteLLMClient._request as a function of the answer.  Redirects are not
\* followed (httpx's default), so a 3xx is handled like a 2xx.
RequestOutcome(a) ==
    CASE a = NoAnswer                            -> "RequestError"
      [] a # NoAnswer /\ a.status >= 400         -> RefusalOf(a.body)
      [] a # NoAnswer /\ a.status < 400
           /\ (a.status = 204 \/ a.body = "empty") -> "None"
      [] OTHER                                   -> JsonOf(a.body)

Outcomes == {"value", "None", "APIError", "JSONDecodeError",
             "UnicodeDecodeError", "RequestError", "ValueError"}

\* The caller of _request goes on: nothing was raised.
Returned == {"value", "None"}

\* The exceptions _safe_tool turns into an {"error": ...} answer.
Expected == Outcomes \ Returned

\* What the text of that answer tells (_error_result): "status", an APIError's
\* method, path and status; "transport", method and path but no status;
\* "unreadable", a decoder's message, which names neither.
ToldBy(o) ==
    CASE o = "APIError"     -> "status"
      [] o = "RequestError" -> "transport"
      [] OTHER              -> "unreadable"
=============================================================================
