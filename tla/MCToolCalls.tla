---------------------------- MODULE MCToolCalls -----------------------------
(***************************************************************************)
(* Small instances of ToolCalls: two calls that share one worker, a bound  *)
(* and an unbound context.                                                 *)
(***************************************************************************)
EXTENDS ToolCalls

CONSTANTS c1, c2, w1, tenantA, process

Req(op, params, tenant) == [op |-> op, params |-> params, tenant |-> tenant]

TwoCalls == {c1, c2}
OneWorker == {w1}

\* Each kind of request once; the operations under both kinds of context.
AllRequests ==
    {Req("help", "valid", Unbound), Req("help", "invalid", Unbound),
     Req("foreign", "valid", Unbound), Req("probe", "valid", Unbound),
     Req("plain", "valid", Unbound), Req("plain", "invalid", tenantA),
     Req("verified", "valid", tenantA), Req("listed", "valid", tenantA),
     Req("agent", "valid", Unbound)}

Reply(status, body, doc) == [status |-> status, body |-> body, doc |-> doc]

\* 4xx and 5xx without handling the request, one with an undecodable body.
ErrorRefusals ==
    {Reply(400, "json", "none"), Reply(503, "bytes", "none")}

\* A redirect is an answer without handling, too.
RefusalsAndRedirect == ErrorRefusals \cup {Reply(302, "empty", "none")}

\* After handling: a full and a partial echo, a non-dict, no body, and an
\* error that came after the effect (a gateway timeout).
HandledResults ==
    {Reply(200, "json", "full"), Reply(200, "json", "partial"),
     Reply(200, "json", "none"), Reply(204, "empty", "none"),
     Reply(504, "text", "none")}

FewResults == {Reply(200, "json", "full"), Reply(200, "json", "partial")}
=============================================================================
