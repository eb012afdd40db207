---------------------------- MODULE CallContract ----------------------------
(***************************************************************************)
(* What the server promises to the agent about a tool call, with nothing   *)
(* said of event loop, worker threads, HTTP or timeouts.                   *)
(*                                                                         *)
(* A call is handled by the proxy at most once, and never when its         *)
(* operation or its parameters are refused.  "ok", and a complaint about   *)
(* what the proxy answered, are answered only after the proxy handled the  *)
(* call, "refused" only if it never does.  Any other error, and a          *)
(* cancellation, promise nothing: the proxy may have handled the call or   *)
(* may handle it later.                                                    *)
(***************************************************************************)
EXTENDS Integers

CONSTANTS
    Calls,      \* tool calls of agents
    Requests,   \* what a call may ask for
    Nothing     \* no request yet

\* An operation of the addressed group with parameters its model accepts.
Legit(r) == r.op \notin {"help", "foreign"} /\ r.params = "valid"

VARIABLES
    request,    \* what each call asked for, or Nothing
    status,     \* "idle", "open", "gone" or what was answered
    hits        \* how often the proxy handled each call

cvars == <<request, status, hits>>

Init ==
    /\ request = [c \in Calls |-> Nothing]
    /\ status = [c \in Calls |-> "idle"]
    /\ hits = [c \in Calls |-> 0]

Submit(c) ==
    /\ status[c] = "idle"
    /\ \E r \in Requests : request' = [request EXCEPT ![c] = r]
    /\ status' = [status EXCEPT ![c] = "open"]
    /\ UNCHANGED hits

Handle(c) ==
    /\ status[c] \notin {"idle", "refused"}
    /\ Legit(request[c])
    /\ hits[c] = 0
    /\ hits' = [hits EXCEPT ![c] = 1]
    /\ UNCHANGED <<request, status>>

\* Help and schema are answered without the proxy.
Succeed(c) ==
    /\ status[c] = "open"
    /\ request[c].op = "help" \/ hits[c] = 1
    /\ status' = [status EXCEPT ![c] = "ok"]
    /\ UNCHANGED <<request, hits>>

\* Nothing was done and nothing will be.
Refuse(c) ==
    /\ status[c] = "open"
    /\ hits[c] = 0
    /\ status' = [status EXCEPT ![c] = "refused"]
    /\ UNCHANGED <<request, hits>>

\* The write was done, but its echo lacks a field; the agent behind the proxy
\* or the prompt ran, but what came back is an error.
Complain(c) ==
    /\ status[c] = "open"
    /\ hits[c] = 1
    /\ \/ /\ request[c].op = "verified"
          /\ status' = [status EXCEPT ![c] = "unechoed"]
       \/ /\ request[c].op = "agent"
          /\ status' = [status EXCEPT ![c] = "complaint"]
    /\ UNCHANGED <<request, hits>>

\* The refusal of the proxy, a transport failure, an answer that cannot be
\* read, an exception that leaves the tool and that the SDK reports.
Fail(c) ==
    /\ status[c] = "open"
    /\ \E s \in {"status", "transport", "unreadable", "crash"} :
           status' = [status EXCEPT ![c] = s]
    /\ UNCHANGED <<request, hits>>

Withdraw(c) ==
    /\ status[c] = "open"
    /\ status' = [status EXCEPT ![c] = "gone"]
    /\ UNCHANGED <<request, hits>>

Next ==
    \E c \in Calls :
        \/ Submit(c) \/ Handle(c)
        \/ Succeed(c) \/ Refuse(c) \/ Complain(c) \/ Fail(c) \/ Withdraw(c)

Spec == Init /\ [][Next]_cvars
=============================================================================
