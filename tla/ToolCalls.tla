----------------------------- MODULE ToolCalls ------------------------------
(***************************************************************************)
(* Tool calls in flight: the event loop that dispatches them, the worker   *)
(* threads that run them, and the proxy that handles them.                 *)
(*                                                                         *)
(* Every tool is an async function on the loop (server._make_tool).  Help, *)
(* schema and misaddressed operations are answered there; a real operation *)
(* goes to asyncio.to_thread, so it waits in the executor's queue for a    *)
(* worker, which validates the parameters, resolves the client and blocks  *)
(* on HTTP.  The agent may withdraw a call at any time; that never stops a *)
(* worker.  The client never repeats a request, and a request that timed   *)
(* out may still be handled later.                                         *)
(***************************************************************************)
EXTENDS HttpExchange, Sequences

CONSTANTS
    Calls,          \* tool calls of agents
    Workers,        \* threads of the loop's default executor
    Requests,       \* what a call may ask for: [op, params, tenant]
    Refusals,       \* answers of the proxy that did not handle the request
    Results,        \* answers of the proxy that did
    ProcessClient,  \* the client of a request with no client bound
    NoClient,       \* get_client raises: no credential
    Unbound,        \* client_var is None
    Nothing

Ops == {"help", "foreign", "plain", "probe", "verified", "listed", "agent"}

Docs == {"full", "partial", "none"}

\* An answer and what its document holds: every key the operation sent or
\* reads, some of them, or no dict at all.
Replies == [status : 200..599, body : BodyKinds, doc : Docs]

\* What an agent can read off an answer:
\*   "ok"         a result
\*   "refused"    the server refused the call (operation, parameters, no client)
\*   "unechoed"   verify_response names the field the echo lacks
\*   "complaint"  invoke_agent or test_prompt names what the answer says or lacks
\*   "crash"      an exception that leaves the tool
\* or what ended the request (ToldBy).
AnswerKinds == {"ok", "refused", "unechoed", "complaint", "crash", "status", "transport", "unreadable"}

ASSUME ToolCallsAssumption ==
    /\ \A r \in Requests : r.op \in Ops /\ r.params \in {"valid", "invalid"}
    /\ Refusals \cup Results \subseteq Replies
    /\ Nothing \notin Requests
    /\ Nothing \notin Calls
    /\ Nothing \notin AnswerKinds

VARIABLES
    request,    \* what each call asked for
    pc,         \* how far each call is
    gone,       \* the agent withdrew the call
    queue,      \* the executor's work queue
    worker,     \* the call each worker runs
    ctx,        \* client_var in the context copied for the worker
    bearer,     \* the credential in the default headers of each client
    sentAs,     \* the client and the credential each request went with
    flight,     \* copies of each call's request the proxy has not seen yet
    hits,       \* how often the proxy handled each call
    outcome,    \* what the operation ended with, in the worker
    answer      \* what the agent was answered

vars == <<request, pc, gone, queue, worker, ctx, bearer, sentAs, flight, hits, outcome, answer>>

\* get_client in the copied context.
ClientOf(context) == IF context = Unbound THEN ProcessClient ELSE context

\* The clients of all requests; each is built with its own credential.
Clients == {ClientOf(r.tenant) : r \in Requests}

Labels == {"new", "arrived", "queued", "running", "waiting", "returned",
           "answered", "skipped"}

Init ==
    /\ request = [c \in Calls |-> Nothing]
    /\ pc = [c \in Calls |-> "new"]
    /\ gone = [c \in Calls |-> FALSE]
    /\ queue = <<>>
    /\ worker = [w \in Workers |-> Nothing]
    /\ ctx = [c \in Calls |-> Nothing]
    /\ bearer = [k \in Clients |-> "own"]
    /\ sentAs = [c \in Calls |-> Nothing]
    /\ flight = [c \in Calls |-> 0]
    /\ hits = [c \in Calls |-> 0]
    /\ outcome = [c \in Calls |-> Nothing]
    /\ answer = [c \in Calls |-> Nothing]

Goto(c, label) == pc' = [pc EXCEPT ![c] = label]

(***************************************************************************)
(* The event loop                                                          *)
(***************************************************************************)

Arrive(c) ==
    /\ pc[c] = "new"
    /\ \E r \in Requests : request' = [request EXCEPT ![c] = r]
    /\ Goto(c, "arrived")
    /\ UNCHANGED <<gone, queue, worker, ctx, bearer, sentAs, flight, hits, outcome, answer>>

\* _build_help and _build_schema without their text: a `search` that is no
\* string and an `op` that cannot be hashed raise what _safe_tool lets through.
InlineAnswer(r) ==
    CASE r.op = "help" /\ r.params = "valid"   -> "ok"
      [] r.op = "help" /\ r.params = "invalid" -> "crash"
      [] r.op # "help"                         -> "refused"

\* Faulty AnswerInline: help waits for a worker like an operation.
AnswerFromWorker(c) ==
    /\ pc[c] = "arrived"
    /\ request[c].op \in {"help", "foreign"}
    /\ \E w \in Workers : worker[w] = Nothing
    /\ answer' = [answer EXCEPT ![c] = InlineAnswer(request[c])]
    /\ Goto(c, "answered")
    /\ UNCHANGED <<request, gone, queue, worker, ctx, bearer, sentAs, flight, hits, outcome>>

\* _dispatch without _run_op: help and schema return, an operation of
\* another group or of none raises ValueError.
AnswerInline(c) ==
    /\ pc[c] = "arrived"
    /\ request[c].op \in {"help", "foreign"}
    /\ answer' = [answer EXCEPT ![c] = InlineAnswer(request[c])]
    /\ Goto(c, "answered")
    /\ UNCHANGED <<request, gone, queue, worker, ctx, bearer, sentAs, flight, hits, outcome>>

\* _run_op: to_thread copies the context and queues the call.
Submit(c) ==
    /\ pc[c] = "arrived"
    /\ request[c].op \notin {"help", "foreign"}
    /\ ctx' = [ctx EXCEPT ![c] = request[c].tenant]
    /\ queue' = Append(queue, c)
    /\ Goto(c, "queued")
    /\ UNCHANGED <<request, gone, worker, bearer, sentAs, flight, hits, outcome, answer>>

\* The awaited future is done; the agent of a withdrawn call gets nothing.
Deliver(c) ==
    /\ pc[c] = "returned"
    /\ answer' = [answer EXCEPT ![c] = IF gone[c] THEN Nothing ELSE outcome[c]]
    /\ Goto(c, "answered")
    /\ UNCHANGED <<request, gone, queue, worker, ctx, bearer, sentAs, flight, hits, outcome>>

\* The agent withdraws the call: its task is cancelled.  A task that has not
\* run yet never starts; a queued one stays in the queue with its future
\* cancelled; a worker that runs already is not told.
Withdraw(c) ==
    /\ pc[c] \in {"arrived", "queued", "running", "waiting", "returned"}
    /\ ~gone[c]
    /\ gone' = [gone EXCEPT ![c] = TRUE]
    /\ IF pc[c] = "arrived" THEN Goto(c, "skipped") ELSE UNCHANGED pc
    /\ UNCHANGED <<request, queue, worker, ctx, bearer, sentAs, flight, hits, outcome, answer>>

(***************************************************************************)
(* A worker thread                                                         *)
(***************************************************************************)

Idle(w) == worker[w] = Nothing

\* Faulty Start: the call stays at the head of the queue.
StartAndKeep(w) ==
    /\ Idle(w) /\ queue # <<>>
    /\ worker' = [worker EXCEPT ![w] = Head(queue)]
    /\ Goto(Head(queue), "running")
    /\ UNCHANGED <<request, gone, queue, ctx, bearer, sentAs, flight, hits, outcome, answer>>

\* An idle worker takes the oldest queued call, or drops it when its future
\* was cancelled in the queue.
Start(w) ==
    /\ Idle(w) /\ queue # <<>>
    /\ LET c == Head(queue) IN
         /\ worker' = IF gone[c] THEN worker ELSE [worker EXCEPT ![w] = c]
         /\ Goto(c, IF gone[c] THEN "skipped" ELSE "running")
    /\ queue' = Tail(queue)
    /\ UNCHANGED <<request, gone, ctx, bearer, sentAs, flight, hits, outcome, answer>>

\* The worker's call ends with o.
End(w, o) ==
    /\ outcome' = [outcome EXCEPT ![worker[w]] = o]
    /\ Goto(worker[w], "returned")
    /\ worker' = [worker EXCEPT ![w] = Nothing]

\* Faulty Reject: a refused call keeps its worker.
RejectAndHold(w) ==
    /\ ~Idle(w) /\ pc[worker[w]] = "running"
    /\ \/ request[worker[w]].params = "invalid"
       \/ ClientOf(ctx[worker[w]]) = NoClient
    /\ outcome' = [outcome EXCEPT ![worker[w]] = "refused"]
    /\ Goto(worker[w], "returned")
    /\ UNCHANGED <<request, gone, queue, worker, ctx, bearer, sentAs, flight, hits, answer>>

\* _coerce_call or the operation itself refuses the parameters, or there is
\* no client: a ValueError before any HTTP.
Reject(w) ==
    /\ ~Idle(w) /\ pc[worker[w]] = "running"
    /\ \/ request[worker[w]].params = "invalid"
       \/ ClientOf(ctx[worker[w]]) = NoClient
    /\ End(w, "refused")
    /\ UNCHANGED <<request, gone, queue, ctx, bearer, sentAs, flight, hits, answer>>

\* The Authorization of a request through client k: key_health's own key for
\* that call, the default header of the client for every other.
Credential(k, op) == IF op = "probe" THEN "probed" ELSE bearer[k]

Sending(c) ==
    [client |-> ClientOf(ctx[c]),
     bearer |-> Credential(ClientOf(ctx[c]), request[c].op)]

\* Faulty Send: the operation sends without looking at its parameters.
SendUnchecked(w) ==
    LET c == worker[w] IN
    /\ ~Idle(w) /\ pc[c] = "running"
    /\ ClientOf(ctx[c]) # NoClient
    /\ sentAs' = [sentAs EXCEPT ![c] = Sending(c)]
    /\ flight' = [flight EXCEPT ![c] = @ + 1]
    /\ Goto(c, "waiting")
    /\ UNCHANGED <<request, gone, queue, worker, ctx, bearer, hits, outcome, answer>>

\* Faulty Send: the key to probe is put in the headers of the client.
SendSticky(w) ==
    LET c == worker[w] IN
    /\ ~Idle(w) /\ pc[c] = "running"
    /\ request[c].params = "valid"
    /\ ClientOf(ctx[c]) # NoClient
    /\ sentAs' = [sentAs EXCEPT ![c] = Sending(c)]
    /\ bearer' = [bearer EXCEPT ![ClientOf(ctx[c])] = Sending(c).bearer]
    /\ flight' = [flight EXCEPT ![c] = @ + 1]
    /\ Goto(c, "waiting")
    /\ UNCHANGED <<request, gone, queue, worker, ctx, hits, outcome, answer>>

\* The operation sends its one request.
Send(w) ==
    LET c == worker[w] IN
    /\ ~Idle(w) /\ pc[c] = "running"
    /\ request[c].params = "valid"
    /\ ClientOf(ctx[c]) # NoClient
    /\ sentAs' = [sentAs EXCEPT ![c] = Sending(c)]
    /\ flight' = [flight EXCEPT ![c] = @ + 1]
    /\ Goto(c, "waiting")
    /\ UNCHANGED <<request, gone, queue, worker, ctx, bearer, hits, outcome, answer>>

\* Faulty OpOutcome: the tool answers with whatever ended the request.
OpOutcomeRaw(op, a) == RequestOutcome(a)

\* What the operation makes of the client's outcome: verify_response raises
\* ValueError when a dict misses a key that was sent; invoke_agent raises one
\* for a JSON-RPC error and for what has no result, test_prompt for an error
\* event; slim_list subscripts whatever it got, and _safe_tool lets its
\* KeyError and TypeError through.
OpOutcome(op, a) ==
    CASE RequestOutcome(a) \notin Returned  -> ToldBy(RequestOutcome(a))
      [] RequestOutcome(a) \in Returned /\ op \in {"plain", "probe"} -> "ok"
      [] RequestOutcome(a) \in Returned /\ op = "verified" ->
           IF RequestOutcome(a) = "value" /\ a.doc = "partial" THEN "unechoed" ELSE "ok"
      [] RequestOutcome(a) \in Returned /\ op = "agent" ->
           IF RequestOutcome(a) = "value" /\ a.doc = "full" THEN "ok" ELSE "complaint"
      [] OTHER ->
           IF RequestOutcome(a) = "value" /\ a.doc = "full" THEN "ok" ELSE "crash"

\* The proxy refuses the request; the refusal reaches the worker.
ReceiveRefusal(w) ==
    LET c == worker[w] IN
    /\ ~Idle(w) /\ pc[c] = "waiting"
    /\ flight[c] > 0
    /\ \E a \in Refusals : End(w, OpOutcome(request[c].op, a))
    /\ flight' = [flight EXCEPT ![c] = @ - 1]
    /\ UNCHANGED <<request, gone, queue, ctx, bearer, sentAs, hits, answer>>

\* The answer of a proxy that handled the request reaches the worker.
ReceiveResult(w) ==
    LET c == worker[w] IN
    /\ ~Idle(w) /\ pc[c] = "waiting"
    /\ hits[c] > 0
    /\ \E a \in Results : End(w, OpOutcome(request[c].op, a))
    /\ UNCHANGED <<request, gone, queue, ctx, bearer, sentAs, flight, hits, answer>>

\* Faulty GiveUp: a request that timed out is sent once more.
GiveUpOrRetry(w) ==
    LET c == worker[w] IN
    /\ ~Idle(w) /\ pc[c] = "waiting"
    /\ \/ /\ End(w, OpOutcome(request[c].op, NoAnswer))
          /\ UNCHANGED flight
       \/ /\ flight[c] + hits[c] <= 1
          /\ flight' = [flight EXCEPT ![c] = @ + 1]
          /\ UNCHANGED <<outcome, pc, worker>>
    /\ UNCHANGED <<request, gone, queue, ctx, bearer, sentAs, hits, answer>>

\* httpx raises RequestError: no connection, read timeout, or the answer was
\* lost.  The request may be on its way all the same.
GiveUp(w) ==
    /\ ~Idle(w) /\ pc[worker[w]] = "waiting"
    /\ End(w, OpOutcome(request[worker[w]].op, NoAnswer))
    /\ UNCHANGED <<request, gone, queue, ctx, bearer, sentAs, flight, hits, answer>>

(***************************************************************************)
(* The proxy and the network                                               *)
(***************************************************************************)

Handle(c) ==
    /\ flight[c] > 0
    /\ flight' = [flight EXCEPT ![c] = @ - 1]
    /\ hits' = [hits EXCEPT ![c] = @ + 1]
    /\ UNCHANGED <<request, pc, gone, queue, worker, ctx, bearer, sentAs, outcome, answer>>

Lose(c) ==
    /\ flight[c] > 0
    /\ flight' = [flight EXCEPT ![c] = @ - 1]
    /\ UNCHANGED <<request, pc, gone, queue, worker, ctx, bearer, sentAs, hits, outcome, answer>>

Ended == {"answered", "skipped"}

\* All calls are over; the server waits for more.
Quiet ==
    /\ \A c \in Calls : pc[c] \in Ended
    /\ UNCHANGED vars

OnLoop(c) == AnswerInline(c) \/ Submit(c) \/ Deliver(c)

OnWorker(w) ==
    Start(w) \/ Reject(w) \/ Send(w) \/ ReceiveRefusal(w) \/ ReceiveResult(w) \/ GiveUp(w)

Next ==
    \/ \E c \in Calls : Arrive(c) \/ OnLoop(c) \/ Withdraw(c) \/ Handle(c) \/ Lose(c)
    \/ \E w \in Workers : OnWorker(w)
    \/ Quiet

\* The loop runs every ready task.
LoopFairness == \A c \in Calls : WF_vars(OnLoop(c))

\* A worker thread is scheduled, and httpx bounds every wait for an answer.
WorkerFairness == \A w \in Workers : WF_vars(OnWorker(w))

\* Workers may hang for ever; only the loop is known to run.
Spec == Init /\ [][Next]_vars /\ LoopFairness

(***************************************************************************)
(* Properties                                                              *)
(***************************************************************************)

\* The state of CallContract that a state of this module stands for.
Status ==
    [c \in Calls |->
        CASE pc[c] = "new" -> "idle"
          [] gone[c] -> "gone"
          [] pc[c] = "answered" /\ ~gone[c] -> answer[c]
          [] OTHER -> "open"]

Contract == INSTANCE CallContract WITH status <- Status

\* Where the calls are.
PlacesOK ==
    /\ request \in [Calls -> Requests \cup {Nothing}]
    /\ pc \in [Calls -> Labels]
    /\ gone \in [Calls -> BOOLEAN]
    /\ queue \in Seq(Calls)
    /\ worker \in [Workers -> Calls \cup {Nothing}]
    /\ ctx \in [Calls -> {r.tenant : r \in Requests} \cup {Nothing}]

\* What became of their requests.
EffectsOK ==
    /\ flight \in [Calls -> Nat]
    /\ hits \in [Calls -> Nat]
    /\ outcome \in [Calls -> AnswerKinds \cup {Nothing}]
    /\ answer \in [Calls -> AnswerKinds \cup {Nothing}]

\* What they are sent with.
CredentialsOK ==
    /\ bearer \in [Clients -> {"own", "probed"}]
    /\ sentAs \in [Calls -> [client : Clients, bearer : {"own", "probed"}] \cup {Nothing}]

TypeOK == PlacesOK /\ EffectsOK /\ CredentialsOK

\* No retry anywhere between the tool and the wire: however a call ends, at
\* most one copy of its request exists, so the proxy handles it at most once.
HandledAtMostOnce == \A c \in Calls : flight[c] + hits[c] <= 1

\* What the agent may conclude from how its call ended.  After a refusal, and
\* for a call it withdrew before a worker took it, nothing was sent and nothing
\* will be, so repeating the call cannot repeat its effect; after the complaint
\* of verify_response, or of invoke_agent or test_prompt about what came back,
\* the proxy handled the call, so repeating it would.  (The other errors, a
\* named status as well as a timeout, leave it open.)
ErrorsTell ==
    \A c \in Calls :
        /\ \/ answer[c] = "refused"
           \/ request[c] # Nothing /\ ~Contract!Legit(request[c])
           \/ gone[c] /\ pc[c] \in {"queued", "skipped"}
           => flight[c] + hits[c] = 0 /\ sentAs[c] = Nothing
        /\ answer[c] \in {"unechoed", "complaint"} => hits[c] = 1

\* An operation that answers "ok" was handled by the proxy, so that of two
\* calls, the second made after the first was answered "ok", the proxy
\* handled the first one first.
OkMeansHandled ==
    \A c \in Calls :
        answer[c] = "ok" /\ request[c].op # "help" => hits[c] = 1

\* The same for the operations that verify their echo, of which the README
\* says that "a partial write cannot pass unnoticed".
VerifiedMeansWritten ==
    \A c \in Calls :
        answer[c] = "ok" /\ request[c].op = "verified" => hits[c] = 1

\* A request travels with the client its agent's request was bound to, also
\* when it is sent by a worker after that agent went away, and with that
\* client's credential, also when key_health has sent another key through the
\* same client before: only key_health's own request carries that key.
TenantKept ==
    \A c \in Calls :
        sentAs[c] # Nothing =>
            /\ sentAs[c].client = ClientOf(request[c].tenant)
            /\ sentAs[c].bearer = "probed" <=> request[c].op = "probe"

\* Withdrawn or not, a running call holds one worker, a busy worker runs one
\* call, and no queued call is in the queue twice: workers are not leaked.
WorkersConserved ==
    /\ \A c \in Calls : pc[c] \in {"running", "waiting"} <=>
           \E w \in Workers : worker[w] = c
    /\ \A v, w \in Workers : worker[v] = worker[w] /\ ~Idle(w) => v = w
    /\ \A i \in 1..Len(queue) : pc[queue[i]] = "queued"
    /\ \A i, j \in 1..Len(queue) : queue[i] = queue[j] => i = j

\* Every call that arrives ends when workers do not hang, on a worker that is
\* free again: none is held for ever, by a withdrawn call neither.
CallsEnd ==
    WorkerFairness => \A c \in Calls : pc[c] = "arrived" ~> pc[c] \in Ended

\* Help, schema and misaddressed operations are answered although every
\* worker hangs in an operation: nothing on the loop waits for a worker.
InlineAnswered ==
    \A c \in Calls :
        pc[c] = "arrived" /\ request[c].op \in {"help", "foreign"}
            ~> pc[c] \in Ended

\* Tool calls keep the contract.
KeepsContract == Contract!Spec
=============================================================================
