-------------------------- MODULE ToolCallsProofs ---------------------------
(***************************************************************************)
(* Proofs about ToolCalls, for any number of calls, workers and tenants.   *)
(*                                                                         *)
(* That a call is handled at most once depends on where the call is: it    *)
(* has sent nothing before "waiting" and sends when it gets there.  That   *)
(* position is only meaningful when one worker runs the call, hence the    *)
(* invariant is the conjunction of the conservation of workers (Held,      *)
(* Queued), what each position says about the wire (Wire), and where an    *)
(* "ok" can come from (Truthful).                                          *)
(***************************************************************************)
EXTENDS ToolCalls, TLAPS

OnWorkers == {"running", "waiting"}

\* Workers and the calls they run.
Held ==
    /\ \A c \in Calls : pc[c] \in OnWorkers <=> \E w \in Workers : worker[w] = c
    /\ \A v, w \in Workers : worker[v] = worker[w] /\ ~Idle(w) => v = w

\* The executor's queue.
Queued ==
    /\ \A i \in 1..Len(queue) : pc[queue[i]] = "queued"
    /\ \A i, j \in 1..Len(queue) : queue[i] = queue[j] => i = j

\* What the position of a call says about its request.
WireOf(c) ==
    /\ flight[c] + hits[c] <= 1
    /\ pc[c] = "new" <=> request[c] = Nothing
    /\ pc[c] \in {"new", "arrived"} => ~gone[c]
    /\ pc[c] \in {"new", "arrived", "queued", "running", "skipped"} =>
           flight[c] + hits[c] = 0 /\ sentAs[c] = Nothing
    /\ pc[c] \in {"queued", "running", "waiting", "returned"} =>
           request[c].op \notin {"help", "foreign"} /\ ctx[c] = request[c].tenant
    /\ pc[c] = "waiting" => request[c].params = "valid"
    /\ flight[c] + hits[c] > 0 => Contract!Legit(request[c])
    /\ sentAs[c] # Nothing => Contract!Legit(request[c])

Wire == \A c \in Calls : WireOf(c)

\* No request changes the headers of a client, and each goes out with its own.
Sent == (\A k \in Clients : bearer[k] = "own") /\ TenantKept

\* The proxy never answers with less than an error what it did not handle.
RefusalsAreErrors == \A a \in Refusals : a.status >= 400

\* What an outcome says, in the worker and in the answer made of it.
Says(c, o) ==
    /\ o = "ok" => request[c].op = "help" \/ hits[c] = 1
    /\ o = "unechoed" => request[c].op = "verified" /\ hits[c] = 1
    /\ o = "complaint" => request[c].op = "agent" /\ hits[c] = 1
    /\ o = "refused" => flight[c] + hits[c] = 0 /\ sentAs[c] = Nothing

\* Where outcomes and answers come from.
TruthOf(c) ==
    /\ pc[c] \notin {"returned", "answered"} => outcome[c] = Nothing /\ answer[c] = Nothing
    /\ pc[c] = "returned" => outcome[c] # Nothing
    /\ Says(c, outcome[c]) /\ Says(c, answer[c])
    /\ pc[c] = "answered" /\ ~gone[c] => answer[c] # Nothing

Truthful == \A c \in Calls : TruthOf(c)

IInv == TypeOK /\ Held /\ Queued /\ Wire /\ Sent

-----------------------------------------------------------------------------
\* An answer of 400 and above, and no answer, are told as what they are.
LEMMA ErrorOutcome ==
    ASSUME NEW op, NEW a \in Replies \cup {NoAnswer},
           a = NoAnswer \/ a.status >= 400
    PROVE  OpOutcome(op, a) \in {"status", "transport", "unreadable"}
<1>1. RequestOutcome(a) \notin Returned
    BY DEF RequestOutcome, RefusalOf, JsonOf, Returned, Replies, BodyKinds
<1> QED
    BY <1>1 DEF OpOutcome, ToldBy

\* An operation that has sent its request does not end in a refusal, and
\* complains only when it looks at what comes back.
LEMMA OutcomeType ==
    ASSUME NEW op, NEW a
    PROVE  /\ OpOutcome(op, a) \in AnswerKinds \ {"refused"}
           /\ OpOutcome(op, a) = "unechoed" => op = "verified"
           /\ OpOutcome(op, a) = "complaint" => op = "agent"
<1>1. CASE RequestOutcome(a) \notin Returned
    BY <1>1 DEF OpOutcome, ToldBy, AnswerKinds
<1>2. CASE RequestOutcome(a) \in Returned
    BY <1>2 DEF OpOutcome, AnswerKinds
<1> QED
    BY <1>1, <1>2

\* What is answered on the loop.
LEMMA InlineType ==
    ASSUME NEW r \in Requests, r.op \in {"help", "foreign"}
    PROVE  /\ InlineAnswer(r) \in {"ok", "refused", "crash"}
           /\ InlineAnswer(r) = "ok" => r.op = "help"
    BY ToolCallsAssumption DEF InlineAnswer

\* Every action keeps the variables in their sets.
LEMMA TypeStep ==
    TypeOK /\ Wire /\ [Next]_vars => TypeOK'
<1> SUFFICES ASSUME TypeOK, Wire, [Next]_vars
             PROVE  TypeOK'
    OBVIOUS
<1> USE ToolCallsAssumption DEF TypeOK, PlacesOK, EffectsOK, CredentialsOK, Goto, Idle, Labels, Ops
<1>1. ASSUME NEW c \in Calls, Arrive(c)
      PROVE  TypeOK'
    BY <1>1 DEF Arrive
<1>2. ASSUME NEW c \in Calls, AnswerInline(c)
      PROVE  TypeOK'
  <2>1. InlineAnswer(request[c]) \in AnswerKinds
      BY <1>2, InlineType DEF AnswerInline, AnswerKinds, Wire, WireOf
  <2> QED
      BY <1>2, <2>1 DEF AnswerInline
<1>3. ASSUME NEW c \in Calls, Submit(c)
      PROVE  TypeOK'
  <2>1. request[c] \in Requests
      BY <1>3 DEF Submit, Wire, WireOf
  <2>2. ctx' \in [Calls -> {r.tenant : r \in Requests} \cup {Nothing}]
      BY <1>3, <2>1 DEF Submit
  <2> QED
      BY <1>3, <2>2 DEF Submit
<1>4. ASSUME NEW c \in Calls, Deliver(c)
      PROVE  TypeOK'
    BY <1>4 DEF Deliver
<1>5. ASSUME NEW c \in Calls, Withdraw(c)
      PROVE  TypeOK'
    BY <1>5 DEF Withdraw
<1>6. ASSUME NEW c \in Calls, Handle(c)
      PROVE  TypeOK'
    BY <1>6 DEF Handle
<1>7. ASSUME NEW c \in Calls, Lose(c)
      PROVE  TypeOK'
    BY <1>7 DEF Lose
<1>8. ASSUME NEW w \in Workers, Start(w)
      PROVE  TypeOK'
    BY <1>8 DEF Start
<1>9. ASSUME NEW w \in Workers, Reject(w)
      PROVE  TypeOK'
    BY <1>9 DEF Reject, End, AnswerKinds
<1>10. ASSUME NEW w \in Workers, Send(w)
      PROVE  TypeOK'
  <2> DEFINE c == worker[w]
  <2>1. c \in Calls /\ pc[c] = "running"
      BY <1>10 DEF Send
  <2>2. request[c] \in Requests /\ ctx[c] = request[c].tenant
      BY <2>1 DEF Wire, WireOf
  <2>3. Sending(c) \in [client : Clients, bearer : {"own", "probed"}]
      BY <2>2 DEF Sending, Credential, Clients
  <2>4. flight' \in [Calls -> Nat]
      BY <1>10, <2>1 DEF Send
  <2> QED
      BY <1>10, <2>1, <2>3, <2>4 DEF Send
<1>11. ASSUME NEW w \in Workers, ReceiveRefusal(w)
      PROVE  TypeOK'
    BY <1>11, OutcomeType DEF ReceiveRefusal, End
<1>12. ASSUME NEW w \in Workers, ReceiveResult(w)
      PROVE  TypeOK'
    BY <1>12, OutcomeType DEF ReceiveResult, End
<1>13. ASSUME NEW w \in Workers, GiveUp(w)
      PROVE  TypeOK'
    BY <1>13, OutcomeType DEF GiveUp, End
<1>14. CASE Quiet \/ UNCHANGED vars
    BY <1>14 DEF Quiet, vars
<1> QED
    BY <1>1, <1>2, <1>3, <1>4, <1>5, <1>6, <1>7, <1>8, <1>9, <1>10, <1>11, <1>12, <1>13, <1>14
       DEF Next, OnLoop, OnWorker

\* Workers are neither leaked nor shared.
LEMMA HeldStep ==
    TypeOK /\ Held /\ Queued /\ [Next]_vars => Held'
<1> SUFFICES ASSUME TypeOK, Held, Queued, [Next]_vars
             PROVE  Held'
    OBVIOUS
<1> USE ToolCallsAssumption DEF TypeOK, PlacesOK, Held, Queued, OnWorkers, Goto, Idle, Labels, Ops
<1>1. ASSUME NEW c \in Calls, Arrive(c)
      PROVE  Held'
    BY <1>1 DEF Arrive
<1>2. ASSUME NEW c \in Calls, AnswerInline(c)
      PROVE  Held'
    BY <1>2 DEF AnswerInline
<1>3. ASSUME NEW c \in Calls, Submit(c)
      PROVE  Held'
    BY <1>3 DEF Submit
<1>4. ASSUME NEW c \in Calls, Deliver(c)
      PROVE  Held'
    BY <1>4 DEF Deliver
<1>5. ASSUME NEW c \in Calls, Withdraw(c)
      PROVE  Held'
    BY <1>5 DEF Withdraw
<1>6. ASSUME NEW c \in Calls, Handle(c)
      PROVE  Held'
    BY <1>6 DEF Handle
<1>7. ASSUME NEW c \in Calls, Lose(c)
      PROVE  Held'
    BY <1>7 DEF Lose
<1>8. ASSUME NEW w \in Workers, Start(w)
      PROVE  Held'
  <2> DEFINE c == Head(queue)
  <2>1. c \in Calls /\ pc[c] = "queued"
      BY <1>8 DEF Start
  <2>2. \A v \in Workers : worker[v] # c
      BY <2>1
  <2>3. CASE gone[c]
      BY <1>8, <2>1, <2>2, <2>3 DEF Start
  <2>4. CASE ~gone[c]
    <3>1. /\ worker' = [worker EXCEPT ![w] = c]
          /\ pc' = [pc EXCEPT ![c] = "running"]
          /\ worker[w] = Nothing /\ c # Nothing
        BY <1>8, <2>1, <2>4 DEF Start
    <3>2. ASSUME NEW d \in Calls
          PROVE  pc'[d] \in OnWorkers <=> \E v \in Workers : worker'[v] = d
      <4>1. CASE d = c
          BY <3>1, <2>1, <4>1
      <4>2. CASE d # c
          BY <3>1, <2>1, <4>2
      <4> QED
          BY <4>1, <4>2
    <3>3. \A u, v \in Workers : worker'[u] = worker'[v] /\ worker'[v] # Nothing => u = v
        BY <3>1, <2>2
    <3> QED
        BY <3>2, <3>3
  <2> QED
      BY <2>3, <2>4
<1>9. ASSUME NEW w \in Workers, Reject(w)
      PROVE  Held'
    BY <1>9 DEF Reject, End
<1>10. ASSUME NEW w \in Workers, Send(w)
      PROVE  Held'
    BY <1>10 DEF Send
<1>11. ASSUME NEW w \in Workers, ReceiveRefusal(w)
      PROVE  Held'
    BY <1>11 DEF ReceiveRefusal, End
<1>12. ASSUME NEW w \in Workers, ReceiveResult(w)
      PROVE  Held'
    BY <1>12 DEF ReceiveResult, End
<1>13. ASSUME NEW w \in Workers, GiveUp(w)
      PROVE  Held'
    BY <1>13 DEF GiveUp, End
<1>14. CASE Quiet \/ UNCHANGED vars
    BY <1>14 DEF Quiet, vars
<1> QED
    BY <1>1, <1>2, <1>3, <1>4, <1>5, <1>6, <1>7, <1>8, <1>9, <1>10, <1>11, <1>12, <1>13, <1>14
       DEF Next, OnLoop, OnWorker

\* The queue holds each queued call once.
LEMMA QueuedStep ==
    TypeOK /\ Held /\ Queued /\ [Next]_vars => Queued'
<1> SUFFICES ASSUME TypeOK, Held, Queued, [Next]_vars
             PROVE  Queued'
    OBVIOUS
<1> USE ToolCallsAssumption DEF TypeOK, PlacesOK, Held, Queued, OnWorkers, Goto, Idle, Labels, Ops
<1>1. ASSUME NEW c \in Calls, Arrive(c)
      PROVE  Queued'
    BY <1>1 DEF Arrive
<1>2. ASSUME NEW c \in Calls, AnswerInline(c)
      PROVE  Queued'
    BY <1>2 DEF AnswerInline
<1>3. ASSUME NEW c \in Calls, Submit(c)
      PROVE  Queued'
    BY <1>3 DEF Submit
<1>4. ASSUME NEW c \in Calls, Deliver(c)
      PROVE  Queued'
    BY <1>4 DEF Deliver
<1>5. ASSUME NEW c \in Calls, Withdraw(c)
      PROVE  Queued'
    BY <1>5 DEF Withdraw
<1>6. ASSUME NEW c \in Calls, Handle(c)
      PROVE  Queued'
    BY <1>6 DEF Handle
<1>7. ASSUME NEW c \in Calls, Lose(c)
      PROVE  Queued'
    BY <1>7 DEF Lose
<1>8. ASSUME NEW w \in Workers, Start(w)
      PROVE  Queued'
    BY <1>8 DEF Start
<1>9. ASSUME NEW w \in Workers, Reject(w)
      PROVE  Queued'
    BY <1>9 DEF Reject, End
<1>10. ASSUME NEW w \in Workers, Send(w)
      PROVE  Queued'
    BY <1>10 DEF Send
<1>11. ASSUME NEW w \in Workers, ReceiveRefusal(w)
      PROVE  Queued'
    BY <1>11 DEF ReceiveRefusal, End
<1>12. ASSUME NEW w \in Workers, ReceiveResult(w)
      PROVE  Queued'
    BY <1>12 DEF ReceiveResult, End
<1>13. ASSUME NEW w \in Workers, GiveUp(w)
      PROVE  Queued'
    BY <1>13 DEF GiveUp, End
<1>14. CASE Quiet \/ UNCHANGED vars
    BY <1>14 DEF Quiet, vars
<1> QED
    BY <1>1, <1>2, <1>3, <1>4, <1>5, <1>6, <1>7, <1>8, <1>9, <1>10, <1>11, <1>12, <1>13, <1>14
       DEF Next, OnLoop, OnWorker

\* A request is sent once, by a call in its place.
LEMMA WireStep ==
    TypeOK /\ Held /\ Queued /\ Wire /\ [Next]_vars => Wire'
<1> SUFFICES ASSUME TypeOK, Held, Queued, Wire, [Next]_vars
             PROVE  Wire'
    OBVIOUS
<1> USE ToolCallsAssumption DEF TypeOK, PlacesOK, EffectsOK, Held, Queued, Wire, WireOf, OnWorkers, ClientOf, Contract!Legit,
           Goto, Idle, Labels, Ops
<1>1. ASSUME NEW c \in Calls, Arrive(c)
      PROVE  Wire'
    BY <1>1 DEF Arrive
<1>2. ASSUME NEW c \in Calls, AnswerInline(c)
      PROVE  Wire'
    BY <1>2 DEF AnswerInline
<1>3. ASSUME NEW c \in Calls, Submit(c)
      PROVE  Wire'
    BY <1>3 DEF Submit
<1>4. ASSUME NEW c \in Calls, Deliver(c)
      PROVE  Wire'
    BY <1>4 DEF Deliver
<1>5. ASSUME NEW c \in Calls, Withdraw(c)
      PROVE  Wire'
    BY <1>5 DEF Withdraw
<1>6. ASSUME NEW c \in Calls, Handle(c)
      PROVE  Wire'
    BY <1>6 DEF Handle
<1>7. ASSUME NEW c \in Calls, Lose(c)
      PROVE  Wire'
    BY <1>7 DEF Lose
<1>8. ASSUME NEW w \in Workers, Start(w)
      PROVE  Wire'
    BY <1>8 DEF Start
<1>9. ASSUME NEW w \in Workers, Reject(w)
      PROVE  Wire'
    BY <1>9 DEF Reject, End
<1>10. ASSUME NEW w \in Workers, Send(w)
      PROVE  Wire'
  <2>1. PICK c \in Calls :
               c = worker[w] /\ pc[c] = "running" /\ request[c] \in Requests
      BY <1>10 DEF Send
  <2>2. /\ Contract!Legit(request[c]) /\ ctx[c] = request[c].tenant
        /\ flight[c] = 0 /\ hits[c] = 0
      BY <1>10, <2>1 DEF Send
  <2>3. /\ pc' = [pc EXCEPT ![c] = "waiting"]
        /\ flight' = [flight EXCEPT ![c] = @ + 1]
        /\ sentAs' = [sentAs EXCEPT ![c] = Sending(c)]
        /\ request[c].params = "valid"
        /\ UNCHANGED <<request, gone, hits, ctx, bearer>>
      BY <1>10, <2>1 DEF Send
  <2>4. ASSUME NEW d \in Calls, d # c
        PROVE  /\ pc'[d] = pc[d] /\ flight'[d] = flight[d] /\ sentAs'[d] = sentAs[d]
      BY <2>3, <2>4
  <2>5. pc'[c] = "waiting" /\ flight'[c] = 1
      BY <2>1, <2>2, <2>3
  <2>6. WireOf(c)'
      BY <2>1, <2>2, <2>3, <2>5
  <2>7. ASSUME NEW d \in Calls, d # c
        PROVE  WireOf(d)'
    <3>1. WireOf(d)
        OBVIOUS
    <3> QED
        BY <3>1, <2>3, <2>4, <2>7
  <2> QED
      BY <2>6, <2>7
<1>11. ASSUME NEW w \in Workers, ReceiveRefusal(w)
      PROVE  Wire'
    BY <1>11 DEF ReceiveRefusal, End
<1>12. ASSUME NEW w \in Workers, ReceiveResult(w)
      PROVE  Wire'
    BY <1>12 DEF ReceiveResult, End
<1>13. ASSUME NEW w \in Workers, GiveUp(w)
      PROVE  Wire'
    BY <1>13 DEF GiveUp, End
<1>14. CASE Quiet \/ UNCHANGED vars
    BY <1>14 DEF Quiet, vars
<1> QED
    BY <1>1, <1>2, <1>3, <1>4, <1>5, <1>6, <1>7, <1>8, <1>9, <1>10, <1>11, <1>12, <1>13, <1>14
       DEF Next, OnLoop, OnWorker

\* A request goes out with the client and the credential of its call.
LEMMA SentStep ==
    TypeOK /\ Held /\ Wire /\ Sent /\ [Next]_vars => Sent'
<1> SUFFICES ASSUME TypeOK, Held, Wire, Sent, [Next]_vars
             PROVE  Sent'
    OBVIOUS
<1> USE ToolCallsAssumption DEF Sent, TenantKept
<1>1. ASSUME NEW c \in Calls, Arrive(c)
      PROVE  Sent'
  <2>1. sentAs[c] = Nothing
      BY <1>1 DEF Arrive, Wire, WireOf
  <2>2. \A d \in Calls \ {c} : request'[d] = request[d]
      BY <1>1 DEF Arrive, TypeOK, PlacesOK
  <2> QED
      BY <1>1, <2>1, <2>2 DEF Arrive
<1>2. ASSUME NEW w \in Workers, Send(w)
      PROVE  Sent'
  <2>1. PICK c \in Calls : c = worker[w] /\ pc[c] = "running"
      BY <1>2 DEF Send, Idle, TypeOK, PlacesOK
  <2>2. request[c] \in Requests /\ ctx[c] = request[c].tenant
      BY <2>1 DEF Wire, WireOf, TypeOK, PlacesOK
  <2>3. bearer[ClientOf(request[c].tenant)] = "own"
      BY <2>2 DEF Clients
  <2>4. /\ Sending(c).client = ClientOf(request[c].tenant)
        /\ Sending(c).bearer = "probed" <=> request[c].op = "probe"
      BY <2>2, <2>3 DEF Sending, Credential
  <2>5. sentAs' = [sentAs EXCEPT ![c] = Sending(c)] /\ UNCHANGED <<request, bearer>>
      BY <1>2, <2>1 DEF Send
  <2>6. ASSUME NEW d \in Calls, sentAs'[d] # Nothing
        PROVE  /\ sentAs'[d].client = ClientOf(request[d].tenant)
               /\ sentAs'[d].bearer = "probed" <=> request[d].op = "probe"
    <3>1. CASE d = c
        BY <2>4, <2>5, <3>1 DEF TypeOK, CredentialsOK
    <3>2. CASE d # c
        BY <2>5, <2>6, <3>2
    <3> QED
        BY <3>1, <3>2
  <2> QED
      BY <2>5, <2>6
<1>3. ASSUME UNCHANGED <<request, bearer, sentAs>>
      PROVE  Sent'
    BY <1>3
<1>4. ASSUME NEW c \in Calls, OnLoop(c) \/ Withdraw(c) \/ Handle(c) \/ Lose(c)
      PROVE  Sent'
    BY <1>3, <1>4 DEF OnLoop, AnswerInline, Submit, Deliver, Withdraw, Handle, Lose
<1>5. ASSUME NEW w \in Workers,
             \/ Start(w) \/ Reject(w)
             \/ ReceiveRefusal(w) \/ ReceiveResult(w) \/ GiveUp(w)
      PROVE  Sent'
    BY <1>3, <1>5 DEF Start, Reject, ReceiveRefusal, ReceiveResult, GiveUp
<1>6. CASE Quiet \/ UNCHANGED vars
    BY <1>3, <1>6 DEF Quiet, vars
<1> QED
    BY <1>1, <1>2, <1>4, <1>5, <1>6 DEF Next, OnWorker

\* Outcomes and answers say what happened.
LEMMA TruthfulStep ==
    RefusalsAreErrors /\ TypeOK /\ Held /\ Queued /\ Wire /\ Truthful /\ [Next]_vars
        => Truthful'
<1> SUFFICES ASSUME RefusalsAreErrors, TypeOK, Held, Queued, Wire, Truthful, [Next]_vars
             PROVE  Truthful'
    OBVIOUS
<1> USE ToolCallsAssumption
    DEF TypeOK, PlacesOK, EffectsOK, Held, Queued, Wire, WireOf, Truthful, TruthOf, Says, OnWorkers, Goto, Idle, Labels
<1>1. ASSUME NEW c \in Calls, Arrive(c)
      PROVE  Truthful'
    BY <1>1 DEF Arrive, AnswerKinds
<1>2. ASSUME NEW c \in Calls, AnswerInline(c)
      PROVE  Truthful'
  <2>1. /\ request[c] \in Requests /\ hits[c] = 0 /\ flight[c] = 0 /\ sentAs[c] = Nothing
      BY <1>2 DEF AnswerInline
  <2>2. /\ InlineAnswer(request[c]) \in {"ok", "refused", "crash"}
        /\ InlineAnswer(request[c]) = "ok" => request[c].op = "help"
      BY <1>2, <2>1, InlineType DEF AnswerInline
  <2>3. /\ pc' = [pc EXCEPT ![c] = "answered"]
        /\ answer' = [answer EXCEPT ![c] = InlineAnswer(request[c])]
        /\ UNCHANGED <<request, gone, sentAs, flight, hits, outcome>>
        /\ pc[c] = "arrived"
      BY <1>2 DEF AnswerInline
  <2>4. ASSUME NEW d \in Calls
        PROVE  TruthOf(d)'
    <3>1. CASE d = c
        BY <2>1, <2>2, <2>3, <3>1 DEF AnswerKinds
    <3>2. CASE d # c
        BY <2>3, <3>2
    <3> QED
        BY <3>1, <3>2
  <2> QED
      BY <2>4
<1>3. ASSUME NEW c \in Calls, Submit(c)
      PROVE  Truthful'
    BY <1>3 DEF Submit
<1>4. ASSUME NEW c \in Calls, Deliver(c)
      PROVE  Truthful'
    BY <1>4 DEF Deliver, AnswerKinds
<1>5. ASSUME NEW c \in Calls, Withdraw(c)
      PROVE  Truthful'
    BY <1>5 DEF Withdraw
<1>6. ASSUME NEW c \in Calls, Handle(c)
      PROVE  Truthful'
    BY <1>6 DEF Handle
<1>7. ASSUME NEW c \in Calls, Lose(c)
      PROVE  Truthful'
    BY <1>7 DEF Lose
<1>8. ASSUME NEW w \in Workers, Start(w)
      PROVE  Truthful'
  <2> DEFINE c == Head(queue)
  <2>1. c \in Calls /\ pc[c] = "queued"
      BY <1>8 DEF Start
  <2>2. /\ pc' = [pc EXCEPT ![c] = IF gone[c] THEN "skipped" ELSE "running"]
        /\ UNCHANGED <<request, gone, sentAs, flight, hits, outcome, answer>>
      BY <1>8 DEF Start
  <2> HIDE DEF c
  <2> QED
      BY <2>1, <2>2
<1>9. ASSUME NEW w \in Workers, Reject(w)
      PROVE  Truthful'
    BY <1>9 DEF Reject, End, AnswerKinds
<1>10. ASSUME NEW w \in Workers, Send(w)
      PROVE  Truthful'
    BY <1>10 DEF Send, AnswerKinds
<1>11. ASSUME NEW w \in Workers, ReceiveRefusal(w)
      PROVE  Truthful'
  <2>1. PICK a \in Refusals : End(w, OpOutcome(request[worker[w]].op, a))
      BY <1>11 DEF ReceiveRefusal
  <2>2. OpOutcome(request[worker[w]].op, a) \in {"status", "transport", "unreadable"}
      BY <2>1, ErrorOutcome DEF RefusalsAreErrors
  <2> QED
      BY <1>11, <2>1, <2>2 DEF ReceiveRefusal, End, AnswerKinds
<1>12. ASSUME NEW w \in Workers, ReceiveResult(w)
      PROVE  Truthful'
  <2>1. PICK a \in Results : End(w, OpOutcome(request[worker[w]].op, a))
      BY <1>12 DEF ReceiveResult
  <2>2. /\ OpOutcome(request[worker[w]].op, a) \in AnswerKinds \ {"refused"}
        /\ OpOutcome(request[worker[w]].op, a) = "unechoed"
               => request[worker[w]].op = "verified"
        /\ OpOutcome(request[worker[w]].op, a) = "complaint"
               => request[worker[w]].op = "agent"
      BY <2>1, OutcomeType
  <2> QED
      BY <1>12, <2>1, <2>2 DEF ReceiveResult, End
<1>13. ASSUME NEW w \in Workers, GiveUp(w)
      PROVE  Truthful'
  <2>1. OpOutcome(request[worker[w]].op, NoAnswer) \in {"status", "transport", "unreadable"}
      BY ErrorOutcome
  <2> QED
      BY <1>13, <2>1 DEF GiveUp, End, AnswerKinds
<1>14. CASE Quiet \/ UNCHANGED vars
    BY <1>14 DEF Quiet, vars
<1> QED
    BY <1>1, <1>2, <1>3, <1>4, <1>5, <1>6, <1>7, <1>8, <1>9, <1>10, <1>11, <1>12, <1>13, <1>14
       DEF Next, OnLoop, OnWorker

LEMMA Initial == Init => IInv /\ Truthful
<1> SUFFICES ASSUME Init
             PROVE  IInv /\ Truthful
    OBVIOUS
<1> USE ToolCallsAssumption DEF Init
<1>1. TypeOK
    BY DEF TypeOK, PlacesOK, EffectsOK, CredentialsOK, Labels
<1>2. Held /\ Queued
    BY DEF Held, Queued, OnWorkers, Idle
<1>3. Wire /\ Truthful /\ Sent
    BY DEF Wire, WireOf, Truthful, TruthOf, Says, AnswerKinds, Sent, TenantKept
<1> QED
    BY <1>1, <1>2, <1>3 DEF IInv

\* IInv holds in every reachable state.
THEOREM Invariance == Spec => []IInv
<1>1. IInv /\ [Next]_vars => IInv'
    BY TypeStep, HeldStep, QueuedStep, WireStep, SentStep DEF IInv
<1> QED
    BY Initial, <1>1, PTL DEF Spec

\* Truthful holds in every reachable state when refusals are errors.
THEOREM TruthfulInvariance == RefusalsAreErrors => (Spec => []Truthful)
<1> SUFFICES ASSUME RefusalsAreErrors
             PROVE  Spec => []Truthful
    OBVIOUS
<1>1. IInv /\ Truthful /\ [Next]_vars => Truthful'
    BY TruthfulStep DEF IInv
<1> QED
    BY Invariance, Initial, <1>1, PTL DEF Spec

\* The variables stay in their sets.
THEOREM TypeCorrect == Spec => []TypeOK
<1>1. IInv => TypeOK
    BY DEF IInv
<1> QED
    BY Invariance, <1>1, PTL

\* The client never repeats a request: the proxy handles a call at most
\* once, whatever times out, gets lost or is withdrawn.
THEOREM HandledAtMostOnceThm == Spec => []HandledAtMostOnce
<1>1. IInv => HandledAtMostOnce
    BY DEF IInv, Wire, WireOf, HandledAtMostOnce
<1> QED
    BY Invariance, <1>1, PTL

\* A request always carries the client its agent was bound to and that
\* client's credential, whatever keys are probed at the same time.
THEOREM TenantKeptThm == Spec => []TenantKept
<1>1. IInv => TenantKept
    BY DEF IInv, Sent
<1> QED
    BY Invariance, <1>1, PTL

\* Calls and workers are in one-to-one correspondence while calls run.
THEOREM WorkersConservedThm == Spec => []WorkersConserved
<1>1. IInv => WorkersConserved
    BY DEF IInv, Held, Queued, OnWorkers, WorkersConserved
<1> QED
    BY Invariance, <1>1, PTL

\* Behind a proxy that answers 400 or more to what it does not handle, "ok"
\* is answered only to handled calls.
THEOREM OkMeansHandledThm == RefusalsAreErrors => (Spec => []OkMeansHandled)
<1>1. Truthful => OkMeansHandled
    BY DEF Truthful, TruthOf, Says, OkMeansHandled
<1> QED
    BY TruthfulInvariance, <1>1, PTL

\* A refusal means that nothing was and nothing will be sent, a complaint about
\* what came back that the call was handled.
THEOREM ErrorsTellThm == RefusalsAreErrors => (Spec => []ErrorsTell)
<1>1. IInv /\ Truthful => ErrorsTell
    BY DEF IInv, TypeOK, PlacesOK, EffectsOK, Wire, WireOf, Truthful, TruthOf, Says, ErrorsTell
<1> QED
    BY Invariance, TruthfulInvariance, <1>1, PTL

-----------------------------------------------------------------------------
\* What a call's position means to the contract.
StatusOf(c) ==
    /\ pc[c] = "new" <=> Status[c] = "idle"
    /\ gone[c] => Status[c] = "gone"
    /\ ~gone[c] /\ pc[c] = "answered" => Status[c] = answer[c]
    /\ ~gone[c] /\ pc[c] \notin {"new", "answered"} => Status[c] = "open"

LEMMA StatusIs ==
    TypeOK /\ Wire /\ Truthful => \A c \in Calls : StatusOf(c)
<1> SUFFICES ASSUME TypeOK, Wire, Truthful, NEW c \in Calls
             PROVE  StatusOf(c)
    OBVIOUS
<1>1. /\ gone[c] \in BOOLEAN
      /\ pc[c] = "new" => ~gone[c]
      /\ pc[c] = "answered" /\ ~gone[c] => answer[c] \in AnswerKinds
    BY DEF TypeOK, PlacesOK, EffectsOK, Wire, WireOf, Truthful, TruthOf
<1>2. Status[c] = CASE pc[c] = "new" -> "idle"
                    [] gone[c] -> "gone"
                    [] pc[c] = "answered" /\ ~gone[c] -> answer[c]
                    [] OTHER -> "open"
    BY DEF Status
<1>3. CASE pc[c] = "new"
    BY <1>1, <1>2, <1>3 DEF StatusOf
<1>4. CASE pc[c] # "new" /\ gone[c]
    BY <1>1, <1>2, <1>4 DEF StatusOf
<1>5. CASE pc[c] = "answered" /\ ~gone[c]
    BY <1>1, <1>2, <1>5 DEF StatusOf, AnswerKinds
<1>6. CASE pc[c] \notin {"new", "answered"} /\ ~gone[c]
    BY <1>1, <1>2, <1>6 DEF StatusOf
<1> QED
    BY <1>3, <1>4, <1>5, <1>6

\* Every step of the server is a step of the contract or leaves it alone.
LEMMA ContractStep ==
    IInv /\ Truthful /\ IInv' /\ Truthful' /\ [Next]_vars
        => [Contract!Next]_(Contract!cvars)
<1> SUFFICES ASSUME IInv, Truthful, IInv', Truthful', [Next]_vars
             PROVE  [Contract!Next]_(Contract!cvars)
    OBVIOUS
<1> USE ToolCallsAssumption
<1>0. TypeOK /\ Wire /\ TypeOK' /\ Wire'
    BY DEF IInv
<1>a. \A c \in Calls : StatusOf(c)
    BY <1>0, StatusIs
<1>b. \A c \in Calls : StatusOf(c)'
  <2>1. (TypeOK /\ Wire /\ Truthful)' => (\A c \in Calls : StatusOf(c))'
      BY StatusIs, PTL
  <2> QED
      BY <1>0, <2>1
<1>c. DOMAIN Status = Calls /\ DOMAIN Status' = Calls
    BY DEF Status
\* A step that only moves a call between loop and worker is a stutter.
<1>d. ASSUME UNCHANGED <<request, gone, hits, answer>>,
             \A c \in Calls : \/ pc'[c] = pc[c]
                              \/ {pc[c], pc'[c]} \cap {"new", "answered"} = {}
      PROVE  UNCHANGED Contract!cvars
  <2>1. ASSUME NEW c \in Calls
        PROVE  Status'[c] = Status[c]
    <3>1. CASE pc[c] \in {"new", "answered"}
      <4>1. pc'[c] = pc[c]
          BY <1>d, <3>1
      <4> QED
          BY <1>d, <4>1 DEF Status
    <3>2. CASE pc[c] \notin {"new", "answered"}
      <4>1. pc'[c] \notin {"new", "answered"}
          BY <1>d, <3>2
      <4>2. gone[c] \in BOOLEAN /\ gone'[c] = gone[c]
          BY <1>0, <1>d DEF TypeOK, PlacesOK, EffectsOK
      <4> QED
          BY <1>a, <1>b, <3>2, <4>1, <4>2 DEF StatusOf
    <3> QED
        BY <3>1, <3>2
  <2>2. Status' = Status
      BY <2>1 DEF Status
  <2> QED
      BY <2>2, <1>d DEF Contract!cvars
\* A step that changes the status of one call.
<1>e. ASSUME NEW c \in Calls, NEW s,
             Status'[c] = s,
             \A d \in Calls \ {c} : /\ pc'[d] = pc[d] /\ gone'[d] = gone[d]
                                    /\ answer'[d] = answer[d]
      PROVE  Status' = [Status EXCEPT ![c] = s]
  <2>1. ASSUME NEW d \in Calls
        PROVE  Status'[d] = [Status EXCEPT ![c] = s][d]
    <3>1. CASE d = c
        BY <3>1, <1>e DEF Status
    <3>2. CASE d # c
        BY <3>2, <1>e DEF Status
    <3> QED
        BY <3>1, <3>2
  <2>2. Status' = [d \in Calls |-> Status'[d]]
      BY DEF Status
  <2>3. [Status EXCEPT ![c] = s] = [d \in Calls |-> [Status EXCEPT ![c] = s][d]]
      BY <1>c
  <2> QED
      BY <2>1, <2>2, <2>3
<1>1. ASSUME NEW c \in Calls, Arrive(c)
      PROVE  Contract!Next
  <2>1. Status[c] = "idle" /\ pc'[c] = "arrived" /\ ~gone'[c]
      BY <1>0, <1>1, <1>a DEF Arrive, StatusOf, Goto, TypeOK, PlacesOK, EffectsOK, Wire, WireOf
  <2>2. Status' = [Status EXCEPT ![c] = "open"]
      BY <1>0, <1>1, <1>b, <1>e, <2>1 DEF Arrive, StatusOf, Goto, TypeOK, PlacesOK, EffectsOK
  <2> QED
      BY <1>1, <2>1, <2>2 DEF Arrive, Contract!Next, Contract!Submit
<1>2. ASSUME NEW c \in Calls, AnswerInline(c)
      PROVE  Contract!Next
  <2>1. /\ Status[c] = "open" /\ pc'[c] = "answered" /\ ~gone'[c]
        /\ answer'[c] \in {"ok", "refused", "crash"} /\ hits'[c] = 0
        /\ answer'[c] = "ok" => request[c].op = "help"
    <3>1. request[c] \in Requests /\ WireOf(c)
        BY <1>0, <1>2 DEF AnswerInline, TypeOK, PlacesOK, EffectsOK, Wire, WireOf
    <3>2. answer'[c] = InlineAnswer(request[c])
        BY <1>0, <1>2 DEF AnswerInline, TypeOK, PlacesOK, EffectsOK
    <3>3. /\ pc[c] = "arrived" /\ ~gone[c] /\ hits[c] = 0
          /\ request[c].op \in {"help", "foreign"}
          /\ pc' = [pc EXCEPT ![c] = "answered"] /\ gone' = gone /\ hits' = hits
        BY <1>0, <1>2, <3>1 DEF AnswerInline, Goto, TypeOK, EffectsOK, WireOf
    <3>4. InlineAnswer(request[c]) \in {"ok", "refused", "crash"}
        BY <3>1, <3>3, InlineType
    <3>5. InlineAnswer(request[c]) = "ok" => request[c].op = "help"
        BY <3>1, <3>3, InlineType
    <3>6. Status[c] = "open"
        BY <1>a, <3>3 DEF StatusOf
    <3>7. pc'[c] = "answered"
        BY <1>0, <3>3 DEF TypeOK, PlacesOK
    <3> QED
        BY <3>2, <3>3, <3>4, <3>5, <3>6, <3>7
  <2>2. Status' = [Status EXCEPT ![c] = answer'[c]]
    <3>1. Status'[c] = answer'[c]
        BY <1>b, <2>1 DEF StatusOf
    <3>2. \A d \in Calls \ {c} : /\ pc'[d] = pc[d] /\ gone'[d] = gone[d]
                                  /\ answer'[d] = answer[d]
        BY <1>0, <1>2 DEF AnswerInline, Goto, TypeOK, PlacesOK, EffectsOK
    <3> QED
        BY <1>e, <3>1, <3>2
  <2>3. Contract!Succeed(c) \/ Contract!Refuse(c) \/ Contract!Fail(c)
      BY <1>2, <2>1, <2>2
      DEF AnswerInline, Contract!Succeed, Contract!Refuse, Contract!Fail
  <2> QED
      BY <2>3 DEF Contract!Next
<1>3. ASSUME NEW c \in Calls, Submit(c)
      PROVE  UNCHANGED Contract!cvars
    BY <1>0, <1>3, <1>d DEF Submit, Goto, TypeOK, PlacesOK, EffectsOK
<1>4. ASSUME NEW c \in Calls, Deliver(c)
      PROVE  [Contract!Next]_(Contract!cvars)
  <2>1. CASE gone[c]
    <3>1. Status[c] = "gone" /\ Status'[c] = "gone"
        BY <1>4, <1>a, <1>b, <2>1 DEF Deliver, StatusOf
    <3>2. Status' = [Status EXCEPT ![c] = "gone"]
        BY <1>0, <1>4, <1>e, <3>1 DEF Deliver, Goto, TypeOK, PlacesOK, EffectsOK
    <3>3. Status' = Status
        BY <3>1, <3>2 DEF Status
    <3> QED
        BY <1>4, <3>3 DEF Deliver, Contract!cvars
  <2>2. CASE ~gone[c]
    <3>1. /\ Status[c] = "open" /\ pc'[c] = "answered" /\ ~gone'[c]
          /\ answer'[c] = outcome[c]
          /\ outcome[c] \in AnswerKinds
          /\ outcome[c] = "ok" => hits[c] = 1
          /\ outcome[c] = "unechoed" => request[c].op = "verified" /\ hits[c] = 1
          /\ outcome[c] = "complaint" => request[c].op = "agent" /\ hits[c] = 1
          /\ outcome[c] = "refused" => hits[c] = 0
      <4>1. Says(c, outcome[c]) /\ WireOf(c)
          BY <1>0, <1>4 DEF Deliver, Truthful, TruthOf, Wire
      <4>2. flight[c] \in Nat /\ hits[c] \in Nat /\ request[c].op # "help"
          BY <1>0, <1>4, <4>1 DEF Deliver, TypeOK, PlacesOK, EffectsOK, WireOf
      <4>3. Status[c] = "open" /\ outcome[c] \in AnswerKinds
          BY <1>0, <1>4, <1>a, <2>2
             DEF Deliver, StatusOf, TypeOK, EffectsOK, Truthful, TruthOf
      <4>4. pc'[c] = "answered" /\ ~gone'[c] /\ answer'[c] = outcome[c]
          BY <1>0, <1>4, <2>2 DEF Deliver, Goto, TypeOK, PlacesOK, EffectsOK
      <4> QED
          BY <4>1, <4>2, <4>3, <4>4 DEF Says
    <3>2. \A d \in Calls \ {c} : /\ pc'[d] = pc[d] /\ gone'[d] = gone[d]
                                  /\ answer'[d] = answer[d]
        BY <1>0, <1>4 DEF Deliver, Goto, TypeOK, PlacesOK, EffectsOK
    <3>4. Status'[c] = outcome[c]
        BY <1>b, <3>1 DEF StatusOf
    <3>5. Status' = [Status EXCEPT ![c] = outcome[c]]
        BY <1>e, <3>2, <3>4
    <3>3. \/ Contract!Succeed(c) \/ Contract!Refuse(c)
          \/ Contract!Complain(c) \/ Contract!Fail(c)
        BY <1>4, <3>1, <3>5
           DEF Deliver, AnswerKinds, Contract!Succeed, Contract!Refuse,
               Contract!Complain, Contract!Fail
    <3> QED
        BY <3>3 DEF Contract!Next
  <2> QED
      BY <2>1, <2>2
<1>5. ASSUME NEW c \in Calls, Withdraw(c)
      PROVE  Contract!Next
  <2>1. Status[c] = "open" /\ gone'[c]
      BY <1>0, <1>5, <1>a DEF Withdraw, StatusOf, TypeOK, PlacesOK, EffectsOK
  <2>2. \A d \in Calls \ {c} : pc'[d] = pc[d] /\ gone'[d] = gone[d]
      BY <1>0, <1>5 DEF Withdraw, Goto, TypeOK, PlacesOK, EffectsOK
  <2>3. Status' = [Status EXCEPT ![c] = "gone"]
      BY <1>5, <1>b, <1>e, <2>1, <2>2 DEF Withdraw, StatusOf
  <2> QED
      BY <1>5, <2>1, <2>3 DEF Withdraw, Contract!Next, Contract!Withdraw
<1>6. ASSUME NEW c \in Calls, Handle(c)
      PROVE  Contract!Next
  <2>0. flight[c] \in Nat /\ hits[c] \in Nat /\ flight[c] > 0 /\ WireOf(c)
      BY <1>0, <1>6 DEF Handle, TypeOK, PlacesOK, EffectsOK, Wire
  <2>1. /\ Contract!Legit(request[c]) /\ hits[c] = 0 /\ pc[c] # "new"
        /\ hits' = [hits EXCEPT ![c] = 1]
    <3>1. hits[c] = 0 /\ flight[c] + hits[c] > 0
        BY <2>0 DEF WireOf
    <3> QED
        BY <1>6, <2>0, <3>1 DEF Handle, WireOf
  <2>2. Status[c] \notin {"idle", "refused"}
    <3>1. answer[c] # "refused"
        BY <1>6, <2>0 DEF Truthful, TruthOf, Says
    <3> QED
        BY <1>0, <1>a, <2>1, <3>1 DEF StatusOf, TypeOK, PlacesOK, EffectsOK
  <2>3. Status' = Status
      BY <1>6 DEF Handle, Status
  <2> QED
      BY <1>6, <2>1, <2>2, <2>3 DEF Handle, Contract!Next, Contract!Handle
<1>7. ASSUME NEW c \in Calls, Lose(c)
      PROVE  UNCHANGED Contract!cvars
    BY <1>7, <1>d DEF Lose
<1>8. ASSUME NEW w \in Workers, OnWorker(w)
      PROVE  UNCHANGED Contract!cvars
  <2> USE <1>0 DEF TypeOK, PlacesOK, EffectsOK, Goto, Idle
  <2>1. CASE Start(w)
    <3>1. queue \in Seq(Calls) /\ queue # <<>> /\ pc[Head(queue)] = "queued"
      <4>1. queue \in Seq(Calls) /\ queue # <<>> /\ Queued
          BY <2>1 DEF Start, IInv
      <4>2. 1 \in 1..Len(queue) /\ Head(queue) = queue[1]
          BY <4>1
      <4> QED
          BY <4>1, <4>2 DEF Queued
    <3>2. PICK c \in Calls :
             /\ pc[c] = "queued"
             /\ pc' = [pc EXCEPT ![c] = IF gone[c] THEN "skipped" ELSE "running"]
      <4>1. Head(queue) \in Calls
          BY <3>1
      <4>2. pc' = [pc EXCEPT ![Head(queue)] =
                       IF gone[Head(queue)] THEN "skipped" ELSE "running"]
          BY <2>1, Zenon DEF Start, Goto
      <4> QED
          BY <3>1, <4>1, <4>2
    <3> QED
        BY <2>1, <3>2, <1>d DEF Start
  <2>2. CASE Send(w)
      BY <2>2, <1>d DEF Send
  <2>3. CASE Reject(w) \/ ReceiveRefusal(w) \/ ReceiveResult(w) \/ GiveUp(w)
    <3>1. PICK c \in Calls :
             /\ pc[c] \in {"running", "waiting"}
             /\ pc' = [pc EXCEPT ![c] = "returned"]
        BY <2>3 DEF Reject, ReceiveRefusal, ReceiveResult, GiveUp, End
    <3>2. UNCHANGED <<request, gone, hits, answer>>
        BY <2>3 DEF Reject, ReceiveRefusal, ReceiveResult, GiveUp
    <3> QED
        BY <3>1, <3>2, <1>d
  <2> QED
      BY <1>8, <2>1, <2>2, <2>3 DEF OnWorker
<1>9. CASE Quiet \/ UNCHANGED vars
    BY <1>9, <1>d DEF Quiet, vars
<1> QED
    BY <1>1, <1>2, <1>3, <1>4, <1>5, <1>6, <1>7, <1>8, <1>9 DEF Next, OnLoop

\* The server implements the contract.
THEOREM KeepsContractThm == RefusalsAreErrors => (Spec => KeepsContract)
<1> SUFFICES ASSUME RefusalsAreErrors
             PROVE  Spec => KeepsContract
    OBVIOUS
<1>1. Init => Contract!Init
    BY DEF Init, Contract!Init, Status
<1>2. Spec => [](IInv /\ Truthful)
    BY Invariance, TruthfulInvariance, PTL
<1> QED
    BY <1>1, <1>2, ContractStep, PTL DEF Spec, KeepsContract, Contract!Spec
=============================================================================
