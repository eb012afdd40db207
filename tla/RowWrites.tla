------------------------------ MODULE RowWrites ------------------------------
(***************************************************************************)
(* Create and update operations that write to one row of the proxy, from   *)
(* the agent's parameters to the echo that is verified.                    *)
(*                                                                         *)
(* The parameters pass the model of the operation (ParamsModel); what the  *)
(* agent left out is UNSET, and the operation puts everything but UNSET    *)
(* into the body.  The proxy changes the columns the body names, except    *)
(* those it silently drops, perhaps after the client gave up waiting.  Its *)
(* echo is what the endpoint reports of the stored row, and                *)
(* verify_response raises when a field that the operation covers is        *)
(* missing from it.                                                        *)
(***************************************************************************)
EXTENDS ParamsModel

CONSTANTS
    Calls,
    Transport,  \* request-only fields (verify.ROOT_SKIP): no columns
    Covers,     \* Covers[c]: the fields the operation of c verifies
    Echoes,     \* Echoes[c]: the columns that the endpoint of c reports
    Stale       \* the calls whose echo may hold a column that was dropped

ASSUME RowAssumption ==
    /\ Transport \subseteq Fields
    /\ Covers \in [Calls -> SUBSET (Fields \ Transport)]
    /\ Echoes \in [Calls -> SUBSET (Fields \ Transport)]
    /\ Stale \subseteq Calls

VARIABLES
    pc,         \* how far each call is
    passed,     \* the valid parameters of each call
    body,       \* the JSON object of each request
    row,        \* the row of the proxy
    dropped,    \* the columns of each request that the proxy ignored
    echo,       \* the fields of each answer
    answer      \* "ok" or "error"

vars == <<pc, passed, body, row, dropped, echo, answer>>

Columns == Fields \ Transport

Empty == [f \in {} |-> Null]

Init ==
    /\ pc = [c \in Calls |-> "new"]
    /\ passed = [c \in Calls |-> Empty]
    /\ body = [c \in Calls |-> Empty]
    /\ row \in {r \in [Columns -> Contents] : \A f \in Columns : r[f] \in TypeOf(f)}
    /\ dropped = [c \in Calls |-> {}]
    /\ echo = [c \in Calls |-> {}]
    /\ answer = [c \in Calls |-> "none"]

Goto(c, label) == pc' = [pc EXCEPT ![c] = label]

\* ValidationError: no request.
Reject(c) ==
    /\ pc[c] = "new"
    /\ \E p \in Dicts(Fields \cup Unknown) : ~Valid(p)
    /\ answer' = [answer EXCEPT ![c] = "error"]
    /\ Goto(c, "refused")
    /\ UNCHANGED <<passed, body, row, dropped, echo>>

\* Faulty BodyOf: what was left out is sent as null.
BodyWithNulls(params) ==
    [f \in Fields |-> IF Arguments(params)[f] = UNSET THEN Null ELSE Arguments(params)[f]]

\* Faulty BodyOf: null is left out with UNSET, the way query_params does it.
BodyWithoutNulls(params) ==
    [f \in {g \in Fields : Arguments(params)[g] \notin {UNSET, Null}} |-> Arguments(params)[f]]

\* "if field is not UNSET: body[field] = field", for every field.
BodyOf(params) ==
    LET arguments == Arguments(params) IN
    [f \in {g \in Fields : arguments[g] # UNSET} |-> arguments[f]]

Send(c) ==
    /\ pc[c] = "new"
    /\ \E p \in Dicts(Fields) :
         /\ Valid(p)
         /\ passed' = [passed EXCEPT ![c] = p]
         /\ body' = [body EXCEPT ![c] = BodyOf(p)]
    /\ Goto(c, "sent")
    /\ UNCHANGED <<row, dropped, echo, answer>>

\* The proxy writes the columns the body names, but for those it drops, and
\* answers with what its endpoint reports of the row.  Nobody waits for the answer to an abandoned call.
Apply(c) ==
    LET columns == Columns \cap DOMAIN body[c] IN
    /\ pc[c] \in {"sent", "abandoned"}
    /\ \E D \in SUBSET columns :
         /\ row' = [f \in Columns |-> IF f \in columns \ D THEN body[c][f] ELSE row[f]]
         /\ dropped' = [dropped EXCEPT ![c] = D]
         /\ \E missing \in SUBSET D :
              /\ c \in Stale \/ missing = D
              /\ echo' = [echo EXCEPT ![c] = Echoes[c] \ missing]
    /\ Goto(c, IF pc[c] = "sent" THEN "echoed" ELSE "ended")
    /\ UNCHANGED <<passed, body, answer>>

\* "{k: body[k] for k in (...) if k in body}", or the body but for ROOT_SKIP
\* and the operation's own skip set.
Verified(c) == Covers[c] \cap DOMAIN body[c]

\* verify_response, then the result is returned.
Verify(c) ==
    /\ pc[c] = "echoed"
    /\ answer' = [answer EXCEPT ![c] = IF Verified(c) \subseteq echo[c] THEN "ok" ELSE "error"]
    /\ Goto(c, "ended")
    /\ UNCHANGED <<passed, body, row, dropped, echo>>

\* The proxy refused, the client gave up waiting, or the answer was lost.
\* Where the write was not made it may never be, or be made later.
Fail(c) ==
    /\ pc[c] \in {"sent", "echoed"}
    /\ answer' = [answer EXCEPT ![c] = "error"]
    /\ Goto(c, IF pc[c] = "sent" THEN "abandoned" ELSE "ended")
    /\ UNCHANGED <<passed, body, row, dropped, echo>>

Ended ==
    /\ \A c \in Calls : pc[c] \in {"refused", "abandoned", "ended"}
    /\ UNCHANGED vars

Next ==
    \/ \E c \in Calls : Reject(c) \/ Send(c) \/ Apply(c) \/ Verify(c) \/ Fail(c)
    \/ Ended

Spec == Init /\ [][Next]_vars

(***************************************************************************)
(* Properties                                                              *)
(***************************************************************************)

TypeOK ==
    /\ pc \in [Calls -> {"new", "refused", "sent", "abandoned", "echoed", "ended"}]
    /\ passed \in [Calls -> Dicts(Fields)]
    /\ body \in [Calls -> Dicts(Fields)]
    /\ row \in [Columns -> Contents]
    /\ dropped \in [Calls -> SUBSET Columns]
    /\ echo \in [Calls -> SUBSET Columns]
    /\ answer \in [Calls -> {"none", "ok", "error"}]

\* What the agent of c asked for, column by column.
Asked(c) == [f \in Columns \cap DOMAIN passed[c] |-> Meaning(passed[c])[f]]

\* The agent of c asked for this in column f.
Asks(c, f, value) == f \in DOMAIN Asked(c) /\ Asked(c)[f] = value

\* However agents spell a boolean, and whatever they pass by mistake, a column
\* only ever holds values of its field's annotation, null where that allows it.
ColumnsTyped == \A f \in Columns : row[f] \in TypeOf(f)

\* Updates of several agents compose: what a call passed, verified and was
\* answered "ok" for is in the row until another call that passed the same
\* column writes it.  A call that leaves a column out never undoes it.  The
\* echo of a stale call vouches for nothing: verify_response compares keys,
\* and the old value under the key of a dropped column passes.
UpdatesCompose ==
    \A c \in Calls \ Stale : answer[c] = "ok" =>
        \A f \in Covers[c] \cap DOMAIN Asked(c) :
            \/ row[f] = Asked(c)[f]
            \/ \E other \in Calls \ {c} : Asks(other, f, row[f])

\* What an agent that only knows RowContract sees of a state.
AgentStatus ==
    [c \in Calls |->
        IF answer[c] # "none" THEN answer[c] ELSE IF pc[c] = "new" THEN "idle" ELSE "open"]

Contract == INSTANCE RowContract WITH
    Promises <- [c \in Calls |-> IF c \in Stale THEN {} ELSE Covers[c]],
    wants <- [c \in Calls |-> Asked(c)],
    status <- AgentStatus,
    done <- {c \in Calls : pc[c] \in {"echoed", "ended"}},
    kept <- [c \in Calls |->
                IF pc[c] \in {"echoed", "ended"} THEN DOMAIN Asked(c) \ dropped[c] ELSE {}]

\* Operations on a row keep the contract.  "a caller can clear a nullable field
\* distinctly from leaving it untouched": a column changes only to what one
\* call asked for it, null included, in one step with the other columns of
\* that call, and at most once, however late; "ok" vouches for what the
\* operation verifies.
KeepsRowContract == Contract!Spec

\* A column changes only to what a call that was sent asked for it, null
\* included; one that no agent names is never changed.
OmittedUntouched ==
    [][\A f \in Columns : row'[f] # row[f] =>
           \E c \in Calls : pc[c] \in {"sent", "abandoned"} /\ Asks(c, f, row'[f])]_vars

\* "a partial write cannot pass unnoticed": a call that is answered "ok"
\* wrote every column its operation verifies, if its echo was not stale.
DropNoticed ==
    \A c \in Calls \ Stale : answer[c] = "ok" => dropped[c] \cap Covers[c] = {}
=============================================================================
