--------------------------- MODULE RowWritesProofs ---------------------------
(***************************************************************************)
(* Theorems about RowWrites, for any number of calls, fields and values.   *)
(*                                                                         *)
(* The argument: a body is exactly what the agent's parameters mean        *)
(* (BodyIsMeaning), each value of its field's type, so a column changes    *)
(* only to what a call that was sent asked for it.  From then on the       *)
(* column holds that until a call that names the same column overwrites    *)
(* it; that call's body never changes again, so it stays a witness for     *)
(* ever (Written).  An echo lacks every dropped column unless it may be    *)
(* stale, so a call that passes verification dropped none of the columns   *)
(* it covers (Echoed, Vouched).                                            *)
(***************************************************************************)
EXTENDS RowWrites, TLAPS

\* A valid call's body has what its parameters mean and nothing else: UNSET is
\* what becomes of an omitted parameter only.
LEMMA BodyIsMeaning ==
    ASSUME NEW p \in Dicts(Fields), Valid(p)
    PROVE  /\ BodyOf(p) = Meaning(p)
           /\ Meaning(p) \in Dicts(Fields)
           /\ DOMAIN Meaning(p) = DOMAIN p
           /\ \A f \in DOMAIN p : Meaning(p)[f] \in TypeOf(f)
<1>1. DOMAIN p \subseteq Fields
  BY DEF Dicts
<1>2. /\ DOMAIN Meaning(p) = DOMAIN p
      /\ \A f \in DOMAIN p : Meaning(p)[f] \in TypeOf(f)
  BY DEF Meaning, Valid
<1>3. \A f \in Fields : TypeOf(f) \subseteq Contents
  BY ParamsAssumption DEF TypeOf, Contents
<1>4. \A f \in DOMAIN p : Meaning(p)[f] \in Contents /\ Meaning(p)[f] # UNSET
  BY <1>1, <1>2, <1>3, ParamsAssumption
<1>5. Meaning(p) \in [DOMAIN p -> Contents]
  BY <1>4 DEF Meaning
<1>6. Meaning(p) \in Dicts(Fields)
  BY <1>1, <1>5 DEF Dicts
<1>7. {g \in Fields : Arguments(p)[g] # UNSET} = DOMAIN p
  BY <1>1, <1>4 DEF Arguments
<1>8. \A f \in DOMAIN p : Arguments(p)[f] = Meaning(p)[f]
  BY <1>1 DEF Arguments
<1>9. BodyOf(p) = [f \in DOMAIN p |-> Meaning(p)[f]]
  BY <1>7, <1>8 DEF BodyOf
<1>10. BodyOf(p) = Meaning(p)
  BY <1>9 DEF Meaning
<1> QED
  BY <1>2, <1>6, <1>10

(***************************************************************************)
(* The inductive invariant                                                 *)
(***************************************************************************)

\* A request carries what the parameters of its call mean.
Faithful ==
    \A c \in Calls :
        /\ body[c] = Meaning(passed[c])
        /\ DOMAIN body[c] = DOMAIN passed[c]
        /\ \A f \in DOMAIN body[c] : body[c][f] \in TypeOf(f)

\* A call that was not sent has no parameters; a call has an answer when its
\* agent no longer waits.
Paced ==
    \A c \in Calls :
        /\ pc[c] \in {"new", "refused"} => DOMAIN body[c] = {}
        /\ pc[c] \in {"new", "sent", "echoed"} => answer[c] = "none"
        /\ pc[c] \in {"refused", "abandoned"} => answer[c] = "error"
        /\ pc[c] = "ended" => answer[c] \in {"ok", "error"}

\* The proxy drops what was sent; what it dropped is in the echo only when
\* the call's echo may be stale.
Echoed ==
    \A c \in Calls :
        /\ dropped[c] \subseteq DOMAIN body[c]
        /\ pc[c] = "echoed" /\ c \notin Stale => echo[c] \subseteq Columns \ dropped[c]

\* A call answered "ok" dropped no column that it covers, unless its echo
\* may be stale.
Vouched ==
    \A c \in Calls \ Stale : answer[c] = "ok" => dropped[c] \cap Covers[c] = {}

\* The request of c carries this for f.
Carries(c, f, value) == f \in DOMAIN body[c] /\ body[c][f] = value

\* What call c wrote to f is there, or what another call carries.
Stands(c, f) ==
    \/ row[f] = body[c][f]
    \/ \E other \in Calls \ {c} : Carries(other, f, row[f])

Written ==
    \A c \in Calls :
        pc[c] = "echoed" \/ answer[c] = "ok" =>
            \A f \in (Columns \cap DOMAIN body[c]) \ dropped[c] : Stands(c, f)

IInv == TypeOK /\ ColumnsTyped /\ Faithful /\ Paced /\ Echoed /\ Vouched /\ Written

\* What the agent asked for and what the request carries are the same.
LEMMA AskedIsCarried ==
    ASSUME Faithful, NEW c \in Calls
    PROVE  /\ DOMAIN Asked(c) = Columns \cap DOMAIN body[c]
           /\ \A f \in DOMAIN Asked(c) : Asked(c)[f] = body[c][f]
    BY DEF Faithful, Asked

LEMMA InitIInv == Init => IInv
<1> SUFFICES ASSUME Init PROVE IInv
  OBVIOUS
<1>1. Empty \in Dicts(Fields) /\ DOMAIN Empty = {} /\ Meaning(Empty) = Empty
  <2>1. Empty \in [{} -> Contents]
    BY DEF Empty, Contents
  <2>2. Empty \in Dicts(Fields)
    BY <2>1 DEF Dicts
  <2>3. Meaning(Empty) = Empty
    BY DEF Empty, Meaning
  <2> QED
    BY <2>2, <2>3 DEF Empty
<1>2. TypeOK
  BY <1>1 DEF Init, TypeOK
<1>3. ColumnsTyped
  BY DEF Init, ColumnsTyped
<1>4. Faithful /\ Paced /\ Echoed /\ Vouched /\ Written
  BY <1>1 DEF Init, Faithful, Paced, Echoed, Vouched, Written
<1> QED
  BY <1>2, <1>3, <1>4 DEF IInv

(***************************************************************************)
(* Every step preserves it, action by action                               *)
(***************************************************************************)

LEMMA SendStep ==
    ASSUME IInv, NEW c \in Calls, Send(c)
    PROVE  IInv'
<1> USE DEF IInv
<1>1. PICK p \in Dicts(Fields) :
        /\ Valid(p)
        /\ passed' = [passed EXCEPT ![c] = p]
        /\ body' = [body EXCEPT ![c] = BodyOf(p)]
  BY DEF Send
<1>2. /\ BodyOf(p) = Meaning(p) /\ Meaning(p) \in Dicts(Fields)
      /\ DOMAIN Meaning(p) = DOMAIN p
      /\ \A f \in DOMAIN p : Meaning(p)[f] \in TypeOf(f)
  BY <1>1, BodyIsMeaning
<1>3. /\ pc[c] = "new" /\ pc' = [pc EXCEPT ![c] = "sent"]
      /\ UNCHANGED <<row, dropped, echo, answer>>
  BY DEF Send, Goto
<1>4. answer[c] = "none" /\ DOMAIN body[c] = {}
  BY <1>3 DEF Paced
<1>5. TypeOK' /\ ColumnsTyped'
  BY <1>1, <1>2, <1>3 DEF TypeOK, ColumnsTyped
<1>6. Faithful'
  BY <1>1, <1>2 DEF Faithful, TypeOK
<1>7. Paced'
  BY <1>1, <1>3, <1>4 DEF Paced, TypeOK
<1>8. \A d \in Calls : d # c => body'[d] = body[d] /\ pc'[d] = pc[d]
  BY <1>1, <1>3 DEF TypeOK
<1>9. pc'[c] = "sent" /\ answer'[c] = "none" /\ body'[c] = Meaning(p)
  BY <1>1, <1>2, <1>3, <1>4 DEF TypeOK
<1>10. dropped[c] = {}
  BY <1>4 DEF Echoed
<1>11. Echoed'
  BY <1>3, <1>8, <1>9, <1>10 DEF Echoed
<1>12. Vouched'
  BY <1>3 DEF Vouched
<1>13. Written'
  <2> SUFFICES ASSUME NEW d \in Calls, pc'[d] = "echoed" \/ answer'[d] = "ok",
                      NEW f \in (Columns \cap DOMAIN body'[d]) \ dropped'[d]
               PROVE  Stands(d, f)'
    BY DEF Written
  <2>1. d # c
    BY <1>9
  <2>2. Stands(d, f)
    BY <1>3, <1>8, <2>1 DEF Written
  <2>3. CASE row[f] = body[d][f]
    BY <2>1, <2>3, <1>3, <1>8 DEF Stands
  <2>4. CASE \E other \in Calls \ {d} : Carries(other, f, row[f])
    <3>1. PICK other \in Calls \ {d} : Carries(other, f, row[f])
      BY <2>4
    <3>2. other # c
      BY <3>1, <1>4 DEF Carries
    <3> QED
      BY <3>1, <3>2, <1>3, <1>8 DEF Stands, Carries
  <2> QED
    BY <2>2, <2>3, <2>4 DEF Stands
<1> QED
  BY <1>5, <1>6, <1>7, <1>11, <1>12, <1>13

LEMMA ApplyStep ==
    ASSUME IInv, NEW c \in Calls, Apply(c)
    PROVE  IInv'
<1> USE DEF IInv
<1> DEFINE columns == Columns \cap DOMAIN body[c]
<1>2. PICK D \in SUBSET columns :
        /\ row' = [f \in Columns |-> IF f \in columns \ D THEN body[c][f] ELSE row[f]]
        /\ dropped' = [dropped EXCEPT ![c] = D]
        /\ \E missing \in SUBSET D :
             /\ c \in Stale \/ missing = D
             /\ echo' = [echo EXCEPT ![c] = Echoes[c] \ missing]
  BY DEF Apply
<1>3. PICK missing \in SUBSET D :
        /\ c \in Stale \/ missing = D
        /\ echo' = [echo EXCEPT ![c] = Echoes[c] \ missing]
  BY <1>2
<1>4. /\ pc[c] \in {"sent", "abandoned"}
      /\ pc' = [pc EXCEPT ![c] = IF pc[c] = "sent" THEN "echoed" ELSE "ended"]
      /\ UNCHANGED <<passed, body, answer>>
  BY DEF Apply, Goto
<1>5. answer[c] = IF pc[c] = "sent" THEN "none" ELSE "error"
  BY <1>4 DEF Paced
<1>6. \A f \in columns : body[c][f] \in Contents /\ body[c][f] \in TypeOf(f)
  <2>1. PICK E \in SUBSET Fields : body[c] \in [E -> Contents]
    BY DEF TypeOK, Dicts
  <2> QED
    BY <2>1 DEF Faithful
<1>7. TypeOK' /\ ColumnsTyped'
  <2>1. row' \in [Columns -> Contents]
    BY <1>2, <1>6 DEF TypeOK
  <2>2. ColumnsTyped'
    BY <1>2, <1>6 DEF ColumnsTyped
  <2>3. Echoes[c] \subseteq Columns
    BY RowAssumption DEF Columns
  <2> QED
    BY <2>1, <2>2, <2>3, <1>2, <1>3, <1>4 DEF TypeOK
<1>8. Faithful' /\ Paced'
  <2>1. Faithful'
    BY <1>4 DEF Faithful
  <2> QED
    BY <2>1, <1>4, <1>5 DEF Paced, TypeOK
<1>9. Echoed'
  <2>1. Echoes[c] \subseteq Columns
    BY RowAssumption DEF Columns
  <2> QED
    BY <2>1, <1>2, <1>3, <1>4 DEF Echoed, TypeOK
<1>10. Vouched'
  BY <1>2, <1>4, <1>5 DEF Vouched, TypeOK
<1>11. Written'
  <2> SUFFICES ASSUME NEW d \in Calls, pc'[d] = "echoed" \/ answer'[d] = "ok",
                      NEW f \in (Columns \cap DOMAIN body[d]) \ dropped'[d]
               PROVE  Stands(d, f)'
    BY <1>4 DEF Written
  <2>1. CASE d = c
    BY <2>1, <1>2, <1>4 DEF Stands, TypeOK
  <2>2. CASE d # c
    <3>1. Stands(d, f)
      BY <2>2, <1>2, <1>4 DEF Written, TypeOK
    <3>2. CASE f \in columns \ D
      <4>1. row'[f] = body[c][f] /\ f \in DOMAIN body[c]
        BY <3>2, <1>2
      <4> QED
        BY <4>1, <2>2, <1>4 DEF Stands, Carries
    <3>3. CASE f \notin columns \ D
      BY <3>1, <3>3, <1>2, <1>4 DEF Stands, Carries
    <3> QED
      BY <3>2, <3>3
  <2> QED
    BY <2>1, <2>2
<1> QED
  BY <1>7, <1>8, <1>9, <1>10, <1>11

LEMMA VerifyStep ==
    ASSUME IInv, NEW c \in Calls, Verify(c)
    PROVE  IInv'
<1> USE DEF IInv
<1>1. /\ pc[c] = "echoed" /\ pc' = [pc EXCEPT ![c] = "ended"]
      /\ UNCHANGED <<passed, body, row, dropped, echo>>
      /\ answer' = [answer EXCEPT ![c] =
                        IF Verified(c) \subseteq echo[c] THEN "ok" ELSE "error"]
  BY DEF Verify, Goto
<1>2. TypeOK' /\ ColumnsTyped' /\ Faithful' /\ Paced' /\ Echoed'
  BY <1>1 DEF TypeOK, ColumnsTyped, Faithful, Paced, Echoed
<1>3. Vouched'
  <2> SUFFICES ASSUME NEW d \in Calls \ Stale, answer'[d] = "ok"
               PROVE  dropped[d] \cap Covers[d] = {}
    BY <1>1 DEF Vouched
  <2>1. CASE d # c
    BY <2>1, <1>1 DEF Vouched, TypeOK
  <2>2. CASE d = c
    <3>1. Covers[c] \cap DOMAIN body[c] \subseteq Columns \ dropped[c]
      BY <2>2, <1>1 DEF Verified, Echoed, TypeOK
    <3>2. dropped[c] \subseteq DOMAIN body[c]
      BY DEF Echoed
    <3> QED
      BY <2>2, <3>1, <3>2
  <2> QED
    BY <2>1, <2>2
<1>4. Written'
  BY <1>1 DEF Written, Stands, Carries, TypeOK
<1> QED
  BY <1>2, <1>3, <1>4

LEMMA OtherSteps ==
    ASSUME IInv, UNCHANGED vars \/ (\E c \in Calls : Reject(c) \/ Fail(c))
    PROVE  IInv'
<1> USE DEF IInv
<1>1. CASE UNCHANGED vars
  BY <1>1 DEF vars, TypeOK, ColumnsTyped, Faithful, Paced, Echoed, Vouched, Written, Stands, Carries
<1>2. ASSUME NEW c \in Calls, Reject(c) \/ Fail(c) PROVE IInv'
  <2>1. /\ \/ pc[c] = "new" /\ pc' = [pc EXCEPT ![c] = "refused"]
           \/ pc[c] = "sent" /\ pc' = [pc EXCEPT ![c] = "abandoned"]
           \/ pc[c] = "echoed" /\ pc' = [pc EXCEPT ![c] = "ended"]
        /\ answer' = [answer EXCEPT ![c] = "error"]
        /\ UNCHANGED <<passed, body, row, dropped, echo>>
    BY <1>2 DEF Reject, Fail, Goto
  <2>2. TypeOK' /\ ColumnsTyped' /\ Faithful' /\ Paced' /\ Echoed'
    BY <2>1 DEF TypeOK, ColumnsTyped, Faithful, Paced, Echoed
  <2>3. Vouched' /\ Written'
    BY <2>1 DEF Vouched, Written, Stands, Carries, TypeOK
  <2> QED
    BY <2>2, <2>3
<1> QED
  BY <1>1, <1>2

LEMMA NextIInv == IInv /\ [Next]_vars => IInv'
BY SendStep, ApplyStep, VerifyStep, OtherSteps DEF Next, Ended

THEOREM Invariance == Spec => []IInv
BY InitIInv, NextIInv, PTL DEF Spec

(***************************************************************************)
(* The theorems                                                            *)
(***************************************************************************)

\* Types are kept: no UNSET reaches a body.
THEOREM TypeCorrect == Spec => []TypeOK
<1>1. IInv => TypeOK
  BY DEF IInv
<1> QED
  BY <1>1, Invariance, PTL

\* Whatever agents pass, a column holds values of its field's annotation.
THEOREM ColumnsTypedThm == Spec => []ColumnsTyped
<1>1. IInv => ColumnsTyped
  BY DEF IInv
<1> QED
  BY <1>1, Invariance, PTL

\* What a call passed, verified and was answered "ok" for stays in the row
\* until another call that passed the same column overwrites it, provided
\* that its echo held no dropped column.
THEOREM UpdatesComposeThm == Spec => []UpdatesCompose
<1>1. IInv => UpdatesCompose
  <2> SUFFICES ASSUME IInv, NEW c \in Calls \ Stale, answer[c] = "ok",
                      NEW f \in Covers[c] \cap DOMAIN Asked(c)
               PROVE  \/ row[f] = Asked(c)[f]
                      \/ \E other \in Calls \ {c} : Asks(other, f, row[f])
    BY DEF UpdatesCompose
  <2>1. \A d \in Calls : /\ DOMAIN Asked(d) = Columns \cap DOMAIN body[d]
                         /\ \A g \in DOMAIN Asked(d) : Asked(d)[g] = body[d][g]
    BY AskedIsCarried DEF IInv
  <2>2. f \notin dropped[c]
    BY DEF IInv, Vouched
  <2>3. Stands(c, f)
    BY <2>1, <2>2 DEF IInv, Written
  <2> QED
    BY <2>1, <2>3 DEF Stands, Carries, Asks
<1> QED
  BY <1>1, Invariance, PTL

\* A call answered "ok" wrote every column that its operation verifies,
\* provided that its echo held no dropped column.
THEOREM DropNoticedThm == Spec => []DropNoticed
<1>1. IInv => DropNoticed
  BY DEF IInv, Vouched, DropNoticed
<1> QED
  BY <1>1, Invariance, PTL

\* A column changes only to what a call that was sent asked for it.
THEOREM OmittedUntouchedThm == Spec => OmittedUntouched
<1> DEFINE Step ==
        \A f \in Columns : row'[f] # row[f] =>
            \E c \in Calls : pc[c] \in {"sent", "abandoned"} /\ Asks(c, f, row'[f])
<1>1. IInv /\ [Next]_vars => [Step]_vars
  <2> SUFFICES ASSUME IInv, [Next]_vars, NEW f \in Columns, row'[f] # row[f]
               PROVE  \E c \in Calls : pc[c] \in {"sent", "abandoned"} /\ Asks(c, f, row'[f])
    OBVIOUS
  <2>1. PICK c \in Calls : Apply(c)
    BY DEF Next, Ended, vars, Reject, Send, Verify, Fail
  <2>2. /\ DOMAIN Asked(c) = Columns \cap DOMAIN body[c]
        /\ \A g \in DOMAIN Asked(c) : Asked(c)[g] = body[c][g]
    BY AskedIsCarried DEF IInv
  <2>3. /\ pc[c] \in {"sent", "abandoned"}
        /\ f \in DOMAIN body[c] /\ row'[f] = body[c][f]
    BY <2>1 DEF Apply
  <2> QED
    BY <2>2, <2>3 DEF Asks
<1> QED
  BY <1>1, Invariance, PTL DEF Spec, OmittedUntouched

(***************************************************************************)
(* Operations on a row keep the contract                                   *)
(***************************************************************************)

LEMMA ContractInit == Init => Contract!Init
<1> SUFFICES ASSUME Init PROVE Contract!Init
  OBVIOUS
<1>1. \A c \in Calls : DOMAIN Asked(c) = {}
  BY DEF Init, Asked, Empty
<1>2. AgentStatus = [c \in Calls |-> "idle"]
  BY DEF Init, AgentStatus
<1>3. row \in [Columns -> Contents]
  BY InitIInv DEF IInv, TypeOK
<1> QED
  BY <1>1, <1>2, <1>3 DEF Init, Contract!Init

\* One call moves: the parameters and the answers of the others stay.
LEMMA ContractSend ==
    ASSUME IInv, IInv', NEW c \in Calls, Send(c)
    PROVE  Contract!Ask(c)
<1>1. PICK p \in Dicts(Fields) : passed' = [passed EXCEPT ![c] = p]
  BY DEF Send
<1>2. /\ pc[c] = "new" /\ pc' = [pc EXCEPT ![c] = "sent"]
      /\ UNCHANGED <<row, dropped, echo, answer>>
  BY DEF Send, Goto
<1>3. pc \in [Calls -> {"new", "refused", "sent", "abandoned", "echoed", "ended"}]
  BY DEF IInv, TypeOK
<1>4. answer[c] = "none"
  BY <1>2 DEF IInv, Paced
<1>5. \A d \in Calls \ {c} : Asked(d)' = Asked(d)
  BY <1>1 DEF Asked, IInv, TypeOK
<1>6. [d \in Calls |-> Asked(d)]' = [[d \in Calls |-> Asked(d)] EXCEPT ![c] = Asked(c)']
  BY <1>5
<1>7. Asked(c)' \in Contract!Updates
  <2>1. DOMAIN Asked(c)' = Columns \cap DOMAIN body'[c]
    BY DEF Asked, IInv, Faithful
  <2>2. PICK E \in SUBSET Fields : body'[c] \in [E -> Contents]
    BY DEF IInv, TypeOK, Dicts
  <2>3. \A f \in DOMAIN Asked(c)' : Asked(c)'[f] = body'[c][f]
    BY DEF Asked, IInv, Faithful
  <2>4. Asked(c)' \in [DOMAIN Asked(c)' -> Contents]
    <3>1. \A f \in DOMAIN Asked(c)' : Asked(c)'[f] \in Contents
      BY <2>1, <2>2, <2>3
    <3> QED
      BY <3>1 DEF Asked
  <2> QED
    BY <2>1, <2>4 DEF Contract!Updates
<1>8. AgentStatus[c] = "idle" /\ AgentStatus' = [AgentStatus EXCEPT ![c] = "open"]
  BY <1>2, <1>3, <1>4 DEF AgentStatus
<1>9. {d \in Calls : pc[d] \in {"echoed", "ended"}}' = {d \in Calls : pc[d] \in {"echoed", "ended"}}
  BY <1>2, <1>3
<1>10. [d \in Calls |-> IF pc[d] \in {"echoed", "ended"} THEN DOMAIN Asked(d) \ dropped[d] ELSE {}]'
         = [d \in Calls |-> IF pc[d] \in {"echoed", "ended"} THEN DOMAIN Asked(d) \ dropped[d] ELSE {}]
  BY <1>2, <1>3, <1>5
<1> QED
  BY <1>2, <1>6, <1>7, <1>8, <1>9, <1>10 DEF Contract!Ask

LEMMA ContractApply ==
    ASSUME IInv, NEW c \in Calls, Apply(c)
    PROVE  Contract!Update(c)
<1> DEFINE columns == Columns \cap DOMAIN body[c]
<1>1. PICK D \in SUBSET columns :
        /\ row' = [f \in Columns |-> IF f \in columns \ D THEN body[c][f] ELSE row[f]]
        /\ dropped' = [dropped EXCEPT ![c] = D]
  BY DEF Apply
<1>2. /\ pc[c] \in {"sent", "abandoned"}
      /\ pc' = [pc EXCEPT ![c] = IF pc[c] = "sent" THEN "echoed" ELSE "ended"]
      /\ UNCHANGED <<passed, body, answer>>
  BY DEF Apply, Goto
<1>3. /\ pc \in [Calls -> {"new", "refused", "sent", "abandoned", "echoed", "ended"}]
      /\ dropped \in [Calls -> SUBSET Columns]
  BY DEF IInv, TypeOK
<1>4. /\ pc[c] = "sent" => answer[c] = "none"
      /\ pc[c] = "abandoned" => answer[c] = "error"
  BY DEF IInv, Paced
<1>5. \A d \in Calls : Asked(d)' = Asked(d)
  BY <1>2 DEF Asked
<1>6. DOMAIN Asked(c) = columns /\ \A f \in columns : Asked(c)[f] = body[c][f]
  BY AskedIsCarried DEF IInv
<1>7. AgentStatus[c] \in {"open", "error"} /\ AgentStatus' = AgentStatus
  BY <1>2, <1>3, <1>4 DEF AgentStatus
<1>8. c \notin {d \in Calls : pc[d] \in {"echoed", "ended"}}
  BY <1>2
<1>9. {d \in Calls : pc[d] \in {"echoed", "ended"}}'
        = {d \in Calls : pc[d] \in {"echoed", "ended"}} \cup {c}
  BY <1>2, <1>3
<1>10. row' = [f \in Columns |->
                  IF f \in columns \ D THEN [d \in Calls |-> Asked(d)][c][f] ELSE row[f]]
  BY <1>1, <1>6
<1>11. [d \in Calls |-> IF pc[d] \in {"echoed", "ended"} THEN DOMAIN Asked(d) \ dropped[d] ELSE {}]'
         = [[d \in Calls |-> IF pc[d] \in {"echoed", "ended"} THEN DOMAIN Asked(d) \ dropped[d] ELSE {}]
                EXCEPT ![c] = columns \ D]
  BY <1>1, <1>2, <1>3, <1>5, <1>6
<1>12. columns \ D \in SUBSET DOMAIN [d \in Calls |-> Asked(d)][c]
  BY <1>6
<1>13. [d \in Calls |-> Asked(d)]' = [d \in Calls |-> Asked(d)]
  BY <1>5
<1> HIDE DEF columns
<1> QED
  BY <1>7, <1>8, <1>9, <1>10, <1>11, <1>12, <1>13 DEF Contract!Update

\* Verify and Fail answer a call; the row and what was written stay.
LEMMA ContractAnswer ==
    ASSUME IInv, IInv', NEW c \in Calls, Verify(c) \/ Fail(c) \/ Reject(c)
    PROVE  Contract!Succeed(c) \/ Contract!Fail(c)
<1>1. /\ UNCHANGED <<passed, body, row, dropped, echo>>
      /\ \/ pc[c] = "new" /\ pc' = [pc EXCEPT ![c] = "refused"]
         \/ pc[c] = "sent" /\ pc' = [pc EXCEPT ![c] = "abandoned"]
         \/ pc[c] = "echoed" /\ pc' = [pc EXCEPT ![c] = "ended"]
  BY DEF Verify, Fail, Reject, Goto
<1>2. /\ pc \in [Calls -> {"new", "refused", "sent", "abandoned", "echoed", "ended"}]
      /\ answer \in [Calls -> {"none", "ok", "error"}]
  BY DEF IInv, TypeOK
<1>3. PICK a \in {"ok", "error"} :
        answer' = [answer EXCEPT ![c] = a] /\ (a = "ok" => pc[c] = "echoed")
  BY DEF Verify, Fail, Reject
<1>4. answer[c] = "none"
  BY <1>1 DEF IInv, Paced
<1>5. \A d \in Calls : Asked(d)' = Asked(d)
  BY <1>1 DEF Asked
<1>6. [d \in Calls |-> Asked(d)]' = [d \in Calls |-> Asked(d)]
  BY <1>5
<1>7. {d \in Calls : pc[d] \in {"echoed", "ended"}}' = {d \in Calls : pc[d] \in {"echoed", "ended"}}
  BY <1>1, <1>2
<1>8. [d \in Calls |-> IF pc[d] \in {"echoed", "ended"} THEN DOMAIN Asked(d) \ dropped[d] ELSE {}]'
        = [d \in Calls |-> IF pc[d] \in {"echoed", "ended"} THEN DOMAIN Asked(d) \ dropped[d] ELSE {}]
  BY <1>1, <1>2, <1>5
<1>9. /\ AgentStatus[c] \in {"idle", "open"} /\ (pc[c] # "new" => AgentStatus[c] = "open")
      /\ AgentStatus' = [AgentStatus EXCEPT ![c] = a]
  BY <1>1, <1>2, <1>3, <1>4 DEF AgentStatus
<1>10. CASE a = "error"
  BY <1>1, <1>6, <1>7, <1>8, <1>9, <1>10 DEF Contract!Fail
<1>11. CASE a = "ok"
  <2>1. pc[c] = "echoed" /\ AgentStatus[c] = "open"
    BY <1>3, <1>9, <1>11
  <2>2. ASSUME c \notin Stale
        PROVE  Covers[c] \cap DOMAIN Asked(c) \subseteq DOMAIN Asked(c) \ dropped[c]
    <3>1. dropped'[c] \cap Covers[c] = {}
      BY <1>2, <1>3, <1>11, <2>2 DEF IInv, Vouched
    <3> QED
      BY <3>1, <1>1
  <2>3. (IF c \in Stale THEN {} ELSE Covers[c]) \cap DOMAIN Asked(c)
            \subseteq DOMAIN Asked(c) \ dropped[c]
    BY <2>2
  <2>4. /\ c \in {d \in Calls : pc[d] \in {"echoed", "ended"}}
        /\ [d \in Calls |-> IF d \in Stale THEN {} ELSE Covers[d]][c]
             \cap DOMAIN [d \in Calls |-> Asked(d)][c]
           \subseteq [d \in Calls |-> IF pc[d] \in {"echoed", "ended"}
                                      THEN DOMAIN Asked(d) \ dropped[d] ELSE {}][c]
    BY <2>1, <2>3
  <2> QED
    BY <1>1, <1>6, <1>7, <1>8, <1>9, <1>11, <2>1, <2>4 DEF Contract!Succeed
<1> QED
  BY <1>10, <1>11

LEMMA ContractStep ==
    ASSUME IInv, IInv', [Next]_vars
    PROVE  [Contract!Next]_(Contract!rvars)
<1>1. ASSUME NEW c \in Calls, Reject(c) \/ Send(c) \/ Apply(c) \/ Verify(c) \/ Fail(c)
      PROVE  Contract!Next
  BY <1>1, ContractSend, ContractApply, ContractAnswer DEF Contract!Next
<1>2. CASE UNCHANGED vars
  <2>1. \A d \in Calls : Asked(d)' = Asked(d)
    BY <1>2 DEF vars, Asked
  <2> QED
    BY <1>2, <2>1 DEF vars, Contract!rvars, AgentStatus
<1> QED
  BY <1>1, <1>2 DEF Next, Ended

\* A column changes only to what one call asked for it, in one step with the
\* other columns of that call and at most once; "ok" vouches for what the
\* operation verifies.
THEOREM KeepsRowContractThm == Spec => KeepsRowContract
<1>1. IInv /\ IInv' /\ [Next]_vars => [Contract!Next]_(Contract!rvars)
  BY ContractStep
<1> QED
  BY <1>1, ContractInit, Invariance, PTL DEF Spec, KeepsRowContract, Contract!Spec
=============================================================================
