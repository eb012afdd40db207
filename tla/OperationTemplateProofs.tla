----------------------- MODULE OperationTemplateProofs -----------------------
(***************************************************************************)
(* The generator's template, for every endpoint and every set of names:    *)
(* what it accepts runs, and its requests are the ones the endpoint wants. *)
(***************************************************************************)
EXTENDS OperationTemplate, TLAPS

Ops == {o \in Endpoints : WellFormed(o)}

\* What the proofs need to know of an operation of the snapshot.
LEMMA OpsTyped ==
    ASSUME NEW o \in Ops
    PROVE  /\ o.path \subseteq PathNames /\ o.path \subseteq Names
           /\ o.body \in {"none", "fields", "map"}
           /\ o.fields \subseteq Names
           /\ o.query \subseteq Names
           /\ o.disposition \in {"serialize", "exempt", "missing"}
           /\ o.body # "fields" => o.fields = {}
           /\ o.fieldsRequired \subseteq o.fields
           /\ o.body # "map" => ~o.mapRequired
           /\ o.queryRequired \subseteq o.query
BY DEF Ops, Endpoints, WellFormed, Names

-----------------------------------------------------------------------------
(***************************************************************************)
(* Names of parameters, piece by piece                                     *)
(***************************************************************************)

LEMMA ParamIs ==
    ASSUME NEW k, NEW S, NEW R, NEW p \in Param(k, S, R)
    PROVE  p.name \in S /\ p = [name |-> p.name, kind |-> k, required |-> p.name \in R]
BY DEF Param

LEMMA ParamHas ==
    ASSUME NEW k, NEW S, NEW R, NEW n \in S
    PROVE  [name |-> n, kind |-> k, required |-> n \in R] \in Param(k, S, R)
BY DEF Param

LEMMA ParamNames ==
    ASSUME NEW k, NEW S, NEW R
    PROVE  NamesOf(Param(k, S, R)) = S
<1>1. ASSUME NEW n \in NamesOf(Param(k, S, R)) PROVE n \in S
  <2>1. PICK p \in Param(k, S, R) : n = p.name
    BY DEF NamesOf
  <2> QED
    BY <2>1, ParamIs
<1>2. ASSUME NEW n \in S PROVE n \in NamesOf(Param(k, S, R))
  <2>1. PICK p \in Param(k, S, R) : p = [name |-> n, kind |-> k, required |-> n \in R]
    BY ParamHas
  <2> QED
    BY <2>1 DEF NamesOf
<1> QED
  BY <1>1, <1>2

LEMMA ParamOfKind ==
    ASSUME NEW k, NEW S, NEW R, NEW kinds
    PROVE  OfKind(Param(k, S, R), kinds) = IF k \in kinds THEN S ELSE {}
<1>1. ASSUME NEW n \in OfKind(Param(k, S, R), kinds) PROVE n \in S /\ k \in kinds
  <2>1. PICK p \in Param(k, S, R) : n = p.name /\ p.kind \in kinds
    BY DEF OfKind
  <2>2. p.name \in S /\ p = [name |-> p.name, kind |-> k, required |-> p.name \in R]
    BY ParamIs
  <2>3. p.kind = k
    BY <2>2
  <2> QED
    BY <2>1, <2>2, <2>3
<1>2. ASSUME NEW n \in S, k \in kinds PROVE n \in OfKind(Param(k, S, R), kinds)
  <2>1. PICK p \in Param(k, S, R) : p = [name |-> n, kind |-> k, required |-> n \in R]
    BY ParamHas
  <2>2. p.name = n /\ p.kind = k
    BY <2>1
  <2> QED
    BY <1>2, <2>2 DEF OfKind
<1> QED
  BY <1>1, <1>2

LEMMA ParamRequired ==
    ASSUME NEW k, NEW S, NEW R
    PROVE  Required(Param(k, S, R)) = S \cap R
<1>1. ASSUME NEW n \in Required(Param(k, S, R)) PROVE n \in S \cap R
  <2>1. PICK p \in Param(k, S, R) : n = p.name /\ p.required
    BY DEF Required
  <2>2. p.name \in S /\ p = [name |-> p.name, kind |-> k, required |-> p.name \in R]
    BY ParamIs
  <2>3. p.required = (p.name \in R)
    BY <2>2
  <2> QED
    BY <2>1, <2>2, <2>3
<1>2. ASSUME NEW n \in S \cap R PROVE n \in Required(Param(k, S, R))
  <2>1. PICK p \in Param(k, S, R) : p = [name |-> n, kind |-> k, required |-> n \in R]
    BY ParamHas
  <2>2. p.name = n /\ p.required
    BY <2>1
  <2> QED
    BY <2>2 DEF Required
<1> QED
  BY <1>1, <1>2

LEMMA NamesOfUnion ==
    ASSUME NEW X, NEW Y
    PROVE  NamesOf(X \cup Y) = NamesOf(X) \cup NamesOf(Y)
BY DEF NamesOf

LEMMA OfKindUnion ==
    ASSUME NEW X, NEW Y, NEW kinds
    PROVE  OfKind(X \cup Y, kinds) = OfKind(X, kinds) \cup OfKind(Y, kinds)
BY DEF OfKind

LEMMA RequiredUnion ==
    ASSUME NEW X, NEW Y
    PROVE  Required(X \cup Y) = Required(X) \cup Required(Y)
BY DEF Required

-----------------------------------------------------------------------------
(***************************************************************************)
(* The parameters that are collected                                       *)
(***************************************************************************)

\* The names in the path that go into the body, too.
Both(o) == IF o.disposition = "serialize" THEN o.path \cap o.fields ELSE {}

\* The name of an opaque body.
Map(o) == IF o.body = "map" THEN {"body"} ELSE {}

\* The names that are taken before the query is looked at.
Taken(o) == o.path \cup o.fields \cup Map(o)

MapRequired(o) == IF o.mapRequired THEN {"body"} ELSE {}

LEMMA PathIs ==
    ASSUME NEW o \in Ops
    PROVE  PathParams(o) = Param("path", o.path \ Both(o), Names)
                             \cup Param("path_body", Both(o), Names)
<1>1. (IF o.disposition = "serialize" THEN o.path \ Collisions(o) ELSE o.path) = o.path \ Both(o)
  BY DEF Both, Collisions
<1>2. (IF o.disposition = "serialize" THEN Collisions(o) ELSE {}) = Both(o)
  BY DEF Both, Collisions
<1> QED
  BY <1>1, <1>2 DEF PathParams

LEMMA EmptyParam == \A k, R : Param(k, {}, R) = {}
BY DEF Param

LEMMA BodyIs ==
    ASSUME NEW o \in Ops
    PROVE  BodyParams(o) = Param("body", o.fields \ o.path, o.fieldsRequired)
                             \cup Param("opaque", Map(o), MapRequired(o))
<1>1. CASE o.body = "fields"
  <2>1. Map(o) = {} /\ BodyParams(o) = Param("body", o.fields \ o.path, o.fieldsRequired)
    BY <1>1 DEF BodyParams, Map
  <2> QED
    BY <2>1, EmptyParam
<1>2. CASE o.body = "map"
  <2>1. o.fields \ o.path = {} /\ Map(o) = {"body"}
    BY <1>2, OpsTyped DEF Map
  <2>2. BodyParams(o) = Param("opaque", {"body"}, MapRequired(o))
    BY <1>2 DEF BodyParams, MapRequired
  <2> QED
    BY <2>1, <2>2, EmptyParam
<1>3. CASE o.body = "none"
  <2>1. o.fields \ o.path = {} /\ Map(o) = {} /\ BodyParams(o) = {}
    BY <1>3, OpsTyped DEF BodyParams, Map
  <2> QED
    BY <2>1, EmptyParam
<1> QED
  BY <1>1, <1>2, <1>3, OpsTyped

\* The five pieces.
LEMMA CollectedIs ==
    ASSUME NEW o \in Ops
    PROVE  Collected(o) =
             ((Param("path", o.path \ Both(o), Names) \cup Param("path_body", Both(o), Names))
                \cup (Param("body", o.fields \ o.path, o.fieldsRequired)
                        \cup Param("opaque", Map(o), MapRequired(o))))
             \cup Param("query", o.query \ Taken(o), o.queryRequired)
<1>1. NamesOf(PathParams(o) \cup BodyParams(o)) =
        ((o.path \ Both(o)) \cup Both(o)) \cup ((o.fields \ o.path) \cup Map(o))
  <2> DEFINE A == Param("path", o.path \ Both(o), Names)
             B == Param("path_body", Both(o), Names)
             C == Param("body", o.fields \ o.path, o.fieldsRequired)
             D == Param("opaque", Map(o), MapRequired(o))
  <2>1. PathParams(o) = A \cup B /\ BodyParams(o) = C \cup D
    BY PathIs, BodyIs
  <2>2. /\ NamesOf(A) = o.path \ Both(o) /\ NamesOf(B) = Both(o)
        /\ NamesOf(C) = o.fields \ o.path /\ NamesOf(D) = Map(o)
    BY ParamNames
  <2> HIDE DEF A, B, C, D
  <2>3. NamesOf(A \cup B) = NamesOf(A) \cup NamesOf(B)
    BY NamesOfUnion
  <2>4. NamesOf(C \cup D) = NamesOf(C) \cup NamesOf(D)
    BY NamesOfUnion
  <2>5. NamesOf((A \cup B) \cup (C \cup D)) = NamesOf(A \cup B) \cup NamesOf(C \cup D)
    BY NamesOfUnion
  <2> QED
    BY <2>1, <2>2, <2>3, <2>4, <2>5, Zenon
<1>2. NamesOf(PathParams(o) \cup BodyParams(o)) = Taken(o)
  BY <1>1 DEF Taken, Both
<1>3. Collected(o) = (PathParams(o) \cup BodyParams(o))
                       \cup Param("query", o.query \ Taken(o), o.queryRequired)
  BY <1>2 DEF Collected
<1> QED
  BY <1>3, PathIs, BodyIs

\* Their names, those of each kind, and the required ones.
LEMMA NamesByKind ==
    ASSUME NEW o \in Ops
    PROVE  /\ NamesOf(Collected(o)) = Taken(o) \cup o.query
           /\ OfKind(Collected(o), {"path", "path_body"}) = o.path
           /\ OfKind(Collected(o), {"query"}) = o.query \ Taken(o)
           /\ BodyNames(Collected(o)) = (o.fields \ o.path) \cup Both(o)
           /\ OfKind(Collected(o), {"body", "query"}) = (o.fields \ o.path) \cup (o.query \ Taken(o))
           /\ Opaque(Collected(o)) <=> o.body = "map"
           /\ Required(Collected(o)) =
                o.path \cup (o.fieldsRequired \ o.path) \cup (Map(o) \cap MapRequired(o))
                  \cup (o.queryRequired \ Taken(o))
<1> DEFINE A == Param("path", o.path \ Both(o), Names)
           B == Param("path_body", Both(o), Names)
           C == Param("body", o.fields \ o.path, o.fieldsRequired)
           D == Param("opaque", Map(o), MapRequired(o))
           E == Param("query", o.query \ Taken(o), o.queryRequired)
<1>1. Both(o) \subseteq o.path
  BY DEF Both
<1>a. Collected(o) = ((A \cup B) \cup (C \cup D)) \cup E
  BY CollectedIs
<1>b. /\ NamesOf(A) = o.path \ Both(o) /\ NamesOf(B) = Both(o)
      /\ NamesOf(C) = o.fields \ o.path /\ NamesOf(D) = Map(o)
      /\ NamesOf(E) = o.query \ Taken(o)
  BY ParamNames
<1>c. \A kinds : /\ OfKind(A, kinds) = IF "path" \in kinds THEN o.path \ Both(o) ELSE {}
                 /\ OfKind(B, kinds) = IF "path_body" \in kinds THEN Both(o) ELSE {}
                 /\ OfKind(C, kinds) = IF "body" \in kinds THEN o.fields \ o.path ELSE {}
                 /\ OfKind(D, kinds) = IF "opaque" \in kinds THEN Map(o) ELSE {}
                 /\ OfKind(E, kinds) = IF "query" \in kinds THEN o.query \ Taken(o) ELSE {}
  BY ParamOfKind
<1>d. /\ Required(A) = (o.path \ Both(o)) \cap Names /\ Required(B) = Both(o) \cap Names
      /\ Required(C) = (o.fields \ o.path) \cap o.fieldsRequired
      /\ Required(D) = Map(o) \cap MapRequired(o)
      /\ Required(E) = (o.query \ Taken(o)) \cap o.queryRequired
  BY ParamRequired
<1> HIDE DEF A, B, C, D, E
<1>2. NamesOf(Collected(o)) =
        (((o.path \ Both(o)) \cup Both(o)) \cup ((o.fields \ o.path) \cup Map(o)))
          \cup (o.query \ Taken(o))
  <2>1. NamesOf(A \cup B) = NamesOf(A) \cup NamesOf(B)
    BY NamesOfUnion
  <2>2. NamesOf(C \cup D) = NamesOf(C) \cup NamesOf(D)
    BY NamesOfUnion
  <2>3. NamesOf((A \cup B) \cup (C \cup D)) = NamesOf(A \cup B) \cup NamesOf(C \cup D)
    BY NamesOfUnion
  <2>4. NamesOf(((A \cup B) \cup (C \cup D)) \cup E) = NamesOf((A \cup B) \cup (C \cup D)) \cup NamesOf(E)
    BY NamesOfUnion
  <2> QED
    BY <1>a, <1>b, <2>1, <2>2, <2>3, <2>4, Zenon
<1>e. ASSUME NEW kinds
      PROVE  OfKind(Collected(o), kinds) =
               ((OfKind(A, kinds) \cup OfKind(B, kinds)) \cup (OfKind(C, kinds) \cup OfKind(D, kinds)))
                 \cup OfKind(E, kinds)
  <2>1. OfKind(A \cup B, kinds) = OfKind(A, kinds) \cup OfKind(B, kinds)
    BY OfKindUnion
  <2>2. OfKind(C \cup D, kinds) = OfKind(C, kinds) \cup OfKind(D, kinds)
    BY OfKindUnion
  <2>3. OfKind((A \cup B) \cup (C \cup D), kinds) = OfKind(A \cup B, kinds) \cup OfKind(C \cup D, kinds)
    BY OfKindUnion
  <2>4. OfKind(((A \cup B) \cup (C \cup D)) \cup E, kinds) = OfKind((A \cup B) \cup (C \cup D), kinds) \cup OfKind(E, kinds)
    BY OfKindUnion
  <2> QED
    BY <1>a, <2>1, <2>2, <2>3, <2>4, Zenon
<1>3. OfKind(Collected(o), {"path", "path_body"}) = (o.path \ Both(o)) \cup Both(o)
  BY <1>c, <1>e
<1>4. OfKind(Collected(o), {"query"}) = o.query \ Taken(o)
  BY <1>c, <1>e
<1>5. OfKind(Collected(o), {"body", "path_body"}) = Both(o) \cup (o.fields \ o.path)
  BY <1>c, <1>e
<1>6. OfKind(Collected(o), {"body", "query"}) = (o.fields \ o.path) \cup (o.query \ Taken(o))
  BY <1>c, <1>e
<1>7. OfKind(Collected(o), {"opaque"}) = Map(o)
  <2>1. /\ OfKind(A, {"opaque"}) = {} /\ OfKind(B, {"opaque"}) = {} /\ OfKind(C, {"opaque"}) = {}
        /\ OfKind(D, {"opaque"}) = Map(o) /\ OfKind(E, {"opaque"}) = {}
    BY <1>c
  <2>2. OfKind(Collected(o), {"opaque"}) =
          ((OfKind(A, {"opaque"}) \cup OfKind(B, {"opaque"}))
             \cup (OfKind(C, {"opaque"}) \cup OfKind(D, {"opaque"})))
            \cup OfKind(E, {"opaque"})
    BY <1>e, Zenon
  <2> QED
    BY <2>1, <2>2
<1>8. Required(Collected(o)) =
        ((((o.path \ Both(o)) \cap Names) \cup (Both(o) \cap Names))
           \cup (((o.fields \ o.path) \cap o.fieldsRequired) \cup (Map(o) \cap MapRequired(o))))
          \cup ((o.query \ Taken(o)) \cap o.queryRequired)
  <2>1. Required(A \cup B) = Required(A) \cup Required(B)
    BY RequiredUnion
  <2>2. Required(C \cup D) = Required(C) \cup Required(D)
    BY RequiredUnion
  <2>3. Required((A \cup B) \cup (C \cup D)) = Required(A \cup B) \cup Required(C \cup D)
    BY RequiredUnion
  <2>4. Required(((A \cup B) \cup (C \cup D)) \cup E) = Required((A \cup B) \cup (C \cup D)) \cup Required(E)
    BY RequiredUnion
  <2> QED
    BY <1>a, <1>d, <2>1, <2>2, <2>3, <2>4, Zenon
<1>9. NamesOf(Collected(o)) = Taken(o) \cup o.query
  BY <1>1, <1>2 DEF Taken
<1>10. Required(Collected(o)) =
         o.path \cup (o.fieldsRequired \ o.path) \cup (Map(o) \cap MapRequired(o))
           \cup (o.queryRequired \ Taken(o))
  BY <1>1, <1>8, OpsTyped
<1>11. Opaque(Collected(o)) <=> o.body = "map"
  BY <1>7 DEF Opaque, Map
<1> QED
  BY <1>1, <1>3, <1>4, <1>5, <1>6, <1>9, <1>10, <1>11 DEF BodyNames

\* One parameter per name.
LEMMA NamesUnique ==
    ASSUME NEW o \in Ops, NEW p \in Collected(o), NEW q \in Collected(o), p.name = q.name
    PROVE  p = q
<1>1. Map(o) \cap (o.path \cup o.fields) = {}
  BY OpsTyped, TemplateAssumption DEF Map
<1>2. ASSUME NEW r \in Collected(o)
      PROVE  \/ r.name \in o.path \ Both(o)
                  /\ r = [name |-> r.name, kind |-> "path", required |-> r.name \in Names]
             \/ r.name \in Both(o)
                  /\ r = [name |-> r.name, kind |-> "path_body", required |-> r.name \in Names]
             \/ r.name \in o.fields \ o.path
                  /\ r = [name |-> r.name, kind |-> "body", required |-> r.name \in o.fieldsRequired]
             \/ r.name \in Map(o)
                  /\ r = [name |-> r.name, kind |-> "opaque", required |-> r.name \in MapRequired(o)]
             \/ r.name \in o.query \ Taken(o)
                  /\ r = [name |-> r.name, kind |-> "query", required |-> r.name \in o.queryRequired]
  <2>1. \/ r \in Param("path", o.path \ Both(o), Names)
        \/ r \in Param("path_body", Both(o), Names)
        \/ r \in Param("body", o.fields \ o.path, o.fieldsRequired)
        \/ r \in Param("opaque", Map(o), MapRequired(o))
        \/ r \in Param("query", o.query \ Taken(o), o.queryRequired)
    BY <1>2, CollectedIs
  <2> QED
    BY <2>1, ParamIs
<1>3. Both(o) \subseteq o.path
  BY DEF Both
<1> QED
  BY <1>1, <1>2, <1>3 DEF Taken

-----------------------------------------------------------------------------
(***************************************************************************)
(* The inductive invariant                                                 *)
(***************************************************************************)

Functional == phase \in {"emitted", "called"}

\* What was emitted was collected and accepted, and a request is a call's.
IInv ==
    /\ op \in Ops
    /\ phase \in {"snapshot", "emitted", "refused", "called"}
    /\ ~Functional => params = {}
    /\ Functional => params = Collected(op) /\ Accepts(op, params)
    /\ phase # "called" =>
        /\ passed = {} /\ nulls = {}
        /\ request = [path |-> {}, query |-> {}, body |-> {}, map |-> "none"]
        /\ checked = {}
    /\ phase = "called" =>
        /\ Required(params) \subseteq passed /\ passed \subseteq NamesOf(params)
        /\ nulls \subseteq passed \cap OfKind(params, {"body", "query"})
        /\ request = RequestOf(params, passed, nulls)
        /\ checked = IF op.hook.form = "none" THEN {}
                     ELSE Checked(op.hook, InBody(params, passed))

LEMMA InitIInv == Init => IInv
BY DEF Init, IInv, Ops, Functional

LEMMA NextIInv == IInv /\ [Next]_vars => IInv'
<1> SUFFICES ASSUME IInv, [Next]_vars PROVE IInv'
  OBVIOUS
<1>1. CASE Generate
  <2>1. phase = "snapshot" /\ UNCHANGED <<op, passed, nulls, request, checked>>
    BY <1>1 DEF Generate
  <2>2. \/ phase' = "emitted" /\ params' = Collected(op) /\ Accepts(op, Collected(op))
        \/ phase' = "refused" /\ params' = params
    BY <1>1 DEF Generate
  <2>3. Accepts(op, Collected(op)) /\ op' = op /\ params' = Collected(op)
          => Accepts(op', params')
    OBVIOUS
  <2> QED
    BY <2>1, <2>2, <2>3 DEF IInv, Functional
<1>2. CASE Call
  <2>1. phase = "emitted" /\ phase' = "called" /\ UNCHANGED <<op, params, checked>>
          /\ op.hook.form = "none"
    BY <1>2 DEF Call
  <2>2. /\ Required(params) \subseteq passed' /\ passed' \subseteq NamesOf(params)
        /\ nulls' \subseteq passed' \cap OfKind(params, {"body", "query"})
        /\ request' = RequestOf(params, passed', nulls')
    BY <1>2 DEF Call, Given, Nulls
  <2>3. checked' = {}
    BY <2>1 DEF IInv
  <2>4. op' \in Ops /\ params' = Collected(op') /\ Accepts(op', params')
    BY <2>1 DEF IInv, Functional
  <2>5. /\ Required(params') \subseteq passed' /\ passed' \subseteq NamesOf(params')
        /\ nulls' \subseteq passed' \cap OfKind(params', {"body", "query"})
        /\ request' = RequestOf(params', passed', nulls')
        /\ checked' = IF op'.hook.form = "none" THEN {}
                      ELSE Checked(op'.hook, InBody(params', passed'))
    BY <2>1, <2>2, <2>3
  <2> QED
    BY <2>1, <2>4, <2>5 DEF IInv, Functional
<1>3. CASE CallVerified
  <2>1. phase = "emitted" /\ phase' = "called" /\ UNCHANGED <<op, params>>
          /\ op.hook.form # "none"
    BY <1>3 DEF CallVerified
  <2>2. /\ Required(params) \subseteq passed' /\ passed' \subseteq NamesOf(params)
        /\ nulls' \subseteq passed' \cap OfKind(params, {"body", "query"})
        /\ request' = RequestOf(params, passed', nulls')
        /\ checked' = Checked(op.hook, InBody(params, passed'))
    BY <1>3 DEF CallVerified, Given, Nulls
  <2>4. op' \in Ops /\ params' = Collected(op') /\ Accepts(op', params')
    BY <2>1 DEF IInv, Functional
  <2>5. /\ Required(params') \subseteq passed' /\ passed' \subseteq NamesOf(params')
        /\ nulls' \subseteq passed' \cap OfKind(params', {"body", "query"})
        /\ request' = RequestOf(params', passed', nulls')
        /\ checked' = IF op'.hook.form = "none" THEN {}
                      ELSE Checked(op'.hook, InBody(params', passed'))
    BY <2>1, <2>2
  <2> QED
    BY <2>1, <2>4, <2>5 DEF IInv, Functional
<1>4. CASE UNCHANGED vars
  BY <1>4 DEF vars, IInv, Functional
<1> QED
  BY <1>1, <1>2, <1>3, <1>4 DEF Next, Over

\* The invariant of every behaviour of the generator and its functions.
THEOREM Invariance == Spec => []IInv
BY InitIInv, NextIInv, PTL DEF Spec

-----------------------------------------------------------------------------
(***************************************************************************)
(* The properties                                                          *)
(***************************************************************************)

\* A request in terms of the endpoint.
LEMMA RequestNames ==
    ASSUME IInv, phase = "called"
    PROVE  /\ op \in Ops /\ Accepts(op, Collected(op))
           /\ request.path = op.path
           /\ request.query = ((op.query \ Taken(op)) \cap passed) \ nulls
           /\ request.body = ((op.fields \ op.path) \cup Both(op)) \cap passed
           /\ request.map = IF op.body # "map" THEN "none"
                            ELSE IF "body" \in passed THEN "given" ELSE "UNSET"
           /\ passed \subseteq Taken(op) \cup op.query
           /\ op.path \cup (op.fieldsRequired \ op.path) \cup (Map(op) \cap MapRequired(op))
                \cup (op.queryRequired \ Taken(op)) \subseteq passed
           /\ nulls \subseteq passed
           /\ nulls \subseteq (op.fields \ op.path) \cup (op.query \ Taken(op))
<1>1. op \in Ops /\ params = Collected(op) /\ Accepts(op, params)
  BY DEF IInv, Functional
<1> QED
  BY <1>1, NamesByKind DEF IInv, RequestOf, InQuery, InBody, MapIn

\* What the verification of a body looks for is in the body, except for the
\* keys that the answer has to have anyway; those are fields.
LEMMA CheckedNames ==
    ASSUME NEW h \in VerifyEntries, NEW sent
    PROVE  /\ h.form \in {"skip", "subset"} => Checked(h, sent) \subseteq sent
           /\ h.form # "none" => Checked(h, sent) \subseteq sent \cup FieldNames
BY DEF VerifyEntries, Checked, Whole, SubsetSent, Present

LEMMA CheckedIs ==
    ASSUME IInv, phase = "called"
    PROVE  /\ op.hook \in VerifyEntries
           /\ op.hook.form # "present" => checked \subseteq request.body
           /\ checked \subseteq request.body \cup FieldNames
<1>1. op \in Ops /\ op.hook \in VerifyEntries
  BY TemplateAssumption DEF IInv, Ops, Endpoints
<1>2. op.hook.form \in {"none", "skip", "subset", "present"}
  BY <1>1 DEF VerifyEntries
<1>3. request.body = InBody(params, passed)
  BY DEF IInv, RequestOf
<1>4. checked = IF op.hook.form = "none" THEN {} ELSE Checked(op.hook, InBody(params, passed))
  BY DEF IInv
<1> QED
  BY <1>1, <1>2, <1>3, <1>4, CheckedNames

\* Requests name nothing the endpoint does not.
LEMMA TypesInv == IInv => TypeOK
<1> SUFFICES ASSUME IInv PROVE TypeOK
  OBVIOUS
<1>1. op \in Endpoints /\ WellFormed(op) /\ op \in Ops
  BY DEF IInv, Ops
<1>2. params \subseteq [name : Names, kind : Kinds, required : BOOLEAN]
  <2>1. CASE Functional
    <3>1. params = Collected(op)
      BY <2>1 DEF IInv
    <3>2. ASSUME NEW k \in Kinds, NEW S \in SUBSET Names, NEW R
          PROVE  Param(k, S, R) \subseteq [name : Names, kind : Kinds, required : BOOLEAN]
      <4>1. ASSUME NEW p \in Param(k, S, R)
            PROVE  p \in [name : Names, kind : Kinds, required : BOOLEAN]
        <5>1. PICK n \in S : p = [name |-> n, kind |-> k, required |-> n \in R]
          BY DEF Param
        <5>2. n \in Names /\ k \in Kinds
          BY <3>2
        <5>3. CASE n \in R
          <6>1. (n \in R) = TRUE
            BY <5>3
          <6>2. p = [name |-> n, kind |-> k, required |-> TRUE]
            BY <5>1, <6>1, Zenon
          <6> QED
            BY <5>2, <6>2
        <5>4. CASE n \notin R
          <6>1. (n \in R) = FALSE
            BY <5>4
          <6>2. p = [name |-> n, kind |-> k, required |-> FALSE]
            BY <5>1, <6>1, Zenon
          <6> QED
            BY <5>2, <6>2
        <5> QED
          BY <5>3, <5>4
      <4> QED
        BY <4>1
    <3>3. /\ op.path \ Both(op) \in SUBSET Names /\ Both(op) \in SUBSET Names
          /\ op.fields \ op.path \in SUBSET Names /\ Map(op) \in SUBSET Names
          /\ op.query \ Taken(op) \in SUBSET Names
      BY <1>1, OpsTyped DEF Both, Map, Names
    <3>4. {"path", "path_body", "body", "opaque", "query"} \subseteq Kinds
      BY DEF Kinds
    <3> QED
      BY <1>1, <3>1, <3>2, <3>3, <3>4, CollectedIs
  <2>2. CASE ~Functional
    BY <2>2 DEF IInv
  <2> QED
    BY <2>1, <2>2
<1>3. phase = "refused" => params = {}
  BY DEF IInv, Functional
<1>4. CASE phase = "called"
  <2>1. Taken(op) \cup op.query \subseteq Names
    BY <1>1, OpsTyped DEF Taken, Map, Names
  <2>2. passed \subseteq Names /\ nulls \subseteq passed
    BY <1>4, <2>1, RequestNames
  <2>3. request \in [path : SUBSET Names, query : SUBSET Names, body : SUBSET Names,
                     map : {"none", "given", "UNSET"}]
    <3>1. request = [path |-> request.path, query |-> request.query,
                     body |-> request.body, map |-> request.map]
      BY <1>4 DEF IInv, RequestOf
    <3>2. request.path \subseteq Names /\ request.query \subseteq Names
            /\ request.body \subseteq Names /\ request.map \in {"none", "given", "UNSET"}
      BY <1>4, <1>1, <2>2, RequestNames, OpsTyped
    <3> QED
      BY <3>1, <3>2
  <2>4. checked \subseteq Names
    BY <1>4, <2>3, CheckedIs DEF Names
  <2> QED
    BY <1>1, <1>2, <1>3, <2>2, <2>3, <2>4 DEF IInv, TypeOK
<1>5. CASE phase # "called"
  BY <1>1, <1>2, <1>3, <1>5 DEF IInv, TypeOK
<1> QED
  BY <1>4, <1>5

\* Parameters, arguments and requests hold names of the endpoint only.
THEOREM TypeCorrect == Spec => []TypeOK
BY TypesInv, Invariance, PTL

\* What the statements refer to is a local or was imported for them.
LEMMA ReferencesCovered ==
    ASSUME NEW o \in Ops, Accepts(o, Collected(o))
    PROVE  RefersTo(o, Collected(o))
             \subseteq Locals(o, Collected(o)) \cup Used(o, Collected(o)) \cup Ambient
<1> DEFINE ps == Collected(o)
<1>1. ReferencesBody(o) => BodyNames(ps) # {}
  BY DEF Accepts
<1> HIDE DEF ps
<1>2. o.hook.form = "skip" => o.hook.form # "none"
  OBVIOUS
<1>3. {"get_client"} \subseteq Used(o, ps)
  BY DEF Used
<1>4. (IF OfKind(ps, {"query"}) # {} THEN {"query_params"} ELSE {}) \subseteq Used(o, ps)
  BY DEF Used
<1>5. (IF BodyNames(ps) # {} THEN {"body", "UNSET"} ELSE {}) \subseteq Locals(o, ps) \cup Ambient
  BY DEF Locals, Ambient
<1>6. (IF o.hook.form # "none" THEN {"verify_response", "result"} ELSE {})
        \subseteq Locals(o, ps) \cup Used(o, ps)
  BY DEF Locals, Used
<1>7. (IF o.hook.form = "skip" THEN {"frozenset"} ELSE {}) \subseteq Ambient
  BY DEF Ambient
<1>8. (IF ReferencesBody(o) THEN {"body"} ELSE {}) \subseteq Locals(o, ps)
  BY <1>1 DEF Locals
<1>9. (IF o.slim THEN {"slim_list", "limit", "result"} ELSE {}) \subseteq Locals(o, ps) \cup Used(o, ps)
  BY DEF Locals, Used
<1>10. RefersTo(o, ps) \subseteq Locals(o, ps) \cup Used(o, ps) \cup Ambient
  BY <1>3, <1>4, <1>5, <1>6, <1>7, <1>8, <1>9 DEF RefersTo
<1> QED
  BY <1>10 DEF ps

\* No parameter is named like what the statements refer to.
LEMMA NothingHidden ==
    ASSUME NEW o \in Ops, Accepts(o, Collected(o))
    PROVE  NamesOf(Collected(o)) \cap RefersTo(o, Collected(o)) = {}
<1> DEFINE ps == Collected(o)
<1>1. /\ NamesOf(ps) \cap (Used(o, ps) \cup {"result"}) = {}
      /\ ~Opaque(ps) => "body" \notin NamesOf(ps)
      /\ o.slim => "limit" \notin NamesOf(ps)
  BY DEF Accepts, Shadows
<1>2. Opaque(ps) => BodyNames(ps) = {}
  <2>1. Opaque(ps) => o.body = "map"
    BY NamesByKind
  <2>2. o.body = "map" => o.fields = {}
    BY OpsTyped
  <2>3. BodyNames(ps) = (o.fields \ o.path) \cup Both(o)
    BY NamesByKind
  <2> QED
    BY <2>1, <2>2, <2>3 DEF Both
<1>3. NamesOf(ps) \cap Ambient = {}
  <2>1. NamesOf(ps) = Taken(o) \cup o.query
    BY NamesByKind
  <2>2. Taken(o) \cup o.query \subseteq Names
    BY OpsTyped DEF Taken, Map, Names
  <2> QED
    BY <2>1, <2>2, TemplateAssumption
<1>4. RefersTo(o, ps) \subseteq Locals(o, ps) \cup Used(o, ps) \cup Ambient
  BY ReferencesCovered
<1> HIDE DEF ps
<1>5. NamesOf(ps) \cap Locals(o, ps) = {}
  <2>1. BodyNames(ps) # {} => "body" \notin NamesOf(ps)
    BY <1>1, <1>2
  <2> QED
    BY <1>1, <2>1 DEF Locals
<1>6. NamesOf(ps) \cap RefersTo(o, ps) = {}
  BY <1>1, <1>3, <1>4, <1>5
<1> QED
  BY <1>6 DEF ps

\* What the generator does not refuse is a function that runs: every name in
\* its statements means what the template means by it.
THEOREM EmittedRunsThm == Spec => []EmittedRuns
<1>1. ASSUME IInv PROVE EmittedRuns
  <2> SUFFICES ASSUME Functional
               PROVE  /\ \A p, q \in params : p.name = q.name => p = q
                      /\ NamesOf(params) \cap RefersTo(op, params) = {}
                      /\ RefersTo(op, params)
                           \subseteq Locals(op, params) \cup Used(op, params) \cup Ambient
    BY DEF EmittedRuns, Functional
  <2>1. op \in Ops /\ params = Collected(op) /\ Accepts(op, params)
    BY <1>1 DEF IInv
  <2>2. \A p, q \in params : p.name = q.name => p = q
    BY <2>1, NamesUnique
  <2> QED
    BY <2>1, <2>2, NothingHidden, ReferencesCovered
<1> QED
  BY <1>1, Invariance, PTL

\* A validated call is a request the endpoint's declaration admits.
THEOREM RequestConformsThm == Spec => []RequestConforms
<1>1. ASSUME IInv, phase = "called"
      PROVE  /\ op.path \subseteq request.path
             /\ op.fieldsRequired \subseteq
                  request.body \cup (IF op.disposition = "exempt" THEN op.path ELSE {})
             /\ op.mapRequired => request.map = "given"
             /\ \A n \in op.queryRequired :
                  n \in request.query \cup nulls \/ n \in op.path \cup op.fields
                     \/ (n = "body" /\ op.body = "map")
  <2> USE <1>1
  <2>1. op \in Ops
    BY RequestNames
  <2>2. op.disposition = "missing" => op.path \cap op.fields = {}
    BY RequestNames DEF Accepts, Disposed, Collisions
  <2>3. op.fieldsRequired \subseteq
          request.body \cup (IF op.disposition = "exempt" THEN op.path ELSE {})
    BY <2>1, <2>2, RequestNames, OpsTyped DEF Both
  <2>4. op.mapRequired => request.map = "given"
    BY <2>1, RequestNames, OpsTyped DEF Map, MapRequired
  <2>5. \A n \in op.queryRequired :
          n \in request.query \cup nulls \/ n \in op.path \cup op.fields
             \/ (n = "body" /\ op.body = "map")
    BY <2>1, RequestNames, OpsTyped DEF Taken, Map
  <2> QED
    BY <2>3, <2>4, <2>5, RequestNames
<1>2. IInv => RequestConforms
  BY <1>1 DEF RequestConforms
<1> QED
  BY <1>2, Invariance, PTL

\* Nothing passed is lost, and nothing for the body is in the query string.
THEOREM ArgumentsArriveThm == Spec => []ArgumentsArrive
<1>1. ASSUME IInv, phase = "called"
      PROVE  /\ \A n \in passed \ nulls :
                  \/ n \in request.path \cup request.query \cup request.body
                  \/ n = "body" /\ request.map = "given"
             /\ nulls \cap op.fields \subseteq request.body
             /\ request.query \cap op.fields = {}
             /\ request.query \cup request.body \subseteq passed
             /\ request.query \cap nulls = {}
             /\ op.hook.form # "present" => checked \subseteq passed
  <2> USE <1>1
  <2>1. \A n \in passed \ nulls :
          \/ n \in request.path \cup request.query \cup request.body
          \/ n = "body" /\ request.map = "given"
    BY RequestNames DEF Taken, Map
  <2>2. nulls \cap op.fields \subseteq request.body
    BY RequestNames DEF Taken
  <2>3. request.query \cap op.fields = {}
    BY RequestNames DEF Taken
  <2>4. request.query \cup request.body \subseteq passed /\ request.query \cap nulls = {}
    BY RequestNames
  <2>5. op.hook.form # "present" => checked \subseteq passed
    BY CheckedIs, <2>4
  <2> QED
    BY <2>1, <2>2, <2>3, <2>4, <2>5
<1>2. IInv => ArgumentsArrive
  BY <1>1 DEF ArgumentsArrive
<1> QED
  BY <1>2, Invariance, PTL
=============================================================================
