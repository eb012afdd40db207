-------------------------- MODULE OperationTemplate --------------------------
(***************************************************************************)
(* codegen/generate.py: from one operation of the OpenAPI snapshot and the *)
(* data about it to a function, and from a call of that function to a      *)
(* request.                                                                *)
(*                                                                         *)
(* A name can occur in the path, in the body and in the query of one       *)
(* endpoint, and the function has one parameter for all of them.  It must  *)
(* not be named like what the statements of the template refer to: their   *)
(* locals and the symbols the module imports for them.  The generator      *)
(* refuses what it cannot express (GenError); what it accepts is called    *)
(* with every set of arguments that validation lets through.               *)
(***************************************************************************)
EXTENDS FiniteSets

CONSTANTS
    PathNames,  \* names of path placeholders
    FieldNames, \* names of body fields
    QueryNames, \* names of query parameters
    GroupVars,  \* the variables that hold the groups
    Typings,    \* sets of symbols that types and descriptions of parameters bring
    Hooks       \* the verify entries: [form |-> ..., names |-> ...]

\* The verify entry of an operation: no verification, the whole body but for
\* the root keys to skip, some of its fields, or keys that the answer must
\* have whatever was sent.
VerifyEntries ==
    {h \in [form : {"none", "skip", "subset", "present"}, names : SUBSET FieldNames] :
        h.form \in {"subset", "present"} => h.names # {}}

\* What types and descriptions may bring into a signature.
TypingSymbols == {"Literal", "Annotated", "Field"}

Names == PathNames \cup FieldNames \cup QueryNames \cup {"body"}

\* Names the emitted statements may use although the operation's own list of
\* symbols lacks them: UNSET comes into the module with the optional
\* parameters of other operations, frozenset is a builtin.
Ambient == {"UNSET", "frozenset"}

\* The snapshot has no placeholder {body} and no parameter named like these.
ASSUME TemplateAssumption ==
    /\ "body" \notin PathNames
    /\ Names \cap Ambient = {}
    /\ Hooks \subseteq VerifyEntries
    /\ Typings \subseteq SUBSET TypingSymbols

\* An operation of the snapshot: the placeholders of its path, its request
\* body (none, an object with fields, or a map without), its query.  The
\* data: whether it may go without a body (by its verb, by bodyless_ok.py, or
\* not), the dispositions of names in both path and body, a slim entry, a
\* verify entry, its group, the symbols of its annotations.
Endpoints ==
    [path : SUBSET PathNames, body : {"none", "fields", "map"},
     fields : SUBSET FieldNames, fieldsRequired : SUBSET FieldNames, mapRequired : BOOLEAN,
     query : SUBSET QueryNames, queryRequired : SUBSET QueryNames,
     bodyless : {"verb", "listed", "no"}, disposition : {"serialize", "exempt", "missing"},
     slim : BOOLEAN, hook : Hooks, group : GroupVars, typing : Typings]

WellFormed(op) ==
    /\ op.body # "fields" => op.fields = {}
    /\ op.fieldsRequired \subseteq op.fields
    /\ op.body # "map" => ~op.mapRequired
    /\ op.queryRequired \subseteq op.query

VARIABLES
    op,         \* the operation of the snapshot with its data
    phase,      \* "snapshot", then "emitted" or "refused", then "called"
    params,     \* the parameters of the emitted function
    passed,     \* the names the agent passed
    nulls,      \* those of them it passed null for
    request,    \* what goes on the wire
    checked     \* the keys that verification looks for in the answer

vars == <<op, phase, params, passed, nulls, request, checked>>

(***************************************************************************)
(* _collect_params                                                         *)
(***************************************************************************)

Param(kind, names, required) ==
    {[name |-> n, kind |-> kind, required |-> n \in required] : n \in names}

Collisions(o) == o.path \cap o.fields

PathParams(o) ==
    Param("path", IF o.disposition = "serialize" THEN o.path \ Collisions(o) ELSE o.path, Names)
        \cup Param("path_body",
                   IF o.disposition = "serialize" THEN Collisions(o) ELSE {}, Names)

BodyParams(o) ==
    CASE o.body = "fields" -> Param("body", o.fields \ o.path, o.fieldsRequired)
      [] o.body = "map" -> Param("opaque", {"body"}, IF o.mapRequired THEN {"body"} ELSE {})
      [] OTHER -> {}

NamesOf(ps) == {p.name : p \in ps}

\* Faulty Collected: the query wins over the body.
CollectedQueryFirst(o) ==
    PathParams(o) \cup Param("query", o.query \ o.path, o.queryRequired)
        \cup {p \in BodyParams(o) : p.name \notin o.query}

\* Path first, then body, then the query parameters whose names are free.
Collected(o) ==
    LET taken == PathParams(o) \cup BodyParams(o) IN
    taken \cup Param("query", o.query \ NamesOf(taken), o.queryRequired)

(***************************************************************************)
(* emit_op_source                                                          *)
(***************************************************************************)

OfKind(ps, kinds) == {p.name : p \in {q \in ps : q.kind \in kinds}}

\* The names that go into the local `body` of the function.
BodyNames(ps) == OfKind(ps, {"body", "path_body"})

\* _path_body_field_dispositions: exact, so missing when there is a
\* collision, and stale when there is none.
Disposed(o) == (Collisions(o) = {}) <=> (o.disposition = "missing")

\* A body verb has a body or is listed in bodyless_ok.py, and what is listed
\* has none.
Bodied(o) == o.bodyless # "verb" => (o.bodyless = "listed" <=> o.body = "none")

ReferencesBody(o) == o.hook.form \in {"skip", "subset"}

Opaque(ps) == OfKind(ps, {"opaque"}) # {}

Required(ps) == {p.name : p \in {q \in ps : q.required}}

\* Faulty Used: the symbols of the signature only.
UsedBySignature(o, ps) ==
    {"Any", "op", o.group} \cup o.typing
    \cup (IF Required(ps) # NamesOf(ps) THEN {"cast", "UNSET"} ELSE {})
    \cup (IF o.slim THEN {"Annotated", "Field"} ELSE {})

\* `used`, the symbols the module imports for the function: those of its
\* decorator and signature, then those of its statements.
Used(o, ps) ==
    {"Any", "op", "get_client", o.group} \cup o.typing
    \cup (IF Required(ps) # NamesOf(ps) THEN {"cast", "UNSET"} ELSE {})
    \cup (IF OfKind(ps, {"query"}) # {} THEN {"query_params"} ELSE {})
    \cup (IF o.slim THEN {"Annotated", "Field", "slim_list"} ELSE {})
    \cup (IF o.hook.form # "none" THEN {"verify_response"} ELSE {})

\* Parameters named like what the template uses.
Shadows(o, ps) ==
    NamesOf(ps) \cap (Used(o, ps) \cup {"result"} \cup IF Opaque(ps) THEN {} ELSE {"body"})

\* No GenError.
Accepts(o, ps) ==
    /\ Disposed(o)
    /\ Bodied(o)
    /\ o.slim => "limit" \notin NamesOf(ps)
    /\ ReferencesBody(o) => BodyNames(ps) # {}
    /\ o.hook.form = "subset" => o.hook.names \subseteq BodyNames(ps)
    /\ Shadows(o, ps) = {}

Init ==
    /\ op \in {o \in Endpoints : WellFormed(o)}
    /\ phase = "snapshot" /\ params = {}
    /\ passed = {} /\ nulls = {}
    /\ request = [path |-> {}, query |-> {}, body |-> {}, map |-> "none"]
    /\ checked = {}

Generate ==
    /\ phase = "snapshot"
    /\ IF Accepts(op, Collected(op))
       THEN phase' = "emitted" /\ params' = Collected(op)
       ELSE phase' = "refused" /\ UNCHANGED params
    /\ UNCHANGED <<op, passed, nulls, request, checked>>

(***************************************************************************)
(* The emitted function                                                    *)
(***************************************************************************)

\* query_params drops UNSET and None.
InQuery(ps, given, null) == (OfKind(ps, {"query"}) \cap given) \ null

\* Faulty InBody: what is in the path is not in the body.
InBodyOnly(ps, given) == OfKind(ps, {"body"}) \cap given

\* "if name is not UNSET: body[name] = name".
InBody(ps, given) == BodyNames(ps) \cap given

\* The opaque body is forwarded as it is, UNSET included.
MapIn(ps, given) ==
    IF ~Opaque(ps) THEN "none" ELSE IF "body" \in given THEN "given" ELSE "UNSET"

RequestOf(ps, given, null) ==
    [path |-> OfKind(ps, {"path", "path_body"}), query |-> InQuery(ps, given, null),
     body |-> InBody(ps, given), map |-> MapIn(ps, given)]

\* The three forms of verification, of a body `sent`: all of it but for the
\* root keys to skip; of some fields those that were sent; keys of the answer.
Whole(h, sent) == sent \ h.names
SubsetSent(h, sent) == h.names \cap sent
Present(h, sent) == h.names

Checked(h, sent) ==
    CASE h.form = "skip" -> Whole(h, sent)
      [] h.form = "subset" -> SubsetSent(h, sent)
      [] h.form = "present" -> Present(h, sent)

\* Validation lets a set of arguments through when nothing required is
\* missing; null where the type has it, so never for a path or an opaque
\* body.
Given(ps) == {given \in SUBSET NamesOf(ps) : Required(ps) \subseteq given}
Nulls(ps, given) == SUBSET (given \cap OfKind(ps, {"body", "query"}))

\* A function without a verify entry returns what the request brings.
Call ==
    /\ phase = "emitted" /\ op.hook.form = "none"
    /\ \E given \in Given(params) : \E null \in Nulls(params, given) :
         /\ passed' = given /\ nulls' = null
         /\ request' = RequestOf(params, given, null)
    /\ phase' = "called"
    /\ UNCHANGED <<op, params, checked>>

\* One with a verify entry looks at it first.
CallVerified ==
    /\ phase = "emitted" /\ op.hook.form # "none"
    /\ \E given \in Given(params) : \E null \in Nulls(params, given) :
         /\ passed' = given /\ nulls' = null
         /\ request' = RequestOf(params, given, null)
         /\ checked' = Checked(op.hook, InBody(params, given))
    /\ phase' = "called"
    /\ UNCHANGED <<op, params>>

Over == phase \in {"refused", "called"} /\ UNCHANGED vars

Next == Generate \/ Call \/ CallVerified \/ Over

Spec == Init /\ [][Next]_vars

(***************************************************************************)
(* Properties                                                              *)
(***************************************************************************)

Kinds == {"path", "path_body", "body", "opaque", "query"}

TypeOK ==
    /\ op \in Endpoints /\ WellFormed(op)
    /\ phase \in {"snapshot", "emitted", "refused", "called"}
    /\ params \subseteq [name : Names, kind : Kinds, required : BOOLEAN]
    /\ phase = "refused" => params = {}
    /\ passed \subseteq Names /\ nulls \subseteq passed
    /\ request \in [path : SUBSET Names, query : SUBSET Names, body : SUBSET Names,
                    map : {"none", "given", "UNSET"}]
    /\ checked \subseteq Names

\* What the statements of the function refer to, its parameters apart.
RefersTo(o, ps) ==
    {"get_client"}
    \cup (IF OfKind(ps, {"query"}) # {} THEN {"query_params"} ELSE {})
    \cup (IF BodyNames(ps) # {} THEN {"body", "UNSET"} ELSE {})
    \cup (IF o.hook.form # "none" THEN {"verify_response", "result"} ELSE {})
    \cup (IF o.hook.form = "skip" THEN {"frozenset"} ELSE {})
    \cup (IF ReferencesBody(o) THEN {"body"} ELSE {})
    \cup (IF o.slim THEN {"slim_list", "limit", "result"} ELSE {})

\* What the function itself defines.
Locals(o, ps) ==
    (IF BodyNames(ps) # {} THEN {"body"} ELSE {})
    \cup (IF o.hook.form # "none" \/ o.slim THEN {"result"} ELSE {})
    \cup (IF o.slim THEN {"limit"} ELSE {})

\* The emitted function runs: no two parameters share a name, none hides a
\* local or an import that the statements refer to, and all that they refer
\* to is a local or imported: the verification has a body to look at, the
\* `limit` of a slimmed list is its own.
EmittedRuns ==
    phase \in {"emitted", "called"} =>
        /\ \A p, q \in params : p.name = q.name => p = q
        /\ NamesOf(params) \cap RefersTo(op, params) = {}
        /\ RefersTo(op, params) \subseteq Locals(op, params) \cup Used(op, params) \cup Ambient

\* A call that validation lets through satisfies the endpoint: its path is
\* complete, and whatever the snapshot requires is where the snapshot wants
\* it.  The exceptions are decisions: a body field that the path exempts, a
\* query parameter that gives way to a path or body field of its name, and
\* one that the agent passed null for.
RequestConforms ==
    phase = "called" =>
        /\ op.path \subseteq request.path
        /\ op.fieldsRequired \subseteq
             request.body \cup (IF op.disposition = "exempt" THEN op.path ELSE {})
        /\ op.mapRequired => request.map = "given"
        /\ \A n \in op.queryRequired :
             n \in request.query \cup nulls \/ n \in op.path \cup op.fields
                \/ (n = "body" /\ op.body = "map")

\* Nothing the agent passes is lost on the way, nothing it passes for the
\* body, where keys and secrets are, gets into the query string, and what it
\* leaves out is not on the wire, nor is a query parameter it passes null for.
\* Verification asks for nothing it left out, but for the keys that the answer
\* has to have anyway.
ArgumentsArrive ==
    phase = "called" =>
        /\ \A n \in passed \ nulls :
             \/ n \in request.path \cup request.query \cup request.body
             \/ n = "body" /\ request.map = "given"
        /\ nulls \cap op.fields \subseteq request.body
        /\ request.query \cap op.fields = {}
        /\ request.query \cup request.body \subseteq passed
        /\ request.query \cap nulls = {}
        /\ op.hook.form # "present" => checked \subseteq passed
=============================================================================
