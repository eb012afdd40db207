----------------------------- MODULE ParamsModel -----------------------------
(***************************************************************************)
(* What the parameters model of an operation (server._build_params_model)  *)
(* makes of the JSON object an agent passes: which objects it accepts, and *)
(* with which arguments the operation is then called.                      *)
(*                                                                         *)
(* A field's annotation is the set of values pydantic accepts for it, and  *)
(* whether it is nullable.  Fields annotated with bool are flags: before   *)
(* validation a string that spells a boolean ("true", "1", "yes", "false", *)
(* "0", "no" in any case) is replaced by it, in flags only.                *)
(***************************************************************************)
EXTENDS Integers

CONSTANTS
    Fields,     \* parameters that go into the body
    Required,   \* those without a default
    Unknown,    \* names that are no parameters of the operations
    Values,     \* JSON values but null
    Types,      \* Types[f]: the values of f's annotation but null
    Nullable,   \* fields whose annotation has None
    Flags,      \* fields whose annotation has bool
    Spelled,    \* Spelled[v]: the boolean that string v spells, else v
    Null,       \* JSON null, Python's None
    UNSET

Contents == Values \cup {Null}

ASSUME ParamsAssumption ==
    /\ Required \subseteq Fields /\ Nullable \subseteq Fields /\ Flags \subseteq Fields
    /\ Unknown \cap Fields = {}
    /\ Types \in [Fields -> SUBSET Values]
    /\ Spelled \in [Values -> Values]
    /\ Null \notin Values
    /\ UNSET \notin Contents

\* Dicts with keys from a set.
Dicts(names) == UNION {[D -> Contents] : D \in SUBSET names}

\* _coerce_string_bool, the "before" validator of every field.
Coerced(f, v) == IF f \in Flags /\ v # Null THEN Spelled[v] ELSE v

\* What a field may hold after validation.
TypeOf(f) == Types[f] \cup (IF f \in Nullable THEN {Null} ELSE {})

\* model_validate: required fields are there, extra ones forbidden, each value
\* of its field's type.
Valid(params) ==
    /\ Required \subseteq DOMAIN params /\ DOMAIN params \subseteq Fields
    /\ \A f \in DOMAIN params : Coerced(f, params[f]) \in TypeOf(f)

\* Faulty Meaning: the parameters are passed on as they came.
MeaningRaw(params) == params

\* What the agent said of each field it named.
Meaning(params) == [f \in DOMAIN params |-> Coerced(f, params[f])]

\* The operation's locals: model_dump(exclude_unset=True) passes on what the
\* agent passed, and the signature's default is UNSET.
Arguments(params) ==
    [f \in Fields |-> IF f \in DOMAIN params THEN Meaning(params)[f] ELSE UNSET]
=============================================================================
