SPECIFICATION Spec
CONSTANTS
    PathNames <- MCPathNames
    FieldNames <- MCFieldNames
    QueryNames <- MCQueryNames
    GroupVars = {"litellm_read"}
    Typings = {{"Annotated", "Field"}}
    Hooks <- MCHooks
INVARIANTS
    EmittedRuns
    RequestConforms
    ArgumentsArrive
