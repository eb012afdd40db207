------------------------- MODULE MCOperationTemplate -------------------------
(***************************************************************************)
(* One name of no special meaning and names the template uses, each where  *)
(* it hides something: a local, an import, the limit; every verify entry   *)
(* that refers to the body and one that does not.                          *)
(***************************************************************************)
EXTENDS OperationTemplate

MCPathNames == {"id", "limit"}
MCFieldNames == {"id", "result", "query_params"}
MCQueryNames == {"id", "limit", "body"}

MCHooks ==
    {[form |-> f, names |-> {}] : f \in {"none", "skip"}}
    \cup {[form |-> f, names |-> {"id"}] : f \in {"subset", "present"}}
=============================================================================
