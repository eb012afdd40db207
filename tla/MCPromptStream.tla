--------------------------- MODULE MCPromptStream ---------------------------
(***************************************************************************)
(* A cap of three characters, pieces of up to two: the text can stay below *)
(* the cap, hit it exactly and jump over it.                               *)
(***************************************************************************)
EXTENDS PromptStream

CONSTANTS m1, m2

MCValues == {m1, m2}

\* Model, usage and finish_reason: none, one alone, all of them, and a
\* second model, so that an earlier value differs from a later one.
Fields ==
    {<<None, None, None>>, <<m1, None, None>>, <<m2, None, None>>,
     <<None, m1, None>>, <<None, None, m2>>, <<m2, m2, m1>>}

MCEvents ==
    {[kind |-> "event", model |-> f[1], usage |-> f[2], finish |-> f[3], piece |-> p] :
        f \in Fields, p \in {<<>>, <<"x">>, <<"y", "x">>}}

Answer(status, body, stream) == [status |-> status, body |-> body, stream |-> stream]

\* A stream, JSON instead of a stream, a redirect, and refusals on both
\* sides of what r.json() can decode.
MCOpening ==
    {Answer(200, "text", TRUE), Answer(200, "json", FALSE), Answer(302, "empty", FALSE),
     Answer(400, "json", FALSE), Answer(502, "text", FALSE), Answer(502, "bytes", FALSE)}
=============================================================================
