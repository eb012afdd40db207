------------------------- MODULE MCClientResolution -------------------------
(***************************************************************************)
(* Small instances of ClientResolution: three calls, one of them bound, two *)
(* credentials, and one answer of each class to the startup probe.         *)
(***************************************************************************)
EXTENDS ClientResolution

CONSTANTS w1, w2, w3, k1, k2

MCWorkers == {w1, w2, w3}
MCBound == {w3}
MCKeys == {k1, k2}

\* Every class of answer: no answer at all, 2xx with and without a body, a
\* redirect, and both sides of the status boundary of _request.
MCProbes == {NoAnswer} \cup Answers({200, 204, 302, 399, 400, 401, 503})
=============================================================================
