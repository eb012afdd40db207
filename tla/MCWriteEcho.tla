----------------------------- MODULE MCWriteEcho -----------------------------
(***************************************************************************)
(* Two keys and two levels: the same key may occur at the root and nested, *)
(* which is what the root-only skip is about.                              *)
(***************************************************************************)
EXTENDS WriteEcho

CONSTANTS a, b

MCKeys == {a, b}

MCDepth == 2

\* Documents of at most n levels of dicts.
Nested[n \in 0..MCDepth] ==
    {Leaf} \cup (IF n = 0 THEN {} ELSE UNION {[D -> Nested[n - 1]] : D \in SUBSET MCKeys})

MCDocuments == Nested[MCDepth]
=============================================================================
