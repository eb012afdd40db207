----------------------------- MODULE MCRegistry -----------------------------
(***************************************************************************)
(* Every package of up to four tagged functions over three names, three    *)
(* groups and ROOT, so that a third group sees the collision of two        *)
(* others.  n1 and n2 have the same PascalCase form; the doc of one group  *)
(* refers to an operation the group may lack.                              *)
(***************************************************************************)
EXTENDS Registry

CONSTANTS n1, n2, n3, g1, g2, g3, O12, O3

MCNames == {n1, n2, n3}
MCGroups == {g1, g2, g3}
MCOps == {O12, O3}
MCPascal == [n \in MCNames |-> IF n = n3 THEN O3 ELSE O12]
MCDocOps == [g \in MCGroups |-> IF g = g1 THEN {O3} ELSE {}]
=============================================================================
