--------------------------- MODULE MCCodegenGate ----------------------------
(***************************************************************************)
(* Two operations of two endpoints, and two generated modules.             *)
(***************************************************************************)
EXTENDS CodegenGate

CONSTANTS o1, o2, m1, m2, e1, e2

MCNames == {o1, o2}
MCModules == {m1, m2}
MCEndpoints == {e1, e2}
MCEndpointOf == [n \in MCNames |-> IF n = o1 THEN e1 ELSE e2]
=============================================================================
