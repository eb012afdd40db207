----------------------------- MODULE MCListPages -----------------------------
(***************************************************************************)
(* Listings of up to five rows, as dicts, as strings or as lists; one of   *)
(* the two columns is in the slim entry.                                   *)
(***************************************************************************)
EXTENDS ListPages

MCLimits == -1..4

MCFields == {"alias"}

MCColumns == {"alias", "secret"}

Kinds(i) == {Bare(i), Row("dict", i, MCColumns), Row("list", i, MCColumns)}

MCRows == UNION {Kinds(i) : i \in 1..5}

MCListings ==
    {<<>>} \cup UNION {{[i \in 1..n |-> Row(k.is, i, k.columns)] : k \in Kinds(0)} : n \in 1..5}
=============================================================================
