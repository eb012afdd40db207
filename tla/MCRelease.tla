----------------------------- MODULE MCRelease ------------------------------
(***************************************************************************)
(* Three runs: one that runs, one that waits, and one that replaces it or   *)
(* follows its failure; pushes and pull requests.                           *)
(***************************************************************************)
EXTENDS Release

MCEvents == {"push", "pr"}
=============================================================================
