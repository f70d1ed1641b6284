---------------------------- MODULE MCParentLink ----------------------------
(* Instances of ParentLink for TLC: every address may be used again. *)
EXTENDS ParentLink

CONSTANTS c1, c2
=============================================================================
