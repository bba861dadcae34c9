---------------------------- MODULE MCNodeReplace ----------------------------
(* Two edit commands that may overlap, or a single one. *)
EXTENDS NodeReplace
CONSTANTS e1, e2
MCTwo == {e1, e2}
MCSingle == {e1}
=============================================================================
