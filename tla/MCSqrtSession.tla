--------------------------- MODULE MCSqrtSession ---------------------------
(* Instances of module SqrtSession for TLC: two numbers whose roots differ. *)
EXTENDS SqrtSession

CONSTANTS x, y
=============================================================================
