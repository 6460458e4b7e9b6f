--------------------------- MODULE MCControlEngine ---------------------------
(* Instances of ControlEngine for TLC. *)
EXTENDS ControlEngine
=============================================================================
