--------------------------- MODULE MCHookForwarding ---------------------------
(***************************************************************************)
(* HookForwarding for TLC.                                                 *)
(***************************************************************************)
EXTENDS HookForwarding, TLC

Symmetry == Permutations(Keys)
=============================================================================
