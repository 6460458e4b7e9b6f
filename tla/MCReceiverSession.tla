-------------------------- MODULE MCReceiverSession --------------------------
(***************************************************************************)
(* ReceiverSession for TLC.  Accept names a new session with CHOOSE, which *)
(* breaks the symmetry of Sessions by itself; Inputs remain interchangeable.*)
(***************************************************************************)
EXTENDS ReceiverSession, TLC

Symmetry == Permutations(Inputs)
=============================================================================
