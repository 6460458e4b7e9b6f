--------------------------- MODULE MCImeComposition ---------------------------
(***************************************************************************)
(* ImeComposition for TLC.                                                 *)
(***************************************************************************)
EXTENDS ImeComposition
=============================================================================
