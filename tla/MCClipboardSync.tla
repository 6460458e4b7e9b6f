--------------------------- MODULE MCClipboardSync ---------------------------
(***************************************************************************)
(* ClipboardSync for TLC.                                                  *)
(***************************************************************************)
EXTENDS ClipboardSync
=============================================================================
