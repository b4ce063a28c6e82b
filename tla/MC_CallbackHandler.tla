------------------------- MODULE MC_CallbackHandler -------------------------
(***************************************************************************)
(* Instances of CallbackHandler for TLC.                                   *)
(***************************************************************************)
EXTENDS CallbackHandler

CONSTANTS catcher, extractor
=============================================================================
