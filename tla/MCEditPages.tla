----------------------------- MODULE MCEditPages -----------------------------
(* One instance of every part.                                             *)
EXTENDS EditPages
=============================================================================
