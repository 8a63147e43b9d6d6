----------------------------- MODULE MCListPages -----------------------------
(* Up to two rows in each list.                                            *)
EXTENDS ListPages
=============================================================================
