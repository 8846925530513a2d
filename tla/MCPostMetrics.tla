--------------------------- MODULE MCPostMetrics ---------------------------
(***************************************************************************)
(* Instances of PostMetrics for TLC.                                       *)
(***************************************************************************)
EXTENDS PostMetrics, TLC
=============================================================================
