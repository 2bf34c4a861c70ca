--------------------------- MODULE MCBatchImageJob ---------------------------
(***************************************************************************)
(* BatchImageJob on small instances.                                       *)
(***************************************************************************)
EXTENDS BatchImageJob
==============================================================================
