------------------------- MODULE MCSplitRestatement -------------------------
(* TLC instances of SplitRestatement. *)
EXTENDS SplitRestatement
=============================================================================
