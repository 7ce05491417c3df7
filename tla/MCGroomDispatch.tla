--------------------------- MODULE MCGroomDispatch ---------------------------
(* TLC instances of GroomDispatch.  Runs are model values without a symmetry *)
(* set: the next unused one is chosen instead, which liveness checking and   *)
(* CHOOSE can bear.                                                          *)
EXTENDS GroomDispatch, TLC
=============================================================================
