--------------------------- MODULE MCServiceCaches ---------------------------
(* ServiceCaches for TLC: three calls that are model values. *)
EXTENDS ServiceCaches
=============================================================================
