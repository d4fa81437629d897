----------------------------- MODULE MCSpscRing -----------------------------
(* SpscRing for TLC: the constants are ordinary values, set in the cfg.     *)
EXTENDS SpscRing
=============================================================================
