----------------------------- MODULE MCBusCall -----------------------------
(***************************************************************************)
(* BusCall for TLC: two calls against a runtime with a single place.  The  *)
(* first may run into its deadline, the second has none, so it is served   *)
(* at any instant.  The clock starts at 1 and the deadline is one tick     *)
(* ahead, so it lies inside the modelled time.                             *)
(***************************************************************************)
EXTENDS BusCall, TLC

CONSTANTS k1, a, b

MCStages == k1 :> 1
\* Requests and echoes of two fragments each, with the same chunks in another order.
MCBody == <<<<a, b>>, <<b, a>>>>
MCTimeout == <<1, 0>>

NoFrames == {}

=============================================================================
