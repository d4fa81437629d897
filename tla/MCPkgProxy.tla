----------------------------- MODULE MCPkgProxy -----------------------------
(***************************************************************************)
(* PkgProxy for TLC: two addresses, two units from each peer, sockets and  *)
(* a cap small enough to be met.                                           *)
(***************************************************************************)
EXTENDS PkgProxy

=============================================================================
