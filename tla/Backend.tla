------------------------------- MODULE Backend -------------------------------
(***************************************************************************)
(* What every part of the plugin has in common (backend.go): Vault core    *)
(* calls it over RPC, each request in a goroutine of its own, and orders   *)
(* none of them.                                                           *)
(***************************************************************************)

CONSTANT Procs   \* the goroutines that serve requests
=============================================================================
