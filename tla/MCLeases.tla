------------------------------- MODULE MCLeases -------------------------------
(* Instances of Leases for TLC. *)
EXTENDS Leases, TLC

\* A role with both times, one with neither, a longer ttl and a shorter limit.
MCRequests ==
  {[NoRequest EXCEPT !.keycloak_username = "alice", !.ttl = 1, !.max_ttl = 3],
   [NoRequest EXCEPT !.keycloak_username = "alice"],
   [NoRequest EXCEPT !.ttl = 2],
   [NoRequest EXCEPT !.max_ttl = 1]}

Symmetry == Permutations(Procs)
==============================================================================
