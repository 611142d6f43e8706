---------------------------- MODULE MCClientCache ----------------------------
(* Instances of ClientCache for TLC. *)
EXTENDS ClientCache, TLC

MCText == {"", "master", "admin-cli", "http://kc/", "http://kc", "kv",
           "admin", "secret", "staff"}

MCTrimRight == [s \in MCText |-> IF s = "http://kc/" THEN "http://kc" ELSE s]

\* A full configuration, a change of the target realm, and a write that
\* leaves the configuration unusable.
MCRequests ==
  {[url |-> "http://kc/", master_admin_username |-> "admin",
    master_admin_password |-> "secret"],
   [target_realm |-> "staff"],
   [url |-> ""]}

\* Enough for the cache to be filled, cleared and refused.
MCFewRequests == MCRequests \ {[target_realm |-> "staff"]}

Symmetry == Permutations(Procs)
==============================================================================
