---------------------------- MODULE MCCredentials ----------------------------
(* Instances of Credentials for TLC. *)
EXTENDS Credentials, TLC

MCText == {"", "master", "admin-cli", "http://kc", "admin", "secret", "staff",
           "kv", "apps", "token"}

MCTrimRight == [s \in MCText |-> s]

Connected == [url |-> "http://kc", master_admin_username |-> "admin",
              master_admin_password |-> "secret"]
WithKV == Connected @@ [kv_mount_path |-> "kv", kv_secret_path |-> "apps"]

\* A configuration with KV sync, and two that lack the token, one of another
\* realm and one of the same.
Master == Merge(EmptyConfig, WithKV @@ [kv_token |-> "token"])
Staff == Merge(EmptyConfig, WithKV @@ [target_realm |-> "staff"])
NoToken == Merge(EmptyConfig, WithKV)

OneConfig == {Master}
TwoConfigs == {Master, Staff}
KVConfigs == {Master, NoToken}

MCSecrets == {SecretOf(Master)}

Symmetry == Permutations(Procs)
==============================================================================
