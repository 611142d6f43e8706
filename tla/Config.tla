------------------------------- MODULE Config -------------------------------
(***************************************************************************)
(* The stored configuration of the engine (path_config.go) as a value: how *)
(* a config write merges a request into what is stored, what newClient     *)
(* (client.go) demands of it, and the client newClient makes of it.        *)
(*                                                                         *)
(* Strings are members of Text.  kv_tls_skip_verify is a boolean in Go;    *)
(* its zero value, false, is written "" here, like that of every other     *)
(* field.                                                                  *)
(***************************************************************************)

CONSTANTS
  Text,       \* the strings a field may hold
  TrimRight   \* strings.TrimRight(s, "/"), as a function on Text

ASSUME ConfigAssumption ==
  /\ {"", "master", "admin-cli"} \subseteq Text
  /\ TrimRight \in [Text -> Text]

Field ==
  {"url", "realm", "target_realm", "client_id",
   "master_admin_username", "master_admin_password",
   "kv_mount_path", "kv_secret_path", "kv_api_addr",
   "kv_tls_skip_verify", "kv_token"}

Config == [Field -> Text]

\* What a config write may supply: any subset of the fields (data.GetOk).
IsRequest(q) == DOMAIN q \subseteq Field /\ \A f \in DOMAIN q : q[f] \in Text

EmptyConfig == [f \in Field |-> ""]

\* Supplied fields replace stored ones; "realm" alone has a default, taken
\* only when it is neither supplied nor stored.
Merge(config, q) ==
  [f \in Field |->
     IF f \in DOMAIN q THEN q[f]
     ELSE IF f = "realm" /\ config[f] = "" THEN "master"
     ELSE config[f]]

\* newClient returns an error unless these three fields are set.
Usable(config) ==
  \A f \in {"url", "master_admin_username", "master_admin_password"} :
     config[f] # ""

OrElse(s, default) == IF s = "" THEN default ELSE s

\* The keycloakClient built from a usable configuration.
ClientOf(config) ==
  LET realm == OrElse(config["realm"], "master")
  IN  [baseURL     |-> TrimRight[config["url"]],
       realm       |-> realm,
       targetRealm |-> OrElse(config["target_realm"], realm),
       clientID    |-> OrElse(config["client_id"], "admin-cli"),
       username    |-> config["master_admin_username"],
       password    |-> config["master_admin_password"]]

Client == [baseURL : Text, realm : Text, targetRealm : Text,
           clientID : Text, username : Text, password : Text]

\* The two conditions under which a rotation attempts, or skips, a KV sync.
KVConfigured(config) ==
  config["kv_mount_path"] # "" /\ config["kv_secret_path"] # ""

KVAddr(config) == OrElse(config["kv_api_addr"], "https://127.0.0.1:8200")
=============================================================================
