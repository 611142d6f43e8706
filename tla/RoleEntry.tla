------------------------------ MODULE RoleEntry ------------------------------
(***************************************************************************)
(* A role of the engine (path_roles.go) as a value: how a role write       *)
(* merges a request into what is stored, and what is demanded of the       *)
(* result.  Durations are whole numbers; 0 is Go's zero value.             *)
(***************************************************************************)
EXTENDS Naturals

CONSTANTS
  Users,     \* Keycloak usernames
  NoUser,    \* the empty username
  Keys,      \* KV keys
  NoKey,     \* the empty kv_password_key
  Unset,     \* the request does not supply the field
  Requests,  \* the role writes that operators send
  NoRole     \* the storage entry is absent

User == Users \cup {NoUser}
Key == Keys \cup {NoKey}

\* keycloakRoleEntry
Role == [keycloak_username : User, ttl : Nat, max_ttl : Nat, kv_password_key : Key]
EmptyRole == [keycloak_username |-> NoUser, ttl |-> 0, max_ttl |-> 0,
              kv_password_key |-> NoKey]

Request == [keycloak_username : User \cup {Unset}, ttl : Nat \cup {Unset},
            max_ttl : Nat \cup {Unset}, kv_password_key : Key \cup {Unset}]
NoRequest == [keycloak_username |-> Unset, ttl |-> Unset, max_ttl |-> Unset,
              kv_password_key |-> Unset]

ASSUME EntryAssumption ==
  /\ Requests \subseteq Request
  /\ Unset \notin User \cup Nat \cup Key
  /\ NoUser \notin Users
  /\ NoRole \notin Role

Supplied(new, old) == IF new = Unset THEN old ELSE new

OrEmpty(entry) == IF entry = NoRole THEN EmptyRole ELSE entry

Merge(role, q) ==
  [keycloak_username |-> Supplied(q.keycloak_username, role.keycloak_username),
   ttl               |-> Supplied(q.ttl, role.ttl),
   max_ttl           |-> Supplied(q.max_ttl, role.max_ttl),
   kv_password_key   |-> Supplied(q.kv_password_key, role.kv_password_key)]

\* A max_ttl of 0 sets no limit.
Sound(role) ==
  /\ role.keycloak_username # NoUser
  /\ role.max_ttl > 0 => role.ttl <= role.max_ttl
=============================================================================
