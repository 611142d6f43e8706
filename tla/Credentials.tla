----------------------------- MODULE Credentials -----------------------------
(***************************************************************************)
(* The life of a password: creds/<role> (path_credentials.go) and          *)
(* users/<name>/rotate (path_users.go) set a new one in Keycloak, sync it  *)
(* to KV and return it; revoking the lease of the former sets another that *)
(* nobody knows.  Requests run concurrently with each other and with       *)
(* changes of the configuration and the roles; Keycloak may be slow, may   *)
(* refuse, and may apply a request whose sender has given up; the plugin   *)
(* may die at any moment.                                                  *)
(*                                                                         *)
(* getClient is one step here, with the actions of AtomicCache, which      *)
(* ClientCache implements.  A role is replaced in one step, as             *)
(* RoleProvider has it, which RoleStore implements.                        *)
(***************************************************************************)
EXTENDS AtomicCache, KVSync

CONSTANTS
  Users,       \* Keycloak usernames
  RoleNames,   \* names of Vault roles
  NoRole,      \* the role does not exist
  NoLease      \* the request revokes nothing

Where(c) == [url |-> c.baseURL, realm |-> c.targetRealm]

\* Where in Keycloak a client sets the password of a user.
AccountOf(c, user) == [where |-> Where(c), user |-> user]

\* The clients there can be, and the realms they reach.
Conns == {ClientOf(c) : c \in {c \in Configs : Usable(c)}}
Places == {Where(c) : c \in Conns}
Account == [where : Places, user : Users]

SecretOf(config) ==
  <<KVAddr(config), config["kv_mount_path"], config["kv_secret_path"]>>

\* kv_password_key is optional, in a role and in a rotate request.
Key == Keys \cup {NoKey}
Role == [user : Users, key : Key]

\* user is what InternalData keeps; at (history) is where the password was set.
Lease == [pw : Password, user : Users, at : Account]

ASSUME CredentialsAssumption ==
  /\ NoRole \notin Role
  /\ NoLease \notin Lease
  /\ \A c \in Configs : KVConfigured(c) => SecretOf(c) \in Secrets

VARIABLES
  roles,     \* the entries under "roles/"
  pc, job,   \* where each request is, and its local variables
  nextPw,    \* the next password generatePassword will return
  wire,      \* reset-password requests sent and not yet applied
  keycloak,  \* the password of each account
  applied,   \* history: the passwords Keycloak ever set
  leases,    \* the leases Vault holds
  returned,  \* history: the passwords returned to callers
  revoked    \* history: the leases whose revocation succeeded, and where

lifetime == <<leases, returned, revoked>>
world == <<nextPw, wire, keycloak, applied>>
vars == <<stored, client, resets, conn, roles, pc, job, nextPw, wire,
          keycloak, applied, leases, returned, revoked, kv, sync, late>>

Kind == {"none", "creds", "rotate", "revoke"}
PC == {"idle", "client", "reset", "sent", "kv", "sync", "respond"}

\* lease is the one under revocation; kvSync says how the sync ended, in
\* silence ("none"), well or with a warning.
Job == [kind : Kind, user : Users \cup {NoRole}, key : Key,
        pw : 0 .. MaxPasswords, lease : Lease \cup {NoLease},
        kvSync : {"none", "done", "warned"}]
NoJob == [kind |-> "none", user |-> NoRole, key |-> NoKey, pw |-> 0,
          lease |-> NoLease, kvSync |-> "none"]

Message == [at : Account, pw : Password, kind : Kind]

TypeOK ==
  /\ stored \in Configs \cup {NoConfig}
  /\ client \in Conns \cup {NoClient}
  /\ resets \subseteq Handlers
  /\ conn \in [Procs -> Conns \cup {NoClient}]
  /\ roles \in [RoleNames -> Role \cup {NoRole}]
  /\ pc \in [Procs -> PC]
  /\ job \in [Procs -> Job]
  /\ nextPw \in 1 .. MaxPasswords + 1
  /\ wire \subseteq Message
  /\ keycloak \in [Account -> Nat]
  /\ applied \subseteq Password
  /\ leases \subseteq Lease
  /\ returned \subseteq [at : Account, pw : Password, kind : Kind]
  /\ revoked \subseteq [lease : Lease, where : Places]
  /\ KVTypeOK

Init ==
  /\ CacheInit
  /\ roles = [r \in RoleNames |-> NoRole]
  /\ pc = [p \in Procs |-> "idle"]
  /\ job = [p \in Procs |-> NoJob]
  /\ nextPw = 1
  /\ wire = {}
  /\ keycloak = [a \in Account |-> 0]
  /\ applied = {}
  /\ leases = {}
  /\ returned = {}
  /\ revoked = {}
  /\ KVInit

Goto(p, from, to) == pc[p] = from /\ pc' = [pc EXCEPT ![p] = to]

\* The handler returns, and the client it was given goes with it.
End(p, from) ==
  /\ Goto(p, from, "idle")
  /\ job' = [job EXCEPT ![p] = NoJob]
  /\ LetGo(p)

Target(p) == AccountOf(conn[p], job[p].user)

-----------------------------------------------------------------------------
(* A request begins *)

Begin(p, j) == Goto(p, "idle", "client") /\ job' = [job EXCEPT ![p] = j]

\* pathCredentialsRead: without the role the request ends at once.
BeginCreds(p, r) ==
  /\ roles[r] # NoRole
  /\ Begin(p, [NoJob EXCEPT !.kind = "creds", !.user = roles[r].user,
                            !.key = roles[r].key])
  /\ UNCHANGED <<cacheVars, roles, world, lifetime, kvVars>>

BeginRotate(p, user, key) ==
  /\ Begin(p, [NoJob EXCEPT !.kind = "rotate", !.user = user, !.key = key])
  /\ UNCHANGED <<cacheVars, roles, world, lifetime, kvVars>>

\* Slip: the user is looked up in the role, as it is now, not in the lease.
BeginRevokeByRole(p, l) ==
  /\ \A q \in Procs : job[q].lease # l
  /\ \E r \in RoleNames :
       /\ roles[r] # NoRole
       /\ Begin(p, [NoJob EXCEPT !.kind = "revoke", !.user = roles[r].user,
                                 !.lease = l])
  /\ UNCHANGED <<cacheVars, roles, world, lifetime, kvVars>>

\* Vault revokes a lease when it expires or is told to, and again after a
\* failure; it does not run two revocations of one lease at once.
BeginRevoke(p, l) ==
  /\ \A q \in Procs : job[q].lease # l
  /\ Begin(p, [NoJob EXCEPT !.kind = "revoke", !.user = l.user, !.lease = l])
  /\ UNCHANGED <<cacheVars, roles, world, lifetime, kvVars>>

-----------------------------------------------------------------------------
(* getClient, generatePassword, ResetPassword *)

GetClient(p) ==
  /\ Goto(p, "client", "reset")
  /\ Get(p)
  /\ UNCHANGED <<roles, job, world, lifetime, kvVars>>

\* The admin token and the user's ID were obtained, and the PUT goes out.
SendReset(p) ==
  /\ nextPw <= MaxPasswords
  /\ Goto(p, "reset", "sent")
  /\ job' = [job EXCEPT ![p].pw = nextPw]
  /\ wire' = wire \cup {[at |-> Target(p), pw |-> nextPw, kind |-> job[p].kind]}
  /\ nextPw' = nextPw + 1
  /\ UNCHANGED <<cacheVars, roles, keycloak, applied, lifetime, kvVars>>

\* Slip: an HTTP client without a timeout.
RefusedOrHung(p) ==
  /\ \/ Goto(p, "client", "idle") /\ job' = [job EXCEPT ![p] = NoJob] /\ GetFails
     \/ End(p, "reset")
  /\ UNCHANGED <<roles, world, lifetime, kvVars>>

\* No client, no token, no such user, a status other than 204, or the timeout:
\* the handler returns an error.  A request on the wire stays there.
RequestRefused(p) ==
  /\ \/ Goto(p, "client", "idle") /\ job' = [job EXCEPT ![p] = NoJob] /\ GetFails
     \/ End(p, "reset")
     \/ End(p, "sent")
  /\ UNCHANGED <<roles, world, lifetime, kvVars>>

\* Slip: the status of the answer is not looked at.
ResetUnchecked(p) ==
  /\ pc[p] = "sent"
  /\ IF job[p].kind = "revoke"
       THEN /\ leases' = leases \ {job[p].lease}
            /\ revoked' = revoked \cup
                 {[lease |-> job[p].lease, where |-> Where(conn[p])]}
            /\ End(p, "sent")
       ELSE /\ Goto(p, "sent", IF job[p].key = NoKey THEN "respond" ELSE "kv")
            /\ UNCHANGED <<cacheVars, job, leases, revoked>>
  /\ UNCHANGED <<roles, world, returned, kvVars>>

\* 204: a rotation goes on to KV if a key was asked for, a revocation is over
\* and Vault drops the lease.
ResetAnswered(p) ==
  /\ pc[p] = "sent"
  /\ job[p].pw \in applied
  /\ IF job[p].kind = "revoke"
       THEN /\ leases' = leases \ {job[p].lease}
            /\ revoked' = revoked \cup
                 {[lease |-> job[p].lease, where |-> Where(conn[p])]}
            /\ End(p, "sent")
       ELSE /\ Goto(p, "sent", IF job[p].key = NoKey THEN "respond" ELSE "kv")
            /\ UNCHANGED <<cacheVars, job, leases, revoked>>
  /\ UNCHANGED <<roles, world, returned, kvVars>>

-----------------------------------------------------------------------------
(* The KV sync after a rotation *)

\* The configuration is read again.  An absent entry and an unset mount or path
\* skip the sync without a warning, and so does a read error, at any time.
SkipSync(p) ==
  /\ Goto(p, "kv", "respond")
  /\ UNCHANGED <<cacheVars, roles, job, world, lifetime, kvVars>>

WarnNoToken(p) ==
  /\ Goto(p, "kv", "respond")
  /\ stored # NoConfig
  /\ KVConfigured(stored)
  /\ stored["kv_token"] = ""
  /\ job' = [job EXCEPT ![p].kvSync = "warned"]
  /\ UNCHANGED <<cacheVars, roles, world, lifetime, kvVars>>

BeginSync(p) ==
  /\ Goto(p, "kv", "sync")
  /\ stored # NoConfig
  /\ KVConfigured(stored)
  /\ stored["kv_token"] # ""
  /\ SyncStart(p, SecretOf(stored), job[p].key, job[p].pw)
  /\ UNCHANGED <<cacheVars, roles, job, world, lifetime>>

SyncStep(p) ==
  /\ KVStep(p)
  /\ UNCHANGED <<cacheVars, roles, pc, job, world, lifetime>>

\* Slip: an error of writeKVSecret is returned like any other.
EndSyncFatal(p) ==
  /\ \/ sync[p].phase = "done" /\ Goto(p, "sync", "respond")
        /\ job' = [job EXCEPT ![p].kvSync = "done"] /\ UNCHANGED cacheVars
     \/ sync[p].phase = "failed" /\ End(p, "sync")
  /\ SyncReturn(p)
  /\ UNCHANGED <<roles, world, lifetime>>

\* A failed sync becomes a warning; the rotation goes on either way.
EndSync(p) ==
  /\ Goto(p, "sync", "respond")
  /\ job' = [job EXCEPT ![p].kvSync =
                IF sync[p].phase = "done" THEN "done" ELSE "warned"]
  /\ SyncReturn(p)
  /\ UNCHANGED <<cacheVars, roles, world, lifetime>>

\* Slip: InternalData goes without keycloak_username.
RespondNoUser(p) ==
  /\ End(p, "respond")
  /\ returned' = returned \cup
       {[at |-> Target(p), pw |-> job[p].pw, kind |-> job[p].kind]}
  /\ leases' = IF job[p].kind = "creds"
                 THEN leases \cup {[pw |-> job[p].pw, user |-> NoRole, at |-> Target(p)]}
                 ELSE leases
  /\ UNCHANGED <<roles, world, revoked, kvVars>>

\* The password is returned; Vault registers a lease for the one of a role.
Respond(p) ==
  /\ End(p, "respond")
  /\ LET issued == [pw |-> job[p].pw, user |-> job[p].user, at |-> Target(p)]
     IN  /\ returned' = returned \cup
              {[at |-> issued.at, pw |-> issued.pw, kind |-> job[p].kind]}
         /\ leases' = IF job[p].kind = "creds" THEN leases \cup {issued} ELSE leases
  /\ UNCHANGED <<roles, world, revoked, kvVars>>

-----------------------------------------------------------------------------
(* Operators: the configuration and the roles *)

\* pathConfigWrite and pathConfigDelete up to the storage call, and their reset.
ChangeConfig(h) ==
  /\ Change(h)
  /\ UNCHANGED <<roles, pc, job, world, lifetime, kvVars>>

ResetClient(h) ==
  /\ Reset(h)
  /\ UNCHANGED <<roles, pc, job, world, lifetime, kvVars>>

\* pathRoleWrite stores any role with a username; pathRoleDelete removes it.
ChangeRole(r, role) ==
  /\ roles' = [roles EXCEPT ![r] = role]
  /\ UNCHANGED <<cacheVars, pc, job, world, lifetime, kvVars>>

-----------------------------------------------------------------------------
(* Keycloak, the network, and the plugin process (external) *)

\* Keycloak applies a request at most once, possibly long after its sender
\* gave up on it.  One that is lost is one that stays on the wire.
Apply(m) ==
  /\ wire' = wire \ {m}
  /\ keycloak' = [keycloak EXCEPT ![m.at] = m.pw]
  /\ applied' = applied \cup {m.pw}
  /\ UNCHANGED <<cacheVars, roles, pc, job, nextPw, lifetime, kvVars>>

\* A copy of a KV request arrives, whether its sender still waits or not.
KVArrive(r) ==
  /\ Arrive(r)
  /\ UNCHANGED <<cacheVars, roles, pc, job, world, lifetime>>

\* The requests in the plugin die with it, and so does the cached client.
\* (Dying while idle is dying right after a request began.)
Crash ==
  /\ \E p \in Procs : pc[p] # "idle"
  /\ Die
  /\ pc' = [p \in Procs |-> "idle"]
  /\ job' = [p \in Procs |-> NoJob]
  /\ sync' = [p \in Procs |-> NoSync]
  /\ UNCHANGED <<roles, world, lifetime, kv, late>>

-----------------------------------------------------------------------------
Request(p) ==
  \/ \E r \in RoleNames : BeginCreds(p, r)
  \/ \E user \in Users, key \in Key : BeginRotate(p, user, key)
  \/ \E l \in leases : BeginRevoke(p, l)

Step(p) ==
  \/ GetClient(p) \/ SendReset(p) \/ RequestRefused(p) \/ ResetAnswered(p)
  \/ SkipSync(p) \/ WarnNoToken(p) \/ BeginSync(p) \/ SyncStep(p) \/ EndSync(p)
  \/ Respond(p)

Operator ==
  \/ \E h \in Handlers : ChangeConfig(h) \/ ResetClient(h)
  \/ \E r \in RoleNames, role \in Role \cup {NoRole} : ChangeRole(r, role)

Next ==
  \/ \E p \in Procs : Request(p) \/ Step(p)
  \/ Operator
  \/ \E m \in wire : Apply(m)
  \/ \E r \in late : KVArrive(r)
  \/ Crash

Spec == Init /\ [][Next]_vars

\* Storage calls and getClient return, and the HTTP clients of Keycloak and
\* of KV have timeouts.  That a KV request goes astray is not progress.
FairSpec == Spec /\ \A p \in Procs : WF_vars(Step(p) /\ UNCHANGED late)

-----------------------------------------------------------------------------
(* A lease reported revoked is dead for good: the password it carried is    *)
(* not the account's any more and never becomes so again, provided the      *)
(* revocation spoke to the Keycloak realm the password was issued in.  The  *)
(* role may have been repointed or deleted meanwhile.                       *)
(* (path_credentials.go:143-166)                                            *)
RevokedIsDead ==
  \A r \in revoked :
     r.where = r.lease.at.where => keycloak[r.lease.at] # r.lease.pw

(* The same without the proviso: what path_credentials_test.go:93-95 calls  *)
(* the core security guarantee.  Changing target_realm or url between issue *)
(* and revocation breaks it.                                                *)
RevokedIsDeadEverywhere ==
  \A r \in revoked : keycloak[r.lease.at] # r.lease.pw

(* KV never holds a password that Keycloak was not given: the sync starts   *)
(* only after the answer.  (path_credentials.go:58-119, path_users.go:132-180) *)
KVHoldsAppliedPasswords ==
  \A s \in Secrets, k \in Keys : HasKey(s, k) => kv[s][k] \in applied

(* Once Keycloak has answered, a rotation ends by returning the password:   *)
(* nothing that happens around KV keeps it from the caller, short of a      *)
(* crash.  (path_credentials.go:91-121, path_users.go:151-182)              *)
KVIsNeverFatal ==
  [][\A p \in Procs :
       pc[p] \in {"kv", "sync", "respond"} /\ pc'[p] = "idle"
       => (\E r \in returned' : r.pw = job[p].pw) \/ \A q \in Procs : pc'[q] = "idle"]_vars

(* A rotation that was asked to sync, under a configuration that says where, *)
(* has synced or says in a warning that it has not (README.md:352-353).  The *)
(* code skips the sync in silence when reading the configuration fails.      *)
SyncedOrWarned ==
  [][\A p \in Procs :
       /\ pc[p] # "respond" /\ pc'[p] = "respond"
       /\ job[p].key # NoKey /\ stored # NoConfig /\ KVConfigured(stored)
       => job'[p].kvSync # "none"]_vars

(* The password returned by users/<name>/rotate stays valid until the next  *)
(* rotation (README.md:58-60, 574).  Revoking an older lease of the same    *)
(* user ends it too.                                                        *)
RotatedStaysValid ==
  [][\A r \in returned :
       r.kind = "rotate" /\ keycloak[r.at] = r.pw /\ keycloak'[r.at] # r.pw
       => \E m \in wire \ wire' : m.kind \in {"rotate", "creds"}]_vars

(* Every request ends, whatever Keycloak and KV do and however the operators *)
(* change the configuration under it: each wait has a timeout or a way out. *)
(* (client.go:68, 186-198; path_credentials.go:35-121, 143-166)              *)
EveryRequestEnds == \A p \in Procs : pc[p] # "idle" ~> pc[p] = "idle"

(* The engine keeps the promise of PasswordLife: no password is ever set    *)
(* twice, handed out before it was set, or reported revoked while valid.    *)
Life == INSTANCE PasswordLife WITH
  Accounts <- Account,
  Passwords <- Password,
  current <- keycloak,
  used <- applied,
  handed <- {r.pw : r \in returned},
  retired <- {[at |-> r.lease.at, pw |-> r.lease.pw] :
                r \in {r \in revoked : r.where = r.lease.at.where}}

ImplementsPasswordLife == Life!Spec
=============================================================================
