-------------------------------- MODULE Leases --------------------------------
(***************************************************************************)
(* How long a leased credential lives: creds/<role> takes the times of the *)
(* role it read (path_credentials.go:84-89), a renewal those of the role   *)
(* as it is by then (secretRenew), and Vault computes the expiry from them *)
(* and from its own limits.  Roles are rewritten and deleted meanwhile, as *)
(* RoleStore has it, and the clock ticks.                                  *)
(*                                                                         *)
(* The password is the business of Credentials.                            *)
(***************************************************************************)
EXTENDS RoleStore

CONSTANTS
  LeaseIds,       \* the leases of one behaviour
  NoLease,        \* the lease was not issued yet
  Ended,          \* the lease was revoked
  NoGrant,        \* the goroutine is not about a lease
  SystemTTL,      \* default_lease_ttl of the mount
  SystemMaxTTL,   \* max_lease_ttl of the mount
  Increments,     \* the increments that renewals ask for, 0 for none
  MaxTime         \* bound on the clock

ASSUME LeaseAssumption ==
  /\ SystemTTL \in Nat \ {0}
  /\ SystemMaxTTL \in Nat /\ SystemTTL <= SystemMaxTTL
  /\ Increments \subseteq Nat
  /\ MaxTime \in Nat

VARIABLES
  now,     \* the time
  lease,   \* the leases, as Vault keeps them
  grant    \* the creds read or renewal each goroutine is in

leaseVars == <<now, lease, grant>>
vars == <<hist, pc, job, now, lease, grant>>

\* from and upto (history) are the versions of the role in force when the
\* request that granted the expiry came and when Vault granted it.
Lease == [role : RoleNames, ttl : Nat, max_ttl : Nat, issued : Nat,
          expire : Nat, from : Nat, upto : Nat]

\* What the plugin will tell Vault: resp.Secret.TTL and MaxTTL.
Grant == [kind : {"issue", "renew"}, id : LeaseIds, role : RoleNames,
          ttl : Nat, max_ttl : Nat, increment : Nat, floor : Nat]

TypeOK ==
  /\ RoleTypeOK
  /\ now \in Nat
  /\ lease \in [LeaseIds -> Lease \cup {NoLease, Ended}]
  /\ grant \in [Procs -> Grant \cup {NoGrant}]

Init ==
  /\ RoleInit
  /\ now = 0
  /\ lease = [i \in LeaseIds |-> NoLease]
  /\ grant = [p \in Procs |-> NoGrant]

Live(i) == lease[i] \notin {NoLease, Ended}

-----------------------------------------------------------------------------
(* CalculateTTL of Vault's framework *)

Limit(max_ttl) ==
  IF max_ttl > 0 /\ max_ttl < SystemMaxTTL THEN max_ttl ELSE SystemMaxTTL

Lesser(a, b) == IF a < b THEN a ELSE b

\* The increment asked for, or what the plugin said, or the mount's default;
\* never past the limit counted from the issue.
Expiry(g, issued) ==
  LET wanted == IF g.increment > 0 THEN g.increment
                ELSE IF g.ttl > 0 THEN g.ttl ELSE SystemTTL
  IN  Lesser(now + wanted, issued + Limit(g.max_ttl))

Granted(g, issued) ==
  [role |-> g.role, ttl |-> Expiry(g, issued) - now, max_ttl |-> g.max_ttl,
   issued |-> issued, expire |-> Expiry(g, issued),
   from |-> g.floor, upto |-> Version(g.role)]

-----------------------------------------------------------------------------
(* pathCredentialsRead *)

Idle(p) == pc[p] = "idle" /\ grant[p] = NoGrant

\* The role is read first; without it there is no credential.
BeginIssue(p, i, r) ==
  /\ Idle(p)
  /\ lease[i] = NoLease
  /\ RoleOf(r) # NoRole
  /\ grant' = [grant EXCEPT ![p] =
       [kind |-> "issue", id |-> i, role |-> r, ttl |-> RoleOf(r).ttl,
        max_ttl |-> RoleOf(r).max_ttl, increment |-> 0, floor |-> Version(r)]]
  /\ UNCHANGED <<roleVars, now, lease>>

\* The password was set, and Vault registers the lease with the response.
Register(p) ==
  /\ grant[p] # NoGrant /\ grant[p].kind = "issue"
  /\ lease[grant[p].id] = NoLease
  /\ lease' = [lease EXCEPT ![grant[p].id] = Granted(grant[p], now)]
  /\ grant' = [grant EXCEPT ![p] = NoGrant]
  /\ UNCHANGED <<roleVars, now>>

-----------------------------------------------------------------------------
(* secretRenew *)

\* Slip: what the lease kept is returned as it is.
RenewAsKept(p, i, n) ==
  /\ Idle(p)
  /\ Live(i) /\ now <= lease[i].expire
  /\ RoleOf(lease[i].role) # NoRole
  /\ grant' = [grant EXCEPT ![p] =
       [kind |-> "renew", id |-> i, role |-> lease[i].role,
        ttl |-> lease[i].ttl, max_ttl |-> lease[i].max_ttl,
        increment |-> n, floor |-> Version(lease[i].role)]]
  /\ UNCHANGED <<roleVars, now, lease>>

OrKept(value, kept) == IF value > 0 THEN value ELSE kept

\* Vault takes renewals of leases that have not expired.  The role is read
\* again; without it the renewal is refused, and a time it does not set stays
\* what it was in the lease.
BeginRenew(p, i, n) ==
  /\ Idle(p)
  /\ Live(i) /\ now <= lease[i].expire
  /\ LET role == RoleOf(lease[i].role)
     IN  /\ role # NoRole
         /\ grant' = [grant EXCEPT ![p] =
              [kind |-> "renew", id |-> i, role |-> lease[i].role,
               ttl |-> OrKept(role.ttl, lease[i].ttl),
               max_ttl |-> OrKept(role.max_ttl, lease[i].max_ttl),
               increment |-> n, floor |-> Version(lease[i].role)]]
  /\ UNCHANGED <<roleVars, now, lease>>

\* Vault computes the new expiry, unless there is no time left to grant.
Extend(p) ==
  /\ grant[p] # NoGrant /\ grant[p].kind = "renew"
  /\ Live(grant[p].id)
  /\ LET issued == lease[grant[p].id].issued
     IN  /\ now <= issued + Limit(grant[p].max_ttl)
         /\ lease' = [lease EXCEPT ![grant[p].id] = Granted(grant[p], issued)]
  /\ grant' = [grant EXCEPT ![p] = NoGrant]
  /\ UNCHANGED <<roleVars, now>>

\* Keycloak or the storage fails, the renewal comes too late, or the plugin dies.
GrantFails(p) ==
  /\ grant[p] # NoGrant
  /\ grant' = [grant EXCEPT ![p] = NoGrant]
  /\ UNCHANGED <<roleVars, now, lease>>

-----------------------------------------------------------------------------
(* Vault core (external) *)

\* A lease ends when it has expired or an operator revokes it.
End(i) ==
  /\ Live(i)
  /\ lease' = [lease EXCEPT ![i] = Ended]
  /\ UNCHANGED <<roleVars, now, grant>>

Tick ==
  /\ now < MaxTime
  /\ now' = now + 1
  /\ UNCHANGED <<roleVars, lease, grant>>

-----------------------------------------------------------------------------
Next ==
  \/ \E p \in Procs :
       \/ grant[p] = NoGrant /\ RoleStep(p) /\ UNCHANGED leaseVars
       \/ \E i \in LeaseIds, r \in RoleNames : BeginIssue(p, i, r)
       \/ \E i \in LeaseIds, n \in Increments : BeginRenew(p, i, n)
       \/ Register(p) \/ Extend(p) \/ GrantFails(p)
  \/ \E i \in LeaseIds : End(i)
  \/ Tick

Spec == Init /\ [][Next]_vars

-----------------------------------------------------------------------------
(* A lease expires no later than a role that was in force while it was      *)
(* issued or last renewed allows: a max_ttl shortened since the issue binds *)
(* every later renewal, whatever increment it asks for, and nothing is      *)
(* granted under a role that was deleted.                                   *)
(* (path_credentials.go:84-89, 168-192)                                     *)
LeaseObeysRole ==
  \A i \in LeaseIds : Live(i) =>
    \E v \in lease[i].from .. lease[i].upto :
      LET role == hist[lease[i].role][v]
      IN  role # NoRole /\ lease[i].expire <= lease[i].issued + Limit(role.max_ttl)
=============================================================================
