------------------------------ MODULE RoleStore ------------------------------
(***************************************************************************)
(* The roles (path_roles.go): an operator's write reads the stored role,   *)
(* merges what the request supplies, checks the result and stores it, with *)
(* nothing to keep another write or a delete of the same role away in      *)
(* between.  What was stored under a name is kept as a history, in which   *)
(* the last entry is in force.                                             *)
(***************************************************************************)
EXTENDS Backend, RoleEntry, Sequences

CONSTANTS
  RoleNames,      \* names of Vault roles
  DefaultTTL,     \* the Default of ttl and
  DefaultMaxTTL,  \* of max_ttl in the schema of the path
  MaxVersions     \* bound on what is stored under one name in one behaviour

ASSUME RoleAssumption ==
  /\ DefaultTTL \in Nat /\ DefaultMaxTTL \in Nat
  /\ MaxVersions \in Nat \ {0}

VARIABLES
  hist,   \* what was stored under each name, oldest first
  pc,     \* where each role handler is
  job     \* its local variables

roleVars == <<hist, pc, job>>

\* floor (history) is the version in force when the request came, seen the one
\* that was read, entry what is to be stored.
Job == [name : RoleNames \cup {NoRole}, req : Requests \cup {NoRequest},
        floor : Nat, seen : Nat, entry : Role]
NoJob == [name |-> NoRole, req |-> NoRequest, floor |-> 0, seen |-> 0,
          entry |-> EmptyRole]

RoleTypeOK ==
  /\ hist \in [RoleNames -> Seq(Role \cup {NoRole})]
  /\ \A r \in RoleNames : hist[r] # <<>>
  /\ pc \in [Procs -> {"idle", "read", "put", "remove"}]
  /\ job \in [Procs -> Job]
  /\ \A p \in Procs : pc[p] # "idle" => job[p].name \in RoleNames

RoleInit ==
  /\ hist = [r \in RoleNames |-> <<NoRole>>]
  /\ pc = [p \in Procs |-> "idle"]
  /\ job = [p \in Procs |-> NoJob]

Version(r) == Len(hist[r])
RoleOf(r) == hist[r][Version(r)]

Goto(p, from, to) == pc[p] = from /\ pc' = [pc EXCEPT ![p] = to]
Return(p, from) == Goto(p, from, "idle") /\ job' = [job EXCEPT ![p] = NoJob]

Store(r, entry) ==
  /\ Version(r) < MaxVersions
  /\ hist' = [hist EXCEPT ![r] = Append(@, entry)]

-----------------------------------------------------------------------------
(* pathRoleWrite *)

BeginWrite(p, r, q) ==
  /\ Goto(p, "idle", "read")
  /\ job' = [job EXCEPT ![p] = [NoJob EXCEPT !.name = r, !.req = q,
                                             !.floor = Version(r)]]
  /\ UNCHANGED hist

\* The handler goes on to store entry if the checks let it.
Prepare(p, entry, accepted) ==
  /\ pc[p] = "read"
  /\ \/ /\ accepted
        /\ Goto(p, "read", "put")
        /\ job' = [job EXCEPT ![p].entry = entry, ![p].seen = Version(job[p].name)]
     \/ ~accepted /\ Return(p, "read")
  /\ UNCHANGED hist

Merged(p) == Merge(OrEmpty(RoleOf(job[p].name)), job[p].req)

\* Slip: the two times are compared only if the request supplies both.
CheckSupplied(p) ==
  Prepare(p, Merged(p),
          /\ Merged(p).keycloak_username # NoUser
          /\ job[p].req.ttl # Unset /\ job[p].req.max_ttl # Unset => Sound(Merged(p)))

\* getRole, the merge, and the checks: a role without a username, or with a ttl
\* over its max_ttl, ends the request.
ReadRole(p) == Prepare(p, Merged(p), Sound(Merged(p)))

\* Slip: the request is stored, not what it was merged into.
PutRequest(p) ==
  /\ Return(p, "put")
  /\ Store(job[p].name, job[p].req)

\* Slip: the role is stored in two Puts, its max_ttl with the second.
PutInParts(p) ==
  \/ /\ Return(p, "put")
     /\ Store(job[p].name, job[p].entry)
  \/ /\ Goto(p, "put", "put") /\ UNCHANGED job
     /\ Store(job[p].name, [job[p].entry EXCEPT !.max_ttl = 0])

\* setRole.  That it took effect says nothing about the answer, which may be
\* an error all the same.
PutRole(p) ==
  /\ Return(p, "put")
  /\ Store(job[p].name, job[p].entry)

-----------------------------------------------------------------------------
(* pathRoleDelete, and the storage *)

BeginDelete(p, r) ==
  /\ Goto(p, "idle", "remove")
  /\ job' = [job EXCEPT ![p] = [NoJob EXCEPT !.name = r, !.floor = Version(r)]]
  /\ UNCHANGED hist

RemoveRole(p) ==
  /\ Return(p, "remove")
  /\ Store(job[p].name, NoRole)

\* A storage call fails without effect, or the plugin dies.
RoleRequestFails(p) ==
  /\ Return(p, "read") \/ Return(p, "put") \/ Return(p, "remove")
  /\ UNCHANGED hist

RoleStep(p) ==
  \/ \E r \in RoleNames, q \in Requests : BeginWrite(p, r, q)
  \/ ReadRole(p) \/ PutRole(p)
  \/ \E r \in RoleNames : BeginDelete(p, r)
  \/ RemoveRole(p) \/ RoleRequestFails(p)

-----------------------------------------------------------------------------
(* Whatever overlaps, a stored role names a user and its ttl does not       *)
(* exceed its max_ttl, now or in the past: the check is made on the merged  *)
(* role, and that role is what is stored.  (path_roles.go:117-148)          *)
StoredRolesAreSound ==
  \A r \in RoleNames : \A v \in 1 .. Version(r) :
     hist[r][v] # NoRole => Sound(hist[r][v])

\* The roles and the requests under way, as RoleProvider has them.
Current == [r \in RoleNames |-> RoleOf(r)]

Since(p) == {hist[job[p].name][v] : v \in job[p].floor .. Version(job[p].name)}

Calls ==
  [p \in Procs |->
     IF pc[p] = "idle" THEN [op |-> "none"]
     ELSE [op |-> IF pc[p] = "remove" THEN "delete" ELSE "write",
           name |-> job[p].name, req |-> job[p].req, since |-> Since(p)]]

Provider == INSTANCE RoleProvider WITH roles <- Current, call <- Calls

(* A role request takes effect in one step and only once, whatever happens  *)
(* between its read and its storage call: a write puts in place the whole   *)
(* role, sound and merged into one that was in force since the request      *)
(* came, and the request is over.  A delete leaves nothing in place.        *)
(* (path_roles.go:117-155)                                                  *)
ImplementsRoleProvider == Provider!Spec

(* A role created without ttl or max_ttl has the documented ones            *)
(* (path_roles.go:48-54, README.md:492-493).  GetOk does not apply the      *)
(* Default of the schema, and the role holds 0.                             *)
DefaultsApply ==
  [][\A p \in Procs, r \in RoleNames :
       /\ pc[p] = "put" /\ pc'[p] = "idle" /\ job[p].name = r /\ hist' # hist
       /\ hist[r][job[p].seen] = NoRole
       => /\ job[p].req.ttl = Unset => RoleOf(r)'.ttl = DefaultTTL
          /\ job[p].req.max_ttl = Unset => RoleOf(r)'.max_ttl = DefaultMaxTTL]_roleVars
=============================================================================
