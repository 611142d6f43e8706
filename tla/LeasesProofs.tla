---------------------------- MODULE LeasesProofs ----------------------------
(***************************************************************************)
(* Proofs about RoleStore and Leases, for any goroutines, roles, requests, *)
(* leases, times and limits.                                               *)
(***************************************************************************)
EXTENDS Leases, TLAPS

(* A write has read, checked and merged what it is about to store, and what *)
(* it read is no older than its request.                                    *)
RoleInv ==
  \A p \in Procs :
     /\ pc[p] # "idle" => job[p].floor \in 1 .. Version(job[p].name)
     /\ pc[p] = "put" =>
          /\ Sound(job[p].entry)
          /\ job[p].seen \in job[p].floor .. Version(job[p].name)
          /\ job[p].entry = Merge(OrEmpty(hist[job[p].name][job[p].seen]), job[p].req)

(* A request that is about a lease carries a limit no longer than that of a  *)
(* role that was in force after it began.                                   *)
Allows(r, v, limit) == hist[r][v] # NoRole /\ limit <= Limit(hist[r][v].max_ttl)

GrantInv ==
  \A p \in Procs : grant[p] # NoGrant =>
     /\ grant[p].floor \in 1 .. Version(grant[p].role)
     /\ Allows(grant[p].role, grant[p].floor, Limit(grant[p].max_ttl))

(* A lease keeps the version of its role that allows its expiry.            *)
LeaseInv ==
  \A i \in LeaseIds : Live(i) =>
     /\ lease[i].from \in 1 .. lease[i].upto
     /\ lease[i].upto <= Version(lease[i].role)
     /\ Allows(lease[i].role, lease[i].from, lease[i].expire - lease[i].issued)

IInv == TypeOK /\ RoleInv /\ StoredRolesAreSound /\ GrantInv /\ LeaseInv

(* What was stored under a name stays in its history.                       *)
Kept ==
  \A r \in RoleNames :
     /\ Version(r) <= Version(r)'
     /\ \A v \in 1 .. Version(r) : hist'[r][v] = hist[r][v]

-----------------------------------------------------------------------------
(* The operators that make a role, and a limit *)

LEMMA MergeType ==
  ASSUME NEW role \in Role, NEW q \in Requests \cup {NoRequest}
  PROVE  Merge(role, q) \in Role
<1>1. q \in Request
  BY EntryAssumption DEF NoRequest, Request
<1> QED
  BY <1>1, EntryAssumption DEF Merge, Supplied, Role, Request

LEMMA OrEmptyType ==
  ASSUME NEW e \in Role \cup {NoRole}
  PROVE  OrEmpty(e) \in Role
BY DEF OrEmpty, EmptyRole, Role, User, Key

(* A limit of 0 is no limit: then the mount's is in force.                  *)
LEMMA LimitType ==
  ASSUME NEW m \in Nat
  PROVE  Limit(m) \in Nat /\ Limit(m) <= Limit(0)
BY LeaseAssumption DEF Limit

(* Storing an entry adds it to the history of its name.                     *)
LEMMA StoreEffect ==
  ASSUME RoleTypeOK, NEW r \in RoleNames, NEW e \in Role \cup {NoRole}, Store(r, e)
  PROVE  /\ hist' \in [RoleNames -> Seq(Role \cup {NoRole})]
         /\ \A q \in RoleNames : hist'[q] # <<>>
         /\ Kept
         /\ Version(r)' = Version(r) + 1 /\ RoleOf(r)' = e
         /\ \A q \in RoleNames \ {r} : hist'[q] = hist[q]
<1>1. /\ hist \in [RoleNames -> Seq(Role \cup {NoRole})]
      /\ hist' = [hist EXCEPT ![r] = Append(hist[r], e)]
  BY DEF RoleTypeOK, Store
<1>2. hist'[r] = Append(hist[r], e) /\ \A q \in RoleNames \ {r} : hist'[q] = hist[q]
  BY <1>1
<1>3. /\ hist[r] \in Seq(Role \cup {NoRole})
      /\ Append(hist[r], e) \in Seq(Role \cup {NoRole})
      /\ Len(Append(hist[r], e)) = Len(hist[r]) + 1
      /\ Append(hist[r], e)[Len(hist[r]) + 1] = e
      /\ \A v \in 1 .. Len(hist[r]) : Append(hist[r], e)[v] = hist[r][v]
      /\ Append(hist[r], e) # <<>>
  BY <1>1
<1>4. \A q \in RoleNames : Len(hist[q]) \in Nat
  BY <1>1
<1> QED
  BY <1>1, <1>2, <1>3, <1>4 DEF Kept, Version, RoleOf, RoleTypeOK

(* The role in force is one of the history. *)
LEMMA RoleOfType ==
  ASSUME RoleTypeOK, NEW r \in RoleNames
  PROVE  /\ Version(r) \in Nat \ {0}
         /\ RoleOf(r) = hist[r][Version(r)]
         /\ RoleOf(r) \in Role \cup {NoRole}
         /\ \A v \in 1 .. Version(r) : hist[r][v] \in Role \cup {NoRole}
<1>1. hist[r] \in Seq(Role \cup {NoRole}) /\ hist[r] # <<>>
  BY DEF RoleTypeOK
<1> QED
  BY <1>1 DEF Version, RoleOf

(* As long as the history only grows, what was allowed stays allowed. *)
LEMMA AllowsKept ==
  ASSUME RoleTypeOK, RoleTypeOK', Kept,
         NEW r \in RoleNames, NEW v \in 1 .. Version(r), NEW limit
  PROVE  v \in 1 .. Version(r)' /\ (Allows(r, v, limit) => Allows(r, v, limit)')
<1>1. Version(r) \in Nat /\ Version(r)' \in Nat
  BY DEF RoleTypeOK, Version
<1> QED
  BY <1>1 DEF Kept, Allows

(* Where no handler stores, nothing is lost. *)
LEMMA SameKept ==
  ASSUME RoleTypeOK, UNCHANGED hist
  PROVE  Kept
<1>1. \A r \in RoleNames : Version(r) \in Nat /\ Version(r)' = Version(r)
  BY DEF RoleTypeOK, Version
<1> QED
  BY <1>1 DEF Kept

-----------------------------------------------------------------------------
(* The role handlers *)

(* What a handler moves between idle and its last step keeps its type. *)
LEMMA GotoType ==
  ASSUME RoleTypeOK, NEW p \in Procs, NEW to \in {"idle", "read", "put", "remove"}, NEW j \in Job,
         pc' = [pc EXCEPT ![p] = to], job' = [job EXCEPT ![p] = j],
         to # "idle" => j.name \in RoleNames,
         hist' \in [RoleNames -> Seq(Role \cup {NoRole})],
         \A r \in RoleNames : hist'[r] # <<>>
  PROVE  /\ RoleTypeOK'
         /\ pc'[p] = to /\ job'[p] = j
         /\ \A q \in Procs \ {p} : pc'[q] = pc[q] /\ job'[q] = job[q]
<1>1. /\ pc'[p] = to /\ job'[p] = j
      /\ \A q \in Procs \ {p} : pc'[q] = pc[q] /\ job'[q] = job[q]
  BY DEF RoleTypeOK
<1>2. \A q \in Procs : pc'[q] # "idle" => job'[q].name \in RoleNames
  BY <1>1 DEF RoleTypeOK
<1>3. /\ pc' \in [Procs -> {"idle", "read", "put", "remove"}]
      /\ job' \in [Procs -> Job]
  BY DEF RoleTypeOK
<1> QED
  BY <1>1, <1>2, <1>3 DEF RoleTypeOK

(* An idle handler's local variables have their types. *)
LEMMA NoJobType == NoJob \in Job /\ EmptyRole \in Role
BY DEF NoJob, Job, EmptyRole, Role, User, Key

(* The other handlers' knowledge of the history outlives a change of it. *)
LEMMA OthersKept ==
  ASSUME RoleTypeOK, RoleTypeOK', RoleInv, Kept, NEW q \in Procs,
         pc'[q] = pc[q], job'[q] = job[q]
  PROVE  /\ pc'[q] # "idle" => job'[q].floor \in 1 .. Version(job[q].name)'
         /\ pc'[q] = "put" =>
              /\ Sound(job'[q].entry)
              /\ job'[q].seen \in job[q].floor .. Version(job[q].name)'
              /\ job'[q].entry = Merge(OrEmpty(hist'[job[q].name][job[q].seen]), job[q].req)
<1> SUFFICES ASSUME pc[q] # "idle"
             PROVE  /\ job[q].floor \in 1 .. Version(job[q].name)'
                    /\ pc[q] = "put" =>
                         /\ Sound(job[q].entry)
                         /\ job[q].seen \in job[q].floor .. Version(job[q].name)'
                         /\ job[q].entry = Merge(OrEmpty(hist'[job[q].name][job[q].seen]), job[q].req)
  OBVIOUS
<1> PICK r \in RoleNames : r = job[q].name
  BY DEF RoleTypeOK
<1>1. Version(r) \in Nat /\ Version(r)' \in Nat
  BY DEF RoleTypeOK, Version
<1>2. job[q].floor \in 1 .. Version(r)
  BY DEF RoleInv
<1>3. Version(r) <= Version(r)' /\ \A v \in 1 .. Version(r) : hist'[r][v] = hist[r][v]
  BY DEF Kept
<1>4. job[q].floor \in 1 .. Version(r)'
  BY <1>1, <1>2, <1>3
<1>5. ASSUME pc[q] = "put"
      PROVE  /\ Sound(job[q].entry)
             /\ job[q].seen \in job[q].floor .. Version(r)'
             /\ job[q].entry = Merge(OrEmpty(hist'[r][job[q].seen]), job[q].req)
  <2>1. /\ Sound(job[q].entry)
        /\ job[q].seen \in job[q].floor .. Version(r)
        /\ job[q].entry = Merge(OrEmpty(hist[r][job[q].seen]), job[q].req)
    BY <1>5 DEF RoleInv
  <2>2. job[q].seen \in 1 .. Version(r)
    BY <1>1, <1>2, <2>1
  <2>3. job[q].seen \in job[q].floor .. Version(r)'
    BY <1>1, <1>2, <1>3, <2>1
  <2> QED
    BY <1>3, <2>1, <2>2, <2>3
<1> QED
  BY <1>4, <1>5

(* A handler that returns knows nothing any more. *)
LEMMA ReturnInv ==
  ASSUME RoleTypeOK, RoleInv, Kept, NEW p \in Procs, NEW from, Return(p, from),
         hist' \in [RoleNames -> Seq(Role \cup {NoRole})],
         \A r \in RoleNames : hist'[r] # <<>>
  PROVE  RoleTypeOK' /\ RoleInv'
<1>1. pc' = [pc EXCEPT ![p] = "idle"] /\ job' = [job EXCEPT ![p] = NoJob]
  BY DEF Return, Goto
<1>2. /\ RoleTypeOK' /\ pc'[p] = "idle"
      /\ \A q \in Procs \ {p} : pc'[q] = pc[q] /\ job'[q] = job[q]
  BY <1>1, GotoType, NoJobType
<1>3. RoleInv'
  <2>1. ASSUME NEW q \in Procs \ {p}
        PROVE  /\ pc'[q] = pc[q] /\ job'[q] = job[q]
               /\ pc'[q] # "idle" => job'[q].floor \in 1 .. Version(job[q].name)'
               /\ pc'[q] = "put" =>
                    /\ Sound(job'[q].entry)
                    /\ job'[q].seen \in job[q].floor .. Version(job[q].name)'
                    /\ job'[q].entry = Merge(OrEmpty(hist'[job[q].name][job[q].seen]), job[q].req)
    BY <1>2, OthersKept
  <2> QED
    BY <1>2, <2>1 DEF RoleInv, Version
<1> QED
  BY <1>2, <1>3

(* A handler that goes on knows what it has read, if it has read it. *)
LEMMA GoOnInv ==
  ASSUME RoleTypeOK, RoleInv, UNCHANGED hist, NEW p \in Procs,
         NEW to \in {"read", "put", "remove"}, NEW j \in Job,
         pc' = [pc EXCEPT ![p] = to], job' = [job EXCEPT ![p] = j],
         j.name \in RoleNames, j.floor \in 1 .. Version(j.name),
         to = "put" => /\ Sound(j.entry)
                       /\ j.seen \in j.floor .. Version(j.name)
                       /\ j.entry = Merge(OrEmpty(hist[j.name][j.seen]), j.req)
  PROVE  RoleTypeOK' /\ RoleInv'
<1>1. /\ RoleTypeOK' /\ pc'[p] = to /\ job'[p] = j
      /\ \A q \in Procs \ {p} : pc'[q] = pc[q] /\ job'[q] = job[q]
  BY GotoType DEF RoleTypeOK
<1>2. RoleInv'
  BY <1>1 DEF RoleInv, Version
<1> QED
  BY <1>1, <1>2

(* Sound roles and deletions are all that is added to the histories. *)
LEMMA StoreSound ==
  ASSUME RoleTypeOK, StoredRolesAreSound, NEW r \in RoleNames, NEW e \in Role \cup {NoRole},
         Store(r, e), e # NoRole => Sound(e)
  PROVE  StoredRolesAreSound'
<1>1. /\ Version(r) \in Nat /\ Version(r)' = Version(r) + 1 /\ hist'[r][Version(r)'] = e
      /\ \A v \in 1 .. Version(r) : hist'[r][v] = hist[r][v]
      /\ \A q \in RoleNames \ {r} : hist'[q] = hist[q]
  BY StoreEffect, RoleOfType DEF Kept, RoleOf
<1>2. \A v \in 1 .. Version(r)' : v \in 1 .. Version(r) \/ v = Version(r)'
  BY <1>1
<1>3. \A v \in 1 .. Version(r)' : hist'[r][v] # NoRole => Sound(hist'[r][v])
  BY <1>1, <1>2 DEF StoredRolesAreSound
<1>4. \A q \in RoleNames \ {r} : Version(q)' = Version(q)
  BY <1>1 DEF Version
<1> QED
  BY <1>1, <1>3, <1>4 DEF StoredRolesAreSound

(* Every step of a role handler keeps the roles sound and the history. *)
LEMMA RoleStepInv ==
  ASSUME RoleTypeOK, RoleInv, StoredRolesAreSound, NEW p \in Procs, RoleStep(p)
  PROVE  RoleTypeOK' /\ RoleInv' /\ StoredRolesAreSound' /\ Kept
<1>0. /\ hist \in [RoleNames -> Seq(Role \cup {NoRole})]
      /\ \A r \in RoleNames : hist[r] # <<>>
      /\ job[p] \in Job
  BY DEF RoleTypeOK
<1>1. ASSUME UNCHANGED hist PROVE StoredRolesAreSound' /\ Kept
  BY <1>1, SameKept DEF StoredRolesAreSound, Version
<1>2. ASSUME NEW r \in RoleNames, NEW q \in Requests, BeginWrite(p, r, q)
      PROVE  RoleTypeOK' /\ RoleInv' /\ UNCHANGED hist
  <2>1. Version(r) \in Nat \ {0}
    BY RoleOfType
  <2>2. [NoJob EXCEPT !.name = r, !.req = q, !.floor = Version(r)] \in Job
    BY <2>1, NoJobType DEF NoJob, Job
  <2>3. PICK j \in Job : j = [NoJob EXCEPT !.name = r, !.req = q, !.floor = Version(r)]
    BY <2>2
  <2>4. j.name = r /\ j.floor = Version(r)
    BY <2>3 DEF NoJob
  <2>5. j.name \in RoleNames /\ j.floor \in 1 .. Version(j.name)
    BY <2>1, <2>4
  <2>6. /\ pc' = [pc EXCEPT ![p] = "read"] /\ job' = [job EXCEPT ![p] = j]
        /\ UNCHANGED hist
    BY <1>2, <2>3 DEF BeginWrite, Goto
  <2> QED
    BY <2>5, <2>6, GoOnInv
<1>3. ASSUME ReadRole(p) PROVE RoleTypeOK' /\ RoleInv' /\ UNCHANGED hist
  <2> PICK r \in RoleNames : r = job[p].name
    BY <1>3 DEF ReadRole, Prepare, RoleTypeOK
  <2>1. pc[p] = "read" /\ UNCHANGED hist
    BY <1>3 DEF ReadRole, Prepare
  <2>2. job[p].floor \in 1 .. Version(r) /\ Version(r) \in Nat
    BY <2>1, RoleOfType DEF RoleInv
  <2>3. CASE Return(p, "read")
    BY <1>0, <1>1, <2>1, <2>3, ReturnInv
  <2>4. CASE ~Return(p, "read")
    <3>1. PICK e \in Role : e = Merged(p)
      BY <1>0, RoleOfType, OrEmptyType, MergeType DEF Merged, Job
    <3> DEFINE j == [job[p] EXCEPT !.entry = e, !.seen = Version(r)]
    <3>2. /\ Sound(e)
          /\ pc' = [pc EXCEPT ![p] = "put"] /\ job' = [job EXCEPT ![p] = j]
      BY <1>3, <2>4, <3>1 DEF ReadRole, Prepare, Goto
    <3>3. /\ j \in Job /\ j.name = r /\ j.floor = job[p].floor /\ j.req = job[p].req
          /\ j.entry = e /\ j.seen = Version(r)
      BY <1>0, <2>2 DEF Job
    <3>4. e = Merge(OrEmpty(hist[r][Version(r)]), job[p].req)
      BY <3>1 DEF Merged, RoleOf
    <3>5. Version(r) \in job[p].floor .. Version(r)
      BY <2>2
    <3> HIDE DEF j
    <3> QED
      BY <2>1, <2>2, <3>2, <3>3, <3>4, <3>5, GoOnInv
  <2> QED
    BY <2>1, <2>3, <2>4
<1>4. ASSUME PutRole(p) PROVE RoleTypeOK' /\ RoleInv' /\ StoredRolesAreSound' /\ Kept
  <2>1. /\ pc[p] = "put" /\ Return(p, "put") /\ job[p].name \in RoleNames
        /\ Store(job[p].name, job[p].entry) /\ job[p].entry \in Role
    BY <1>0, <1>4 DEF PutRole, Return, Goto, RoleTypeOK, Job
  <2>2. Sound(job[p].entry)
    BY <2>1 DEF RoleInv
  <2> QED
    BY <2>1, <2>2, StoreEffect, StoreSound, ReturnInv
<1>5. ASSUME NEW r \in RoleNames, BeginDelete(p, r)
      PROVE  RoleTypeOK' /\ RoleInv' /\ UNCHANGED hist
  <2>1. Version(r) \in Nat \ {0}
    BY RoleOfType
  <2>2. [NoJob EXCEPT !.name = r, !.floor = Version(r)] \in Job
    BY <2>1, NoJobType DEF NoJob, Job
  <2>3. PICK j \in Job : j = [NoJob EXCEPT !.name = r, !.floor = Version(r)]
    BY <2>2
  <2>4. j.name = r /\ j.floor = Version(r)
    BY <2>3 DEF NoJob
  <2>5. j.name \in RoleNames /\ j.floor \in 1 .. Version(j.name)
    BY <2>1, <2>4
  <2>6. /\ pc' = [pc EXCEPT ![p] = "remove"] /\ job' = [job EXCEPT ![p] = j]
        /\ UNCHANGED hist
    BY <1>5, <2>3 DEF BeginDelete, Goto
  <2> QED
    BY <2>5, <2>6, GoOnInv
<1>6. ASSUME RemoveRole(p) PROVE RoleTypeOK' /\ RoleInv' /\ StoredRolesAreSound' /\ Kept
  <2>1. Return(p, "remove") /\ job[p].name \in RoleNames /\ Store(job[p].name, NoRole)
    BY <1>6 DEF RemoveRole, Return, Goto, RoleTypeOK
  <2> QED
    BY <2>1, StoreEffect, StoreSound, ReturnInv
<1>7. ASSUME RoleRequestFails(p) PROVE RoleTypeOK' /\ RoleInv' /\ UNCHANGED hist
  BY <1>0, <1>1, <1>7, ReturnInv DEF RoleRequestFails
<1> QED
  BY <1>1, <1>2, <1>3, <1>4, <1>5, <1>6, <1>7 DEF RoleStep

-----------------------------------------------------------------------------
(* The leases *)

(* As the roles change, requests and leases remain allowed.                  *)
LEMMA RolesMove ==
  ASSUME TypeOK, GrantInv, LeaseInv, RoleTypeOK', Kept, UNCHANGED leaseVars
  PROVE  TypeOK' /\ GrantInv' /\ LeaseInv'
<1>1. /\ RoleTypeOK /\ now' = now /\ lease' = lease /\ grant' = grant
      /\ lease \in [LeaseIds -> Lease \cup {NoLease, Ended}]
      /\ grant \in [Procs -> Grant \cup {NoGrant}]
  BY DEF TypeOK, leaseVars
<1>2. TypeOK'
  BY <1>1 DEF TypeOK
<1>3. \A r \in RoleNames : Version(r) \in Nat /\ Version(r)' \in Nat /\ Version(r) <= Version(r)'
  BY <1>1, RoleOfType DEF Kept, RoleTypeOK, Version
<1>4. GrantInv'
  <2> SUFFICES ASSUME NEW p \in Procs, grant[p] # NoGrant
               PROVE  /\ grant[p].floor \in 1 .. Version(grant[p].role)'
                      /\ Allows(grant[p].role, grant[p].floor, Limit(grant[p].max_ttl))'
    BY <1>1 DEF GrantInv
  <2>1. PICK g \in Grant : g = grant[p]
    BY <1>1
  <2>2. /\ g.role \in RoleNames /\ g.floor \in 1 .. Version(g.role)
        /\ Allows(g.role, g.floor, Limit(g.max_ttl))
    BY <2>1 DEF GrantInv, Grant
  <2>3. g.floor \in 1 .. Version(g.role)' /\ Allows(g.role, g.floor, Limit(g.max_ttl))'
    BY <1>1, <2>2, AllowsKept
  <2> QED
    BY <1>1, <2>1, <2>3 DEF Allows
<1>5. LeaseInv'
  <2> SUFFICES ASSUME NEW i \in LeaseIds, Live(i)
               PROVE  /\ lease[i].from \in 1 .. lease[i].upto
                      /\ lease[i].upto <= Version(lease[i].role)'
                      /\ Allows(lease[i].role, lease[i].from, lease[i].expire - lease[i].issued)'
    BY <1>1 DEF LeaseInv, Live
  <2>1. PICK l \in Lease : l = lease[i]
    BY <1>1 DEF Live
  <2>2. /\ l.role \in RoleNames /\ l.from \in 1 .. l.upto /\ l.upto \in Nat
        /\ l.upto <= Version(l.role)
        /\ Allows(l.role, l.from, l.expire - l.issued)
    BY <2>1 DEF LeaseInv, Lease
  <2>3. l.from \in 1 .. Version(l.role) /\ l.upto <= Version(l.role)'
    BY <1>3, <2>2
  <2>4. Allows(l.role, l.from, l.expire - l.issued)'
    BY <1>1, <2>2, <2>3, AllowsKept
  <2> QED
    BY <1>1, <2>1, <2>2, <2>3, <2>4 DEF Allows
<1> QED
  BY <1>2, <1>4, <1>5

(* A request may begin if a role in force allows its limit.                  *)
LEMMA GrantSet ==
  ASSUME TypeOK, GrantInv, LeaseInv, UNCHANGED <<roleVars, now, lease>>,
         NEW p \in Procs, NEW g \in Grant \cup {NoGrant},
         grant' = [grant EXCEPT ![p] = g],
         g # NoGrant => /\ g.floor \in 1 .. Version(g.role)
                        /\ Allows(g.role, g.floor, Limit(g.max_ttl))
  PROVE  TypeOK' /\ GrantInv' /\ LeaseInv'
<1>1. /\ grant'[p] = g /\ \A q \in Procs \ {p} : grant'[q] = grant[q]
      /\ grant' \in [Procs -> Grant \cup {NoGrant}]
  BY DEF TypeOK
<1>2. hist' = hist /\ pc' = pc /\ job' = job /\ now' = now /\ lease' = lease
  BY DEF roleVars
<1>3. TypeOK'
  BY <1>1, <1>2 DEF TypeOK, RoleTypeOK
<1>4. LeaseInv'
  BY <1>2 DEF LeaseInv, Live, Allows, Version
<1>5. GrantInv'
  BY <1>1, <1>2 DEF GrantInv, Allows, Version
<1> QED
  BY <1>3, <1>4, <1>5

(* What Vault grants, a role in force since the request came allows.         *)
LEMMA GrantedAllowed ==
  ASSUME TypeOK, GrantInv, NEW p \in Procs, grant[p] # NoGrant, NEW issued \in Nat,
         now <= issued + Limit(grant[p].max_ttl)
  PROVE  \E l \in Lease :
           /\ l = Granted(grant[p], issued)
           /\ l.from \in 1 .. l.upto /\ l.upto = Version(l.role)
           /\ Allows(l.role, l.from, l.expire - l.issued)
<1>1. PICK g \in Grant : g = grant[p]
  BY DEF TypeOK
<1>2. /\ g.role \in RoleNames /\ g.max_ttl \in Nat /\ g.ttl \in Nat /\ g.increment \in Nat
      /\ g.floor \in Nat /\ now \in Nat
  BY DEF Grant, TypeOK
<1>3. g.floor \in 1 .. Version(g.role) /\ Allows(g.role, g.floor, Limit(g.max_ttl))
  BY <1>1 DEF GrantInv
<1>4. Version(g.role) \in Nat /\ hist[g.role][g.floor] \in Role \cup {NoRole}
  BY <1>2, <1>3, RoleOfType DEF TypeOK
<1>5. PICK m \in Nat : m = Limit(hist[g.role][g.floor].max_ttl)
  BY <1>3, <1>4, LimitType DEF Allows, Role
<1>6. /\ Limit(g.max_ttl) \in Nat /\ Limit(g.max_ttl) <= m
  BY <1>2, <1>3, <1>5, LimitType DEF Allows
<1>7. PICK e \in Nat : e = Expiry(g, issued)
  BY <1>2, <1>6, LeaseAssumption DEF Expiry, Lesser
<1>8. now <= e /\ e <= issued + Limit(g.max_ttl)
  BY <1>1, <1>2, <1>6, <1>7, LeaseAssumption DEF Expiry, Lesser
<1>9. e - now \in Nat /\ e - issued <= m
  BY <1>2, <1>6, <1>8
<1> DEFINE l == Granted(g, issued)
<1>10. /\ l.role = g.role /\ l.from = g.floor /\ l.upto = Version(g.role)
       /\ l.expire = e /\ l.issued = issued
  BY <1>7 DEF Granted
<1>11. l \in Lease
  BY <1>2, <1>4, <1>7, <1>9 DEF Granted, Lease
<1>12. Allows(l.role, l.from, l.expire - l.issued)
  BY <1>3, <1>5, <1>9, <1>10 DEF Allows
<1> HIDE DEF l
<1>13. l.from \in 1 .. l.upto /\ l.upto = Version(l.role)
  BY <1>3, <1>10
<1> QED
  BY <1>1, <1>11, <1>12, <1>13 DEF l

(* A lease may be granted so, or end.                                       *)
LEMMA LeaseSet ==
  ASSUME TypeOK, GrantInv, LeaseInv, UNCHANGED <<roleVars, now>>,
         NEW i \in LeaseIds, NEW l \in Lease \cup {Ended},
         lease' = [lease EXCEPT ![i] = l],
         l # Ended => /\ l.from \in 1 .. l.upto /\ l.upto = Version(l.role)
                      /\ Allows(l.role, l.from, l.expire - l.issued),
         \/ UNCHANGED grant
         \/ \E p \in Procs : grant' = [grant EXCEPT ![p] = NoGrant]
  PROVE  TypeOK' /\ GrantInv' /\ LeaseInv'
<1>1. /\ lease'[i] = l /\ \A k \in LeaseIds \ {i} : lease'[k] = lease[k]
      /\ lease' \in [LeaseIds -> Lease \cup {NoLease, Ended}]
  BY DEF TypeOK
<1>2. /\ \A q \in Procs : grant'[q] \in {grant[q], NoGrant}
      /\ grant' \in [Procs -> Grant \cup {NoGrant}]
  BY DEF TypeOK
<1>3. hist' = hist /\ pc' = pc /\ job' = job /\ now' = now
  BY DEF roleVars
<1>4. TypeOK'
  BY <1>1, <1>2, <1>3 DEF TypeOK, RoleTypeOK
<1>5. GrantInv'
  <2> SUFFICES ASSUME NEW q \in Procs, grant'[q] # NoGrant
               PROVE  /\ grant'[q].floor \in 1 .. Version(grant'[q].role)
                      /\ Allows(grant'[q].role, grant'[q].floor, Limit(grant'[q].max_ttl))
    BY <1>3 DEF GrantInv, Allows, Version
  <2> QED
    BY <1>2 DEF GrantInv
<1>6. ASSUME NEW k \in LeaseIds, Live(k)'
      PROVE  /\ lease'[k].from \in 1 .. lease'[k].upto
             /\ lease'[k].upto <= Version(lease'[k].role)
             /\ Allows(lease'[k].role, lease'[k].from, lease'[k].expire - lease'[k].issued)
  <2>1. CASE k = i
    <3>1. l # Ended /\ l \in Lease
      BY <1>1, <1>6, <2>1 DEF Live
    <3>2. Version(l.role) <= Version(l.role)
      BY <3>1, RoleOfType DEF TypeOK, Lease
    <3> QED
      BY <1>1, <2>1, <3>1, <3>2
  <2>2. CASE k # i
    <3>1. lease'[k] = lease[k] /\ Live(k)
      BY <1>1, <1>6, <2>2 DEF Live
    <3> QED
      BY <3>1 DEF LeaseInv
  <2> QED
    BY <2>1, <2>2
<1>7. LeaseInv'
  BY <1>3, <1>6 DEF LeaseInv, Allows, Version
<1> QED
  BY <1>4, <1>5, <1>7

-----------------------------------------------------------------------------
(* The invariant *)

LEMMA InitInv == Init => IInv
<1> SUFFICES ASSUME Init PROVE IInv
  OBVIOUS
<1>1. RoleTypeOK
  BY NoJobType DEF Init, RoleInit, RoleTypeOK
<1>2. TypeOK
  BY <1>1 DEF Init, TypeOK
<1>3. RoleInv
  BY DEF Init, RoleInit, RoleInv
<1>4. StoredRolesAreSound
  <2> SUFFICES ASSUME NEW r \in RoleNames, NEW v \in 1 .. Version(r)
               PROVE  hist[r][v] = NoRole
    BY DEF StoredRolesAreSound
  <2>1. hist[r] = <<NoRole>> /\ v = 1
    BY DEF Init, RoleInit, Version
  <2> QED
    BY <2>1
<1>5. GrantInv /\ LeaseInv
  BY DEF Init, GrantInv, LeaseInv, Live
<1> QED
  BY <1>2, <1>3, <1>4, <1>5 DEF IInv

(* The actions of the leases leave the roles alone. *)
LEMMA RolesSame ==
  ASSUME RoleInv, StoredRolesAreSound, UNCHANGED roleVars
  PROVE  RoleInv' /\ StoredRolesAreSound'
<1>1. hist' = hist /\ pc' = pc /\ job' = job
  BY DEF roleVars
<1> QED
  BY <1>1 DEF RoleInv, StoredRolesAreSound, Version

LEMMA NextInv == IInv /\ [Next]_vars => IInv'
<1> SUFFICES ASSUME TypeOK, RoleInv, StoredRolesAreSound, GrantInv, LeaseInv, [Next]_vars
             PROVE  IInv'
  BY DEF IInv
<1>0. RoleTypeOK /\ grant \in [Procs -> Grant \cup {NoGrant}] /\ now \in Nat
      /\ lease \in [LeaseIds -> Lease \cup {NoLease, Ended}]
  BY DEF TypeOK
<1>1. ASSUME NEW p \in Procs, RoleStep(p), UNCHANGED leaseVars PROVE IInv'
  BY <1>0, <1>1, RoleStepInv, RolesMove DEF IInv
<1>2. ASSUME NEW p \in Procs, NEW i \in LeaseIds, NEW r \in RoleNames, BeginIssue(p, i, r)
      PROVE  IInv'
  <2>1. /\ RoleOf(r) \in Role /\ Version(r) \in Nat \ {0}
        /\ RoleOf(r) = hist[r][Version(r)]
    BY <1>0, <1>2, RoleOfType DEF BeginIssue
  <2>2. [kind |-> "issue", id |-> i, role |-> r, ttl |-> RoleOf(r).ttl,
         max_ttl |-> RoleOf(r).max_ttl, increment |-> 0, floor |-> Version(r)] \in Grant
    BY <2>1 DEF Grant, Role
  <2>3. PICK g \in Grant :
          g = [kind |-> "issue", id |-> i, role |-> r, ttl |-> RoleOf(r).ttl,
               max_ttl |-> RoleOf(r).max_ttl, increment |-> 0, floor |-> Version(r)]
    BY <2>2
  <2>4. g.floor \in 1 .. Version(g.role)
    BY <2>1, <2>3
  <2>5. Limit(g.max_ttl) <= Limit(hist[r][Version(r)].max_ttl) /\ hist[r][Version(r)] # NoRole
    BY <2>1, <2>3, EntryAssumption, LimitType DEF Role
  <2>6. Allows(g.role, g.floor, Limit(g.max_ttl))
    BY <2>3, <2>5 DEF Allows
  <2>7. grant' = [grant EXCEPT ![p] = g] /\ UNCHANGED <<roleVars, now, lease>>
    BY <1>2, <2>3 DEF BeginIssue
  <2> QED
    BY <2>4, <2>6, <2>7, GrantSet, RolesSame DEF IInv
<1>3. ASSUME NEW p \in Procs, NEW i \in LeaseIds, NEW n \in Increments, BeginRenew(p, i, n)
      PROVE  IInv'
  <2>1. PICK l \in Lease : l = lease[i]
    BY <1>0, <1>3 DEF BeginRenew, Live
  <2>2. PICK r \in RoleNames : r = l.role
    BY DEF Lease
  <2>3. /\ RoleOf(r) \in Role /\ Version(r) \in Nat \ {0}
        /\ RoleOf(r) = hist[r][Version(r)]
    BY <1>0, <1>3, <2>1, <2>2, RoleOfType DEF BeginRenew
  <2>4. PICK role \in Role : role = RoleOf(r)
    BY <2>3
  <2>5. /\ role.ttl \in Nat /\ role.max_ttl \in Nat /\ l.ttl \in Nat /\ l.max_ttl \in Nat
        /\ n \in Nat
    BY LeaseAssumption DEF Role, Lease
  <2>6. /\ OrKept(role.ttl, l.ttl) \in Nat /\ OrKept(role.max_ttl, l.max_ttl) \in Nat
        /\ role.max_ttl > 0 => OrKept(role.max_ttl, l.max_ttl) = role.max_ttl
        /\ ~(role.max_ttl > 0) => role.max_ttl = 0
    BY <2>5 DEF OrKept
  <2>7. PICK g \in Grant :
          g = [kind |-> "renew", id |-> i, role |-> r, ttl |-> OrKept(role.ttl, l.ttl),
               max_ttl |-> OrKept(role.max_ttl, l.max_ttl), increment |-> n,
               floor |-> Version(r)]
    BY <2>3, <2>5, <2>6 DEF Grant
  <2>8. g.floor \in 1 .. Version(g.role)
    BY <2>3, <2>7
  <2>9. Limit(OrKept(role.max_ttl, l.max_ttl)) <= Limit(role.max_ttl)
    BY <2>5, <2>6, LimitType
  <2>10. Allows(g.role, g.floor, Limit(g.max_ttl))
    BY <2>3, <2>4, <2>7, <2>9, EntryAssumption DEF Allows
  <2>11. grant' = [grant EXCEPT ![p] = g] /\ UNCHANGED <<roleVars, now, lease>>
    BY <1>3, <2>1, <2>2, <2>4, <2>7 DEF BeginRenew
  <2> QED
    BY <2>8, <2>10, <2>11, GrantSet, RolesSame DEF IInv
<1>4. ASSUME NEW p \in Procs, Register(p) PROVE IInv'
  <2>1. grant[p] \in Grant /\ grant[p].id \in LeaseIds /\ Limit(grant[p].max_ttl) \in Nat
    BY <1>0, <1>4, LimitType DEF Register, Grant
  <2>2. now <= now + Limit(grant[p].max_ttl) /\ grant[p] # NoGrant
    BY <1>0, <1>4, <2>1 DEF Register
  <2>3. PICK l \in Lease :
          /\ l = Granted(grant[p], now)
          /\ l.from \in 1 .. l.upto /\ l.upto = Version(l.role)
          /\ Allows(l.role, l.from, l.expire - l.issued)
    BY <1>0, <2>2, GrantedAllowed
  <2>4. /\ lease' = [lease EXCEPT ![grant[p].id] = l]
        /\ grant' = [grant EXCEPT ![p] = NoGrant] /\ UNCHANGED <<roleVars, now>>
    BY <1>4, <2>3 DEF Register
  <2> QED
    BY <2>1, <2>3, <2>4, LeaseSet, RolesSame DEF IInv
<1>5. ASSUME NEW p \in Procs, Extend(p) PROVE IInv'
  <2>1. /\ grant[p] # NoGrant /\ grant[p].id \in LeaseIds
        /\ lease[grant[p].id].issued \in Nat
    BY <1>0, <1>5 DEF Extend, Grant, Live, Lease
  <2>2. PICK issued \in Nat : issued = lease[grant[p].id].issued
    BY <2>1
  <2>3. now <= issued + Limit(grant[p].max_ttl)
    BY <1>5, <2>2 DEF Extend
  <2>4. PICK l \in Lease :
          /\ l = Granted(grant[p], issued)
          /\ l.from \in 1 .. l.upto /\ l.upto = Version(l.role)
          /\ Allows(l.role, l.from, l.expire - l.issued)
    BY <2>1, <2>3, GrantedAllowed
  <2>5. /\ lease' = [lease EXCEPT ![grant[p].id] = l]
        /\ grant' = [grant EXCEPT ![p] = NoGrant] /\ UNCHANGED <<roleVars, now>>
    BY <1>5, <2>2, <2>4 DEF Extend
  <2> QED
    BY <2>1, <2>4, <2>5, LeaseSet, RolesSame DEF IInv
<1>6. ASSUME NEW p \in Procs, GrantFails(p) PROVE IInv'
  BY <1>6, GrantSet, RolesSame DEF GrantFails, IInv
<1>7. ASSUME NEW i \in LeaseIds, End(i) PROVE IInv'
  BY <1>7, LeaseSet, RolesSame DEF End, IInv
<1>8. ASSUME Tick PROVE IInv'
  <2>1. /\ now' \in Nat /\ UNCHANGED roleVars /\ lease' = lease /\ grant' = grant
        /\ hist' = hist /\ pc' = pc /\ job' = job
    BY <1>0, <1>8 DEF Tick, roleVars
  <2>2. TypeOK'
    BY <1>0, <2>1 DEF TypeOK, RoleTypeOK
  <2>3. GrantInv' /\ LeaseInv'
    BY <2>1 DEF GrantInv, LeaseInv, Live, Allows, Version
  <2> QED
    BY <2>1, <2>2, <2>3, RolesSame DEF IInv
<1>9. CASE UNCHANGED vars
  BY <1>9 DEF vars, IInv, TypeOK, RoleTypeOK, RoleInv, StoredRolesAreSound, GrantInv,
              LeaseInv, Live, Allows, Version
<1> QED
  BY <1>1, <1>2, <1>3, <1>4, <1>5, <1>6, <1>7, <1>8, <1>9 DEF Next

LEMMA Invariance == Spec => []IInv
<1>1. Init => IInv
  BY InitInv
<1>2. IInv /\ [Next]_vars => IInv'
  BY NextInv
<1> QED
  BY <1>1, <1>2, PTL DEF Spec

-----------------------------------------------------------------------------
(* What the roles and the leases promise *)

(* Roles, leases and the requests about them keep their types.              *)
THEOREM TypeCorrect == Spec => []TypeOK
<1>1. IInv => TypeOK
  BY DEF IInv
<1> QED
  BY <1>1, Invariance, PTL

(* However writes and deletes of roles overlap, no stored role is without a *)
(* user or has a ttl over its max_ttl.  (path_roles.go:117-148)             *)
THEOREM RolesStaySound == Spec => []StoredRolesAreSound
<1>1. IInv => StoredRolesAreSound
  BY DEF IInv
<1> QED
  BY <1>1, Invariance, PTL

(* Whatever was written or deleted meanwhile, a live lease expires no later *)
(* than a role in force while it was granted allows.                        *)
(* (path_credentials.go:84-89, 168-192)                                     *)
THEOREM LeasesObeyRoles == Spec => []LeaseObeysRole
<1>1. IInv => LeaseObeysRole
  <2> SUFFICES ASSUME TypeOK, LeaseInv, NEW i \in LeaseIds, Live(i)
               PROVE  \E v \in lease[i].from .. lease[i].upto :
                        LET role == hist[lease[i].role][v]
                        IN  /\ role # NoRole
                            /\ lease[i].expire <= lease[i].issued + Limit(role.max_ttl)
    BY DEF IInv, LeaseObeysRole
  <2>1. PICK l \in Lease : l = lease[i]
    BY DEF TypeOK, Live
  <2>2. /\ l.from \in 1 .. l.upto /\ l.upto <= Version(l.role) /\ l.role \in RoleNames
        /\ l.upto \in Nat /\ l.expire \in Nat /\ l.issued \in Nat
        /\ Allows(l.role, l.from, l.expire - l.issued)
    BY <2>1 DEF LeaseInv, Lease
  <2>3. l.from \in 1 .. Version(l.role)
    BY <2>2, RoleOfType DEF TypeOK
  <2>4. PICK role \in Role : role = hist[l.role][l.from]
    BY <2>2, <2>3, RoleOfType DEF TypeOK, Allows
  <2>5. /\ role # NoRole /\ Limit(role.max_ttl) \in Nat
        /\ l.expire - l.issued <= Limit(role.max_ttl)
    BY <2>2, <2>4, LimitType DEF Allows, Role
  <2>6. l.expire <= l.issued + Limit(role.max_ttl) /\ l.from \in l.from .. l.upto
    BY <2>2, <2>5
  <2> QED
    BY <2>1, <2>4, <2>5, <2>6
<1> QED
  BY <1>1, Invariance, PTL

-----------------------------------------------------------------------------
(* What writes and deletes of roles promise *)

(* The values of the promise are those of the handlers. *)
LEMMA SameValues ==
  /\ \A e : Provider!OrEmpty(e) = OrEmpty(e)
  /\ \A e, q : Provider!Merge(e, q) = Merge(e, q)
  /\ \A e : Provider!Sound(e) = Sound(e)
  /\ Provider!NoRequest = NoRequest
BY DEF Provider!OrEmpty, OrEmpty, Provider!EmptyRole, EmptyRole, Provider!Merge, Merge,
       Provider!Supplied, Supplied, Provider!Sound, Sound, Provider!NoRequest, NoRequest

(* A step that stores nothing changes nothing in force, nor what the others *)
(* may have read.                                                           *)
LEMMA SameCurrent ==
  ASSUME UNCHANGED hist
  PROVE  UNCHANGED Current
BY DEF Current, RoleOf, Version

LEMMA SameSince ==
  ASSUME UNCHANGED hist, NEW q \in Procs,
         job'[q].name = job[q].name, job'[q].floor = job[q].floor
  PROVE  Since(q)' = Since(q)
BY DEF Since, Version

LEMMA SameCalls ==
  ASSUME UNCHANGED hist, NEW p \in Procs,
         \A q \in Procs \ {p} : pc'[q] = pc[q] /\ job'[q] = job[q]
  PROVE  \A q \in Procs \ {p} : Calls'[q] = Calls[q]
<1>1. ASSUME NEW q \in Procs, q # p PROVE Calls'[q] = Calls[q]
  <2>1. Since(q)' = Since(q)
    BY <1>1, SameSince
  <2> QED
    BY <1>1, <2>1 DEF Calls
<1> QED
  BY <1>1

LEMMA CallsType ==
  /\ Calls = [p \in Procs |-> Calls[p]]
  /\ Calls' = [p \in Procs |-> Calls'[p]]
BY DEF Calls

(* The request of a handler as the promise has it. *)
LEMMA CallOf ==
  ASSUME NEW p \in Procs
  PROVE  /\ pc[p] = "idle" => Calls[p] = Provider!NoCall
         /\ pc[p] # "idle" =>
              Calls[p] = [op |-> IF pc[p] = "remove" THEN "delete" ELSE "write",
                          name |-> job[p].name, req |-> job[p].req, since |-> Since(p)]
         /\ Provider!Busy(p) <=> pc[p] # "idle"
BY DEF Calls, Provider!NoCall, Provider!Busy

(* A request comes: so far it can have read only what is in force.          *)
LEMMA AskStep ==
  ASSUME RoleTypeOK, RoleTypeOK', NEW p \in Procs, NEW r \in RoleNames,
         NEW q, NEW to \in {"read", "remove"}, UNCHANGED hist, pc[p] = "idle",
         pc' = [pc EXCEPT ![p] = to],
         job' = [job EXCEPT ![p] = [NoJob EXCEPT !.name = r, !.req = q, !.floor = Version(r)]]
  PROVE  Provider!Ask(p, IF to = "remove" THEN "delete" ELSE "write", r, q)
<1> DEFINE op == IF to = "remove" THEN "delete" ELSE "write"
<1>1. /\ pc'[p] = to /\ job'[p] = [NoJob EXCEPT !.name = r, !.req = q, !.floor = Version(r)]
      /\ \A o \in Procs \ {p} : pc'[o] = pc[o] /\ job'[o] = job[o]
  BY DEF RoleTypeOK
<1>2. job'[p].name = r /\ job'[p].req = q /\ job'[p].floor = Version(r)
  BY <1>1 DEF NoJob
<1>3. Version(r) \in Nat /\ hist'[r] = hist[r]
  BY RoleOfType
<1>4. Since(p)' = {RoleOf(r)}
  <2>1. Since(p)' = {hist[r][v] : v \in Version(r) .. Version(r)}
    BY <1>2, <1>3 DEF Since, Version
  <2> QED
    BY <1>3, <2>1 DEF RoleOf
<1>5. Calls'[p] = [op |-> op, name |-> r, req |-> q, since |-> {Current[r]}]
  BY <1>1, <1>2, <1>4 DEF Calls, Current
<1>6. \A o \in Procs \ {p} : Calls'[o] = Calls[o]
  BY <1>1, SameCalls
<1> HIDE DEF op
<1>7. Calls' = [Calls EXCEPT ![p] = [op |-> op, name |-> r, req |-> q, since |-> {Current[r]}]]
  BY <1>5, <1>6, CallsType
<1>8. ~Provider!Busy(p)
  BY CallOf
<1> QED
  BY <1>7, <1>8, SameCurrent DEF Provider!Ask, op

(* A handler that returns without having stored gives up.                   *)
LEMMA GiveUpStep ==
  ASSUME RoleTypeOK, NEW p \in Procs, NEW from \in {"read", "put", "remove"},
         Return(p, from), UNCHANGED hist
  PROVE  Provider!GiveUp(p)
<1>1. /\ pc[p] # "idle" /\ pc'[p] = "idle"
      /\ \A o \in Procs \ {p} : pc'[o] = pc[o] /\ job'[o] = job[o]
  BY DEF Return, Goto, RoleTypeOK
<1>2. Calls' = [Calls EXCEPT ![p] = Provider!NoCall]
  <2>1. \A o \in Procs \ {p} : Calls'[o] = Calls[o]
    BY <1>1, SameCalls
  <2>2. Calls'[p] = Provider!NoCall
    BY <1>1 DEF Calls, Provider!NoCall
  <2> QED
    BY <2>1, <2>2 DEF Calls
<1> QED
  BY <1>1, <1>2, CallOf, SameCurrent DEF Provider!GiveUp

(* What is stored is what the others under way may read from then on. *)
LEMMA SinceGrows ==
  ASSUME RoleTypeOK, RoleInv, NEW r \in RoleNames, NEW e \in Role \cup {NoRole}, Store(r, e),
         NEW q \in Procs, pc[q] # "idle", pc'[q] = pc[q], job'[q] = job[q]
  PROVE  Since(q)' = IF job[q].name = r THEN Since(q) \cup {e} ELSE Since(q)
<1>1. job[q].name \in RoleNames
  BY DEF RoleTypeOK
<1>2. CASE job[q].name # r
  <2>1. hist'[job[q].name] = hist[job[q].name]
    BY <1>1, <1>2, StoreEffect
  <2> QED
    BY <1>2, <2>1 DEF Since, Version
<1>3. CASE job[q].name = r
  <2>1. PICK n \in Nat \ {0} : n = Version(r)
    BY RoleOfType
  <2>2. Version(r)' = n + 1 /\ hist'[r][n + 1] = e /\ \A v \in 1 .. n : hist'[r][v] = hist[r][v]
    BY <2>1, StoreEffect DEF Kept, RoleOf
  <2>3. PICK f \in 1 .. n : f = job[q].floor
    BY <1>3, <2>1 DEF RoleInv
  <2>4. Since(q) = {hist[r][v] : v \in f .. n}
    BY <1>3, <2>1, <2>3 DEF Since
  <2>5. Since(q)' = {hist'[r][v] : v \in f .. n + 1}
    BY <1>3, <2>2, <2>3 DEF Since
  <2>6. f .. n + 1 = (f .. n) \cup {n + 1} /\ f .. n \subseteq 1 .. n
    BY <2>3
  <2> QED
    BY <1>3, <2>2, <2>4, <2>5, <2>6
<1> QED
  BY <1>2, <1>3

(* A handler that stores and returns takes effect, once.                    *)
LEMMA EffectStep ==
  ASSUME RoleTypeOK, RoleInv, NEW p \in Procs, NEW from \in {"put", "remove"},
         NEW e \in Role \cup {NoRole}, Return(p, from), Store(job[p].name, e),
         e \in Provider!Outcomes(Calls[p])
  PROVE  Provider!TakeEffect(p)
<1>1. /\ pc[p] # "idle" /\ pc'[p] = "idle"
      /\ \A o \in Procs \ {p} : pc'[o] = pc[o] /\ job'[o] = job[o]
  BY DEF Return, Goto, RoleTypeOK
<1>2. PICK r \in RoleNames : r = job[p].name
  BY <1>1 DEF RoleTypeOK
<1>3. Store(r, e) /\ Calls[p].name = r
  <2>1. Calls[p] = [op |-> IF pc[p] = "remove" THEN "delete" ELSE "write",
                    name |-> job[p].name, req |-> job[p].req, since |-> Since(p)]
    BY <1>1, CallOf
  <2> QED
    BY <1>2, <2>1
<1>4. Current' = [Current EXCEPT ![r] = e]
  BY <1>3, StoreEffect DEF Current, RoleOf, Version
<1>5. ASSUME NEW q \in Procs, q # p
      PROVE  Calls'[q] = IF Provider!Busy(q) /\ Calls[q].name = r
                           THEN [Calls[q] EXCEPT !.since = @ \cup {e}] ELSE Calls[q]
  <2>1. pc'[q] = pc[q] /\ job'[q] = job[q]
    BY <1>1, <1>5
  <2>2. CASE pc[q] = "idle"
    BY <2>1, <2>2, CallOf DEF Calls
  <2>3. CASE pc[q] # "idle"
    <3>1. Since(q)' = IF job[q].name = r THEN Since(q) \cup {e} ELSE Since(q)
      BY <1>3, <2>1, <2>3, SinceGrows
    <3>2. Calls'[q] = [op |-> IF pc[q] = "remove" THEN "delete" ELSE "write",
                       name |-> job[q].name, req |-> job[q].req, since |-> Since(q)']
      BY <2>1, <2>3 DEF Calls
    <3>3. /\ Calls[q] = [op |-> IF pc[q] = "remove" THEN "delete" ELSE "write",
                         name |-> job[q].name, req |-> job[q].req, since |-> Since(q)]
          /\ Provider!Busy(q)
      BY <2>3, CallOf
    <3> QED
      BY <3>1, <3>2, <3>3
  <2> QED
    BY <2>2, <2>3
<1>6. Calls'[p] = Provider!NoCall
  BY <1>1 DEF Calls, Provider!NoCall
<1>7. Calls' = [q \in Procs |-> IF q = p THEN Provider!NoCall
                  ELSE IF Provider!Busy(q) /\ Calls[q].name = r
                         THEN [Calls[q] EXCEPT !.since = @ \cup {e}] ELSE Calls[q]]
  BY <1>5, <1>6 DEF Calls
<1>8. Provider!Replace(p, e)
  BY <1>3, <1>4, <1>7 DEF Provider!Replace
<1> QED
  BY <1>1, <1>8, CallOf DEF Provider!TakeEffect

(* However writes and deletes of one role overlap, fail and die, each takes  *)
(* effect in one step and once, or not at all; and a write that does leaves *)
(* a sound role, merged into one that was in force since it came.           *)
(* (path_roles.go:117-155)                                                  *)
THEOREM RolesRefined == Spec => ImplementsRoleProvider
<1>1. Init => Provider!Init
  <2> SUFFICES ASSUME Init PROVE Provider!Init
    OBVIOUS
  <2>1. \A r \in RoleNames : RoleOf(r) = NoRole
    BY DEF Init, RoleInit, RoleOf, Version
  <2>2. Current = [r \in RoleNames |-> NoRole]
    BY <2>1 DEF Current
  <2>3. Calls = [p \in Procs |-> Provider!NoCall]
    BY DEF Init, RoleInit, Calls, Provider!NoCall
  <2> QED
    BY <2>2, <2>3 DEF Provider!Init
<1>2. IInv /\ IInv' /\ [Next]_vars => [Provider!Next]_Provider!vars
  <2> SUFFICES ASSUME RoleTypeOK, RoleTypeOK', RoleInv, [Next]_vars
               PROVE  [Provider!Next]_Provider!vars
    BY DEF IInv, TypeOK
  <2>1. ASSUME NEW p \in Procs, NEW r \in RoleNames, NEW q \in Requests, BeginWrite(p, r, q)
        PROVE  Provider!Next
    <3>1. Provider!Ask(p, "write", r, q)
      BY <2>1, AskStep DEF BeginWrite, Goto
    <3> QED
      BY <3>1 DEF Provider!Next
  <2>2. ASSUME NEW p \in Procs, NEW r \in RoleNames, BeginDelete(p, r) PROVE Provider!Next
    <3>1. NoJob.req = NoRequest /\ NoJob = [NoJob EXCEPT !.req = NoRequest]
      BY DEF NoJob
    <3>2. [NoJob EXCEPT !.name = r, !.floor = Version(r)] =
            [NoJob EXCEPT !.name = r, !.req = NoRequest, !.floor = Version(r)]
      BY <3>1 DEF NoJob
    <3>3. Provider!Ask(p, "delete", r, NoRequest)
      BY <2>2, <3>2, AskStep DEF BeginDelete, Goto
    <3> QED
      BY <3>3, SameValues DEF Provider!Next
  <2>3. ASSUME NEW p \in Procs, ReadRole(p) PROVE [Provider!Next]_Provider!vars
    <3>1. CASE Return(p, "read") /\ UNCHANGED hist
      BY <3>1, GiveUpStep DEF Provider!Next
    <3>2. CASE /\ Goto(p, "read", "put") /\ UNCHANGED hist
               /\ job' = [job EXCEPT ![p].entry = Merged(p), ![p].seen = Version(job[p].name)]
      <4>1. /\ pc[p] = "read" /\ pc'[p] = "put" /\ job'[p].name = job[p].name
            /\ job'[p].req = job[p].req /\ job'[p].floor = job[p].floor
            /\ \A o \in Procs \ {p} : pc'[o] = pc[o] /\ job'[o] = job[o]
        BY <3>2 DEF Goto, RoleTypeOK, Job
      <4>2. Calls'[p] = Calls[p]
        BY <3>2, <4>1, SameSince DEF Calls
      <4>3. \A o \in Procs \ {p} : Calls'[o] = Calls[o]
        BY <3>2, <4>1, SameCalls
      <4>4. UNCHANGED Calls
        BY <4>2, <4>3 DEF Calls
      <4> QED
        BY <3>2, <4>4, SameCurrent DEF Provider!vars
    <3> QED
      BY <2>3, <3>1, <3>2 DEF ReadRole, Prepare
  <2>4. ASSUME NEW p \in Procs, PutRole(p) PROVE Provider!Next
    <3>1. /\ pc[p] = "put" /\ job[p].name \in RoleNames /\ job[p].entry \in Role
          /\ Store(job[p].name, job[p].entry) /\ Return(p, "put")
      BY <2>4 DEF PutRole, Return, Goto, RoleTypeOK, Job
    <3>2. /\ Sound(job[p].entry) /\ job[p].seen \in job[p].floor .. Version(job[p].name)
          /\ job[p].entry = Merge(OrEmpty(hist[job[p].name][job[p].seen]), job[p].req)
      BY <3>1 DEF RoleInv
    <3>3. /\ Calls[p].op = "write" /\ Calls[p].req = job[p].req
          /\ hist[job[p].name][job[p].seen] \in Calls[p].since
      <4>1. hist[job[p].name][job[p].seen] \in Since(p)
        BY <3>2 DEF Since
      <4>2. Calls[p] = [op |-> "write", name |-> job[p].name, req |-> job[p].req,
                        since |-> Since(p)]
        BY <3>1, CallOf
      <4> QED
        BY <4>1, <4>2
    <3>4. job[p].entry \in Provider!Outcomes(Calls[p])
      BY <3>2, <3>3, SameValues DEF Provider!Outcomes
    <3>5. Provider!TakeEffect(p)
      BY <3>1, <3>4, EffectStep
    <3> QED
      BY <3>5 DEF Provider!Next
  <2>5. ASSUME NEW p \in Procs, RemoveRole(p) PROVE Provider!Next
    <3>1. pc[p] = "remove" /\ Store(job[p].name, NoRole) /\ Return(p, "remove")
      BY <2>5 DEF RemoveRole, Return, Goto
    <3>2. Calls[p].op = "delete"
      <4>1. Calls[p] = [op |-> "delete", name |-> job[p].name, req |-> job[p].req,
                        since |-> Since(p)]
        BY <3>1, CallOf
      <4> QED
        BY <4>1
    <3>3. NoRole \in Provider!Outcomes(Calls[p])
      BY <3>2 DEF Provider!Outcomes
    <3>4. Provider!TakeEffect(p)
      BY <3>1, <3>3, EffectStep
    <3> QED
      BY <3>4 DEF Provider!Next
  <2>6. ASSUME NEW p \in Procs, RoleRequestFails(p) PROVE Provider!Next
    BY <2>6, GiveUpStep DEF RoleRequestFails, Provider!Next
  <2>7. ASSUME UNCHANGED roleVars PROVE UNCHANGED Provider!vars
    BY <2>7 DEF roleVars, Provider!vars, Current, RoleOf, Version, Calls, Since
  <2> QED
    BY <2>1, <2>2, <2>3, <2>4, <2>5, <2>6, <2>7
    DEF Next, RoleStep, roleVars, BeginIssue, BeginRenew, Register, Extend, GrantFails, End,
        Tick, vars
<1> QED
  BY <1>1, <1>2, Invariance, PTL DEF Spec, ImplementsRoleProvider, Provider!Spec

-----------------------------------------------------------------------------
(* What a sequence of role writes makes of a role *)

(* A write that is sent again, or corrected by one that supplies at least   *)
(* its fields, leaves no trace of the first; and writes that supply         *)
(* different fields, if the checks let them, make the same role in either   *)
(* order.  (path_roles.go:119-147)                                          *)
THEOREM RoleWritesCompose ==
  ASSUME NEW role \in Role, NEW q \in Request, NEW s \in Request
  PROVE  /\ (\A f \in DOMAIN q : s[f] = Unset => q[f] = Unset)
            => Merge(Merge(role, q), s) = Merge(role, s)
         /\ (\A f \in DOMAIN q : s[f] = Unset \/ q[f] = Unset)
            => Merge(Merge(role, q), s) = Merge(Merge(role, s), q)
<1>1. DOMAIN q = {"keycloak_username", "ttl", "max_ttl", "kv_password_key"}
  BY DEF Request
<1> QED
  BY <1>1 DEF Merge, Supplied
=============================================================================
