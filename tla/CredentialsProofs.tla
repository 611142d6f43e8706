-------------------------- MODULE CredentialsProofs --------------------------
(***************************************************************************)
(* Proofs about Credentials, for any goroutines, users, roles, keys and    *)
(* configurations, and any number of passwords.                            *)
(***************************************************************************)
EXTENDS Credentials, KVLemmas

Handed == {r.pw : r \in returned}

(* What a request's place in the code says of its local variables. *)
JobInv ==
  \A p \in Procs :
     /\ pc[p] # "idle" => job[p].user \in Users
     /\ pc[p] \in {"reset", "sent", "kv", "sync", "respond"} => conn[p] \in Conns
     /\ pc[p] \in {"sent", "kv", "sync", "respond"} => job[p].pw \in 1 .. nextPw - 1
     /\ pc[p] \in {"kv", "sync", "respond"} => job[p].pw \in applied
     /\ pc[p] = "kv" => job[p].key \in Keys
     /\ job[p].kind = "revoke" =>
          /\ job[p].lease \in Lease
          /\ job[p].lease.user = job[p].user
          /\ job[p].lease.at.user = job[p].user
          /\ job[p].lease.pw \in applied \cap Handed

(* A password is on the wire before it is applied, and in one message only;  *)
(* the message of a waiting request is for the account the request is about. *)
WireInv ==
  /\ applied \subseteq 1 .. nextPw - 1
  /\ \A m \in wire : m.pw < nextPw /\ m.pw \notin applied
  /\ \A m, n \in wire : m.pw = n.pw => m = n
  /\ \A p \in Procs, m \in wire :
       pc[p] = "sent" /\ m.pw = job[p].pw => m.at = Target(p)

(* Leases and revocations are about passwords that were applied. *)
LeaseInv ==
  /\ \A l \in leases : l.pw \in applied \cap Handed /\ l.at.user = l.user
  /\ \A r \in revoked : r.lease.pw \in applied

(* A revocation Keycloak has carried out, and not yet reported, has already *)
(* killed the password of its lease, if it went to the account of issue.    *)
Overwritten ==
  \A p \in Procs :
     /\ pc[p] = "sent" /\ job[p].kind = "revoke"
     /\ job[p].pw \in applied /\ Target(p) = job[p].lease.at
     => keycloak[job[p].lease.at] # job[p].lease.pw

(* What is about to be written to KV, or may still be, was applied. *)
IsApplied(r) == r.pw \in applied /\ r.secret \in Secrets /\ r.key \in Keys

SyncInv ==
  /\ \A p \in Procs : sync[p].phase # "none" => IsApplied(sync[p])
  /\ \A r \in late : IsApplied(r)

IInv == /\ TypeOK
        /\ JobInv
        /\ WireInv
        /\ LeaseInv
        /\ Overwritten
        /\ RevokedIsDead
        /\ SyncInv
        /\ KVHoldsAppliedPasswords

-----------------------------------------------------------------------------
(* Where a request sets its password is an account. *)
LEMMA TargetType ==
  ASSUME NEW p \in Procs, conn[p] \in Conns, job[p].user \in Users
  PROVE  /\ Target(p) \in Account
         /\ Target(p).user = job[p].user
         /\ Target(p).where = Where(conn[p])
BY DEF Target, AccountOf, Account, Places

(* What getClient gives is a client of a stored configuration. *)
LEMMA GetType ==
  ASSUME TypeOK, NEW p \in Procs, Get(p)
  PROVE  /\ client' \in Conns
         /\ conn' = [conn EXCEPT ![p] = client']
         /\ conn' \in [Procs -> Conns \cup {NoClient}]
<1>1. client' \in Conns
  BY DEF TypeOK, Get, CanBuild, Conns
<1> QED
  BY <1>1 DEF TypeOK, Get

(* The local variables stay in step with the code. *)
LEMMA JobStep == IInv /\ [Next]_vars => JobInv'
<1> SUFFICES ASSUME IInv, [Next]_vars PROVE JobInv'
  OBVIOUS
<1> USE DEF IInv, TypeOK, JobInv, LeaseInv, WireInv, Handed, Goto, cacheVars, lifetime, world, kvVars, NoJob, Job, Password
<1>1. ASSUME NEW p \in Procs, NEW r \in RoleNames, BeginCreds(p, r) PROVE JobInv'
  <2>1. roles[r].user \in Users
    BY <1>1 DEF BeginCreds, Role
  <2> QED
    BY <1>1, <2>1 DEF BeginCreds, Begin
<1>2. ASSUME NEW p \in Procs, NEW u \in Users, NEW k \in Key, BeginRotate(p, u, k) PROVE JobInv'
  BY <1>2 DEF BeginRotate, Begin
<1>3. ASSUME NEW p \in Procs, NEW l \in leases, BeginRevoke(p, l) PROVE JobInv'
  <2>1. l \in Lease /\ l.user \in Users
    BY DEF Lease
  <2>2. /\ job' = [job EXCEPT ![p] = [NoJob EXCEPT !.kind = "revoke", !.user = l.user,
                                                  !.lease = l]]
        /\ pc' = [pc EXCEPT ![p] = "client"]
        /\ UNCHANGED <<conn, nextPw, applied, returned>>
    BY <1>3 DEF BeginRevoke, Begin
  <2>3. /\ job'[p].lease = l /\ job'[p].user = l.user /\ pc'[p] = "client"
        /\ \A q \in Procs \ {p} : job'[q] = job[q] /\ pc'[q] = pc[q]
    BY <2>2
  <2> QED
    BY <2>1, <2>2, <2>3
<1>4. ASSUME NEW p \in Procs, GetClient(p) PROVE JobInv'
  <2>1. client' \in Conns
    BY <1>4, GetType DEF GetClient
  <2>2. /\ conn' = [conn EXCEPT ![p] = client']
        /\ pc[p] = "client" /\ pc' = [pc EXCEPT ![p] = "reset"]
        /\ UNCHANGED <<job, nextPw, applied, returned>>
    BY <1>4 DEF GetClient, Get
  <2>3. /\ conn'[p] = client' /\ pc'[p] = "reset"
        /\ \A q \in Procs \ {p} : conn'[q] = conn[q] /\ pc'[q] = pc[q]
    BY <2>2
  <2> QED
    BY <2>1, <2>2, <2>3
<1>5. ASSUME NEW p \in Procs, SendReset(p) PROVE JobInv'
  BY <1>5 DEF SendReset
<1>6. ASSUME NEW p \in Procs, RequestRefused(p) PROVE JobInv'
  BY <1>6 DEF RequestRefused, End, LetGo, GetFails
<1>7. ASSUME NEW p \in Procs, ResetAnswered(p) PROVE JobInv'
  <2>1. CASE job[p].kind = "revoke"
    BY <1>7, <2>1 DEF ResetAnswered, End, LetGo
  <2>2. CASE job[p].kind # "revoke"
    <3>1. /\ pc[p] = "sent" /\ job[p].pw \in applied
          /\ pc' = [pc EXCEPT ![p] = IF job[p].key = NoKey THEN "respond" ELSE "kv"]
          /\ UNCHANGED <<conn, job, nextPw, applied, returned>>
      BY <1>7, <2>2 DEF ResetAnswered, End, LetGo
    <3>2. job[p].key # NoKey => job[p].key \in Keys
      BY DEF Key
    <3> QED
      BY <3>1, <3>2
  <2> QED
    BY <2>1, <2>2
<1>8. ASSUME NEW p \in Procs, SkipSync(p) PROVE JobInv'
  BY <1>8 DEF SkipSync
<1>9. ASSUME NEW p \in Procs, WarnNoToken(p) PROVE JobInv'
  <2>1. /\ job' = [job EXCEPT ![p] = [job[p] EXCEPT !.kvSync = "warned"]]
        /\ pc[p] = "kv" /\ pc' = [pc EXCEPT ![p] = "respond"]
        /\ UNCHANGED <<conn, nextPw, applied, returned>>
    BY <1>9 DEF WarnNoToken
  <2>2. /\ job'[p].user = job[p].user
        /\ job'[p].kind = job[p].kind /\ job'[p].lease = job[p].lease
        /\ job'[p].pw = job[p].pw /\ pc'[p] = "respond"
        /\ \A q \in Procs \ {p} : job'[q] = job[q] /\ pc'[q] = pc[q]
    BY <2>1
  <2> QED
    BY <2>1, <2>2
<1>10. ASSUME NEW p \in Procs, BeginSync(p) PROVE JobInv'
  BY <1>10 DEF BeginSync
<1>11. ASSUME NEW p \in Procs, SyncStep(p) PROVE JobInv'
  BY <1>11 DEF SyncStep
<1>12. ASSUME NEW p \in Procs, EndSync(p) PROVE JobInv'
  BY <1>12 DEF EndSync
<1>13. ASSUME NEW p \in Procs, Respond(p) PROVE JobInv'
  BY <1>13 DEF Respond, End, LetGo
<1>14. ASSUME NEW h \in Handlers, ChangeConfig(h) PROVE JobInv'
  BY <1>14 DEF ChangeConfig, Change
<1>15. ASSUME NEW h \in Handlers, ResetClient(h) PROVE JobInv'
  BY <1>15 DEF ResetClient, Reset
<1>16. ASSUME NEW r \in RoleNames, NEW role \in Role \cup {NoRole}, ChangeRole(r, role) PROVE JobInv'
  BY <1>16 DEF ChangeRole
<1>17. ASSUME NEW m \in wire, Apply(m) PROVE JobInv'
  BY <1>17 DEF Apply
<1>18. ASSUME Crash PROVE JobInv'
  BY <1>18 DEF Crash, Die
<1>19. ASSUME UNCHANGED vars PROVE JobInv'
  BY <1>19 DEF vars
<1>20. ASSUME NEW r \in late, KVArrive(r) PROVE JobInv'
  BY <1>20 DEF KVArrive, Arrive
<1> QED
  BY <1>1, <1>2, <1>3, <1>4, <1>5, <1>6, <1>7, <1>8, <1>9, <1>10,
     <1>11, <1>12, <1>13, <1>14, <1>15, <1>16, <1>17, <1>18, <1>19, <1>20
  DEF Next, Request, Step, Operator

(* Passwords go out fresh, once, and to the right account. *)
LEMMA WireStep == IInv /\ [Next]_vars => WireInv'
<1> SUFFICES ASSUME IInv, [Next]_vars PROVE WireInv'
  OBVIOUS
<1> USE DEF IInv, TypeOK, WireInv, Target, Goto, cacheVars, lifetime, world, kvVars, NoJob, Job, Password
<1>1. ASSUME NEW p \in Procs, NEW r \in RoleNames, BeginCreds(p, r) PROVE WireInv'
  BY <1>1 DEF BeginCreds, Begin
<1>2. ASSUME NEW p \in Procs, NEW u \in Users, NEW k \in Key, BeginRotate(p, u, k) PROVE WireInv'
  BY <1>2 DEF BeginRotate, Begin
<1>3. ASSUME NEW p \in Procs, NEW l \in leases, BeginRevoke(p, l) PROVE WireInv'
  BY <1>3 DEF BeginRevoke, Begin
<1>4. ASSUME NEW p \in Procs, GetClient(p) PROVE WireInv'
  BY <1>4 DEF GetClient, Get
<1>5. ASSUME NEW p \in Procs, SendReset(p) PROVE WireInv'
  <2> DEFINE new == [at |-> Target(p), pw |-> nextPw, kind |-> job[p].kind]
  <2>1. /\ job' = [job EXCEPT ![p] = [job[p] EXCEPT !.pw = nextPw]]
        /\ pc' = [pc EXCEPT ![p] = "sent"]
        /\ wire' = wire \cup {new}
        /\ nextPw' = nextPw + 1 /\ nextPw \in Nat
        /\ UNCHANGED <<conn, applied>>
    BY <1>5 DEF SendReset
  <2>2. /\ job'[p].user = job[p].user
        /\ job'[p].pw = nextPw
        /\ \A q \in Procs \ {p} : job'[q] = job[q] /\ pc'[q] = pc[q]
    BY <2>1
  <2>3. new.at = Target(p) /\ new.pw = nextPw
    OBVIOUS
  <2> HIDE DEF new
  <2>4. \A m \in wire : m.pw < nextPw
    OBVIOUS
  <2>5. \A q \in Procs \ {p} : pc[q] = "sent" => job[q].pw < nextPw
    BY <2>1 DEF JobInv
  <2>6. applied' \subseteq 1 .. nextPw' - 1
    BY <2>1
  <2>7. \A m \in wire' : m.pw < nextPw' /\ m.pw \notin applied'
    BY <2>1, <2>3, <2>4 DEF Message, Password
  <2>8. \A m, n \in wire' : m.pw = n.pw => m = n
    BY <2>1, <2>3, <2>4 DEF Message, Password
  <2>9. ASSUME NEW q \in Procs, NEW m \in wire', pc'[q] = "sent", m.pw = job'[q].pw
        PROVE  m.at = Target(q)'
    <3>1. CASE q = p
      BY <2>1, <2>2, <2>3, <2>4, <2>9, <3>1 DEF Message, Password
    <3>2. CASE q # p
      BY <2>1, <2>2, <2>3, <2>4, <2>5, <2>9, <3>2 DEF Message, Password
    <3> QED
      BY <3>1, <3>2
  <2> QED
    BY <2>6, <2>7, <2>8, <2>9
<1>6. ASSUME NEW p \in Procs, RequestRefused(p) PROVE WireInv'
  BY <1>6 DEF RequestRefused, End, LetGo, GetFails
<1>7. ASSUME NEW p \in Procs, ResetAnswered(p) PROVE WireInv'
  BY <1>7 DEF ResetAnswered, End, LetGo
<1>8. ASSUME NEW p \in Procs, SkipSync(p) PROVE WireInv'
  BY <1>8 DEF SkipSync
<1>9. ASSUME NEW p \in Procs, WarnNoToken(p) PROVE WireInv'
  BY <1>9 DEF WarnNoToken
<1>10. ASSUME NEW p \in Procs, BeginSync(p) PROVE WireInv'
  BY <1>10 DEF BeginSync
<1>11. ASSUME NEW p \in Procs, SyncStep(p) PROVE WireInv'
  BY <1>11 DEF SyncStep
<1>12. ASSUME NEW p \in Procs, EndSync(p) PROVE WireInv'
  BY <1>12 DEF EndSync
<1>13. ASSUME NEW p \in Procs, Respond(p) PROVE WireInv'
  BY <1>13 DEF Respond, End, LetGo
<1>14. ASSUME NEW h \in Handlers, ChangeConfig(h) PROVE WireInv'
  BY <1>14 DEF ChangeConfig, Change
<1>15. ASSUME NEW h \in Handlers, ResetClient(h) PROVE WireInv'
  BY <1>15 DEF ResetClient, Reset
<1>16. ASSUME NEW r \in RoleNames, NEW role \in Role \cup {NoRole}, ChangeRole(r, role) PROVE WireInv'
  BY <1>16 DEF ChangeRole
<1>17. ASSUME NEW m \in wire, Apply(m) PROVE WireInv'
  <2>1. /\ wire' = wire \ {m} /\ applied' = applied \cup {m.pw}
        /\ UNCHANGED <<conn, pc, job, nextPw>>
    BY <1>17 DEF Apply
  <2>2. m.pw \in 1 .. nextPw - 1
    BY DEF Message, Password
  <2> QED
    BY <2>1, <2>2
<1>18. ASSUME Crash PROVE WireInv'
  BY <1>18 DEF Crash, Die
<1>19. ASSUME UNCHANGED vars PROVE WireInv'
  BY <1>19 DEF vars
<1>20. ASSUME NEW r \in late, KVArrive(r) PROVE WireInv'
  BY <1>20 DEF KVArrive, Arrive
<1> QED
  BY <1>1, <1>2, <1>3, <1>4, <1>5, <1>6, <1>7, <1>8, <1>9, <1>10,
     <1>11, <1>12, <1>13, <1>14, <1>15, <1>16, <1>17, <1>18, <1>19, <1>20
  DEF Next, Request, Step, Operator

(* Handing out one more credential hands out its password. *)
LEMMA HandedGrows ==
  ASSUME NEW S, NEW e
  PROVE  {r.pw : r \in S \cup {e}} = {r.pw : r \in S} \cup {e.pw}
OBVIOUS

(* Only applied passwords are leased and revoked. *)
LEMMA LeaseStep == IInv /\ [Next]_vars => LeaseInv'
<1> SUFFICES ASSUME IInv, [Next]_vars PROVE LeaseInv'
  OBVIOUS
<1> USE TargetType DEF IInv, TypeOK, JobInv, LeaseInv, Handed, Goto, cacheVars, lifetime, world, kvVars, NoJob, Job, Lease
<1>1. ASSUME NEW p \in Procs, NEW r \in RoleNames, BeginCreds(p, r) PROVE LeaseInv'
  BY <1>1 DEF BeginCreds, Begin
<1>2. ASSUME NEW p \in Procs, NEW u \in Users, NEW k \in Key, BeginRotate(p, u, k) PROVE LeaseInv'
  BY <1>2 DEF BeginRotate, Begin
<1>3. ASSUME NEW p \in Procs, NEW l \in leases, BeginRevoke(p, l) PROVE LeaseInv'
  BY <1>3 DEF BeginRevoke, Begin
<1>4. ASSUME NEW p \in Procs, GetClient(p) PROVE LeaseInv'
  BY <1>4 DEF GetClient, Get
<1>5. ASSUME NEW p \in Procs, SendReset(p) PROVE LeaseInv'
  BY <1>5 DEF SendReset
<1>6. ASSUME NEW p \in Procs, RequestRefused(p) PROVE LeaseInv'
  BY <1>6 DEF RequestRefused, End, LetGo, GetFails
<1>7. ASSUME NEW p \in Procs, ResetAnswered(p) PROVE LeaseInv'
  BY <1>7 DEF ResetAnswered, End, LetGo
<1>8. ASSUME NEW p \in Procs, SkipSync(p) PROVE LeaseInv'
  BY <1>8 DEF SkipSync
<1>9. ASSUME NEW p \in Procs, WarnNoToken(p) PROVE LeaseInv'
  BY <1>9 DEF WarnNoToken
<1>10. ASSUME NEW p \in Procs, BeginSync(p) PROVE LeaseInv'
  BY <1>10 DEF BeginSync
<1>11. ASSUME NEW p \in Procs, SyncStep(p) PROVE LeaseInv'
  BY <1>11 DEF SyncStep
<1>12. ASSUME NEW p \in Procs, EndSync(p) PROVE LeaseInv'
  BY <1>12 DEF EndSync
<1>13. ASSUME NEW p \in Procs, Respond(p) PROVE LeaseInv'
  <2> DEFINE l == [pw |-> job[p].pw, user |-> job[p].user, at |-> Target(p)]
  <2>1. job[p].pw \in applied
    BY <1>13 DEF Respond, End, LetGo
  <2>2. l.at.user = l.user
    BY <1>13, TargetType DEF Respond, End, LetGo
  <2>3. /\ leases' \subseteq leases \cup {l}
        /\ returned' = returned \cup
             {[at |-> Target(p), pw |-> job[p].pw, kind |-> job[p].kind]}
        /\ UNCHANGED <<applied, revoked>>
    BY <1>13 DEF Respond, End, LetGo
  <2>4. Handed' = Handed \cup {job[p].pw}
    BY <2>3, HandedGrows
  <2>5. l.pw = job[p].pw
    OBVIOUS
  <2> HIDE DEF l, Handed
  <2> QED
    BY <2>1, <2>2, <2>3, <2>4, <2>5
<1>14. ASSUME NEW h \in Handlers, ChangeConfig(h) PROVE LeaseInv'
  BY <1>14 DEF ChangeConfig, Change
<1>15. ASSUME NEW h \in Handlers, ResetClient(h) PROVE LeaseInv'
  BY <1>15 DEF ResetClient, Reset
<1>16. ASSUME NEW r \in RoleNames, NEW role \in Role \cup {NoRole}, ChangeRole(r, role) PROVE LeaseInv'
  BY <1>16 DEF ChangeRole
<1>17. ASSUME NEW m \in wire, Apply(m) PROVE LeaseInv'
  BY <1>17 DEF Apply
<1>18. ASSUME Crash PROVE LeaseInv'
  BY <1>18 DEF Crash, Die
<1>19. ASSUME UNCHANGED vars PROVE LeaseInv'
  BY <1>19 DEF vars
<1>20. ASSUME NEW r \in late, KVArrive(r) PROVE LeaseInv'
  BY <1>20 DEF KVArrive, Arrive
<1> QED
  BY <1>1, <1>2, <1>3, <1>4, <1>5, <1>6, <1>7, <1>8, <1>9, <1>10,
     <1>11, <1>12, <1>13, <1>14, <1>15, <1>16, <1>17, <1>18, <1>19, <1>20
  DEF Next, Request, Step, Operator

(* A carried-out revocation has killed its lease's password. *)
LEMMA OverwrittenStep == IInv /\ [Next]_vars => Overwritten'
<1> SUFFICES ASSUME IInv, [Next]_vars PROVE Overwritten'
  OBVIOUS
<1> USE DEF IInv, TypeOK, JobInv, WireInv, Overwritten, Target, Goto, cacheVars, lifetime, world, kvVars, NoJob, Job, Password
<1>1. ASSUME NEW p \in Procs, NEW r \in RoleNames, BeginCreds(p, r) PROVE Overwritten'
  BY <1>1 DEF BeginCreds, Begin
<1>2. ASSUME NEW p \in Procs, NEW u \in Users, NEW k \in Key, BeginRotate(p, u, k) PROVE Overwritten'
  BY <1>2 DEF BeginRotate, Begin
<1>3. ASSUME NEW p \in Procs, NEW l \in leases, BeginRevoke(p, l) PROVE Overwritten'
  BY <1>3 DEF BeginRevoke, Begin
<1>4. ASSUME NEW p \in Procs, GetClient(p) PROVE Overwritten'
  BY <1>4 DEF GetClient, Get
<1>5. ASSUME NEW p \in Procs, SendReset(p) PROVE Overwritten'
  BY <1>5 DEF SendReset
<1>6. ASSUME NEW p \in Procs, RequestRefused(p) PROVE Overwritten'
  BY <1>6 DEF RequestRefused, End, LetGo, GetFails
<1>7. ASSUME NEW p \in Procs, ResetAnswered(p) PROVE Overwritten'
  BY <1>7 DEF ResetAnswered, End, LetGo
<1>8. ASSUME NEW p \in Procs, SkipSync(p) PROVE Overwritten'
  BY <1>8 DEF SkipSync
<1>9. ASSUME NEW p \in Procs, WarnNoToken(p) PROVE Overwritten'
  BY <1>9 DEF WarnNoToken
<1>10. ASSUME NEW p \in Procs, BeginSync(p) PROVE Overwritten'
  BY <1>10 DEF BeginSync
<1>11. ASSUME NEW p \in Procs, SyncStep(p) PROVE Overwritten'
  BY <1>11 DEF SyncStep
<1>12. ASSUME NEW p \in Procs, EndSync(p) PROVE Overwritten'
  BY <1>12 DEF EndSync
<1>13. ASSUME NEW p \in Procs, Respond(p) PROVE Overwritten'
  BY <1>13 DEF Respond, End, LetGo
<1>14. ASSUME NEW h \in Handlers, ChangeConfig(h) PROVE Overwritten'
  BY <1>14 DEF ChangeConfig, Change
<1>15. ASSUME NEW h \in Handlers, ResetClient(h) PROVE Overwritten'
  BY <1>15 DEF ResetClient, Reset
<1>16. ASSUME NEW r \in RoleNames, NEW role \in Role \cup {NoRole}, ChangeRole(r, role) PROVE Overwritten'
  BY <1>16 DEF ChangeRole
<1>17. ASSUME NEW m \in wire, Apply(m) PROVE Overwritten'
  <2> SUFFICES ASSUME NEW p \in Procs,
                      pc[p] = "sent", job[p].kind = "revoke",
                      job[p].pw \in applied \cup {m.pw}, Target(p) = job[p].lease.at
               PROVE  keycloak'[job[p].lease.at] # job[p].lease.pw
    BY <1>17 DEF Apply
  <2>1. keycloak' = [keycloak EXCEPT ![m.at] = m.pw]
    BY <1>17 DEF Apply
  <2>2. m.pw # job[p].lease.pw
    OBVIOUS
  <2>3. m.at \in Account /\ job[p].lease.at \in Account
    BY DEF Message, Lease
  <2>4. job[p].pw \notin applied => m.at = job[p].lease.at
    OBVIOUS
  <2> QED
    BY <2>1, <2>2, <2>3, <2>4
<1>18. ASSUME Crash PROVE Overwritten'
  BY <1>18 DEF Crash, Die
<1>19. ASSUME UNCHANGED vars PROVE Overwritten'
  BY <1>19 DEF vars
<1>20. ASSUME NEW r \in late, KVArrive(r) PROVE Overwritten'
  BY <1>20 DEF KVArrive, Arrive
<1> QED
  BY <1>1, <1>2, <1>3, <1>4, <1>5, <1>6, <1>7, <1>8, <1>9, <1>10,
     <1>11, <1>12, <1>13, <1>14, <1>15, <1>16, <1>17, <1>18, <1>19, <1>20
  DEF Next, Request, Step, Operator

(* The dead stay dead. *)
LEMMA RevokedStep == IInv /\ [Next]_vars => RevokedIsDead'
<1> SUFFICES ASSUME IInv, [Next]_vars PROVE RevokedIsDead'
  OBVIOUS
<1> USE DEF IInv, TypeOK, JobInv, WireInv, LeaseInv, Overwritten, RevokedIsDead, Goto, cacheVars, lifetime, world, kvVars, NoJob
<1>1. ASSUME NEW p \in Procs, NEW r \in RoleNames, BeginCreds(p, r) PROVE RevokedIsDead'
  BY <1>1 DEF BeginCreds, Begin
<1>2. ASSUME NEW p \in Procs, NEW u \in Users, NEW k \in Key, BeginRotate(p, u, k) PROVE RevokedIsDead'
  BY <1>2 DEF BeginRotate, Begin
<1>3. ASSUME NEW p \in Procs, NEW l \in leases, BeginRevoke(p, l) PROVE RevokedIsDead'
  BY <1>3 DEF BeginRevoke, Begin
<1>4. ASSUME NEW p \in Procs, GetClient(p) PROVE RevokedIsDead'
  BY <1>4 DEF GetClient, Get
<1>5. ASSUME NEW p \in Procs, SendReset(p) PROVE RevokedIsDead'
  BY <1>5 DEF SendReset
<1>6. ASSUME NEW p \in Procs, RequestRefused(p) PROVE RevokedIsDead'
  BY <1>6 DEF RequestRefused, End, LetGo, GetFails
<1>7. ASSUME NEW p \in Procs, ResetAnswered(p) PROVE RevokedIsDead'
  <2>1. CASE job[p].kind = "revoke"
    <3> DEFINE l == job[p].lease
    <3>1. revoked' = revoked \cup {[lease |-> l, where |-> Where(conn[p])]}
      BY <1>7, <2>1 DEF ResetAnswered, End, LetGo
    <3>2. Where(conn[p]) = l.at.where => Target(p) = l.at
      <4>1. /\ Target(p) \in Account /\ l.at \in Account
            /\ Target(p).user = l.at.user
            /\ Target(p).where = Where(conn[p])
        BY <1>7, <2>1, TargetType DEF ResetAnswered, End, LetGo, Lease
      <4> QED
        BY <4>1 DEF Account
    <3>3. Where(conn[p]) = l.at.where => keycloak[l.at] # l.pw
      BY <1>7, <2>1, <3>2 DEF ResetAnswered, End, LetGo
    <3> QED
      BY <1>7, <3>1, <3>3 DEF ResetAnswered, End, LetGo
  <2>2. CASE job[p].kind # "revoke"
    BY <1>7, <2>2 DEF ResetAnswered, End, LetGo
  <2> QED
    BY <2>1, <2>2
<1>8. ASSUME NEW p \in Procs, SkipSync(p) PROVE RevokedIsDead'
  BY <1>8 DEF SkipSync
<1>9. ASSUME NEW p \in Procs, WarnNoToken(p) PROVE RevokedIsDead'
  BY <1>9 DEF WarnNoToken
<1>10. ASSUME NEW p \in Procs, BeginSync(p) PROVE RevokedIsDead'
  BY <1>10 DEF BeginSync
<1>11. ASSUME NEW p \in Procs, SyncStep(p) PROVE RevokedIsDead'
  BY <1>11 DEF SyncStep
<1>12. ASSUME NEW p \in Procs, EndSync(p) PROVE RevokedIsDead'
  BY <1>12 DEF EndSync
<1>13. ASSUME NEW p \in Procs, Respond(p) PROVE RevokedIsDead'
  BY <1>13 DEF Respond, End, LetGo
<1>14. ASSUME NEW h \in Handlers, ChangeConfig(h) PROVE RevokedIsDead'
  BY <1>14 DEF ChangeConfig, Change
<1>15. ASSUME NEW h \in Handlers, ResetClient(h) PROVE RevokedIsDead'
  BY <1>15 DEF ResetClient, Reset
<1>16. ASSUME NEW r \in RoleNames, NEW role \in Role \cup {NoRole}, ChangeRole(r, role) PROVE RevokedIsDead'
  BY <1>16 DEF ChangeRole
<1>17. ASSUME NEW m \in wire, Apply(m) PROVE RevokedIsDead'
  BY <1>17 DEF Apply
<1>18. ASSUME Crash PROVE RevokedIsDead'
  BY <1>18 DEF Crash, Die
<1>19. ASSUME UNCHANGED vars PROVE RevokedIsDead'
  BY <1>19 DEF vars
<1>20. ASSUME NEW r \in late, KVArrive(r) PROVE RevokedIsDead'
  BY <1>20 DEF KVArrive, Arrive
<1> QED
  BY <1>1, <1>2, <1>3, <1>4, <1>5, <1>6, <1>7, <1>8, <1>9, <1>10,
     <1>11, <1>12, <1>13, <1>14, <1>15, <1>16, <1>17, <1>18, <1>19, <1>20
  DEF Next, Request, Step, Operator

(* The password of a sync was applied. *)
LEMMA SyncStepInv == IInv /\ [Next]_vars => SyncInv'
<1> SUFFICES ASSUME IInv, [Next]_vars PROVE SyncInv'
  OBVIOUS
<1> USE DEF IInv, TypeOK, KVTypeOK, JobInv, SyncInv, Goto, cacheVars, lifetime, world, kvVars, NoJob, NoSync, SyncStart, KVStep, Advance, SyncReturn, PatchSucceeds, PatchNotFound, PutSucceeds, RequestFails, RequestStrays, KVAnswer, IsApplied
<1>1. ASSUME NEW p \in Procs, NEW r \in RoleNames, BeginCreds(p, r) PROVE SyncInv'
  BY <1>1 DEF BeginCreds, Begin
<1>2. ASSUME NEW p \in Procs, NEW u \in Users, NEW k \in Key, BeginRotate(p, u, k) PROVE SyncInv'
  BY <1>2 DEF BeginRotate, Begin
<1>3. ASSUME NEW p \in Procs, NEW l \in leases, BeginRevoke(p, l) PROVE SyncInv'
  BY <1>3 DEF BeginRevoke, Begin
<1>4. ASSUME NEW p \in Procs, GetClient(p) PROVE SyncInv'
  BY <1>4 DEF GetClient, Get
<1>5. ASSUME NEW p \in Procs, SendReset(p) PROVE SyncInv'
  BY <1>5 DEF SendReset
<1>6. ASSUME NEW p \in Procs, RequestRefused(p) PROVE SyncInv'
  BY <1>6 DEF RequestRefused, End, LetGo, GetFails
<1>7. ASSUME NEW p \in Procs, ResetAnswered(p) PROVE SyncInv'
  BY <1>7 DEF ResetAnswered, End, LetGo
<1>8. ASSUME NEW p \in Procs, SkipSync(p) PROVE SyncInv'
  BY <1>8 DEF SkipSync
<1>9. ASSUME NEW p \in Procs, WarnNoToken(p) PROVE SyncInv'
  BY <1>9 DEF WarnNoToken
<1>10. ASSUME NEW p \in Procs, BeginSync(p) PROVE SyncInv'
  <2>1. /\ sync' = [sync EXCEPT ![p] =
              [phase |-> "patch", secret |-> SecretOf(stored), key |-> job[p].key,
               pw |-> job[p].pw, existed |-> kv[SecretOf(stored)] # NoSecret]]
        /\ pc[p] = "kv" /\ stored \in Configs /\ KVConfigured(stored)
        /\ UNCHANGED <<applied, late>>
    BY <1>10 DEF BeginSync
  <2>2. SecretOf(stored) \in Secrets
    BY <2>1, CredentialsAssumption
  <2>3. job[p].key \in Keys /\ job[p].pw \in applied
    BY <2>1
  <2> QED
    BY <2>1, <2>2, <2>3
<1>11. ASSUME NEW p \in Procs, SyncStep(p) PROVE SyncInv'
  <2>1. UNCHANGED applied
    BY <1>11 DEF SyncStep
  <2>2. CASE RequestStrays(p)
    BY <2>1, <2>2
  <2>3. CASE \E to \in Phase : Advance(p, "patch", to) \/ Advance(p, "put", to)
    BY <2>1, <2>3 DEF Sync
  <2> QED
    BY <1>11, <2>2, <2>3 DEF SyncStep, Phase
<1>12. ASSUME NEW p \in Procs, EndSync(p) PROVE SyncInv'
  BY <1>12 DEF EndSync
<1>13. ASSUME NEW p \in Procs, Respond(p) PROVE SyncInv'
  BY <1>13 DEF Respond, End, LetGo
<1>14. ASSUME NEW h \in Handlers, ChangeConfig(h) PROVE SyncInv'
  BY <1>14 DEF ChangeConfig, Change
<1>15. ASSUME NEW h \in Handlers, ResetClient(h) PROVE SyncInv'
  BY <1>15 DEF ResetClient, Reset
<1>16. ASSUME NEW r \in RoleNames, NEW role \in Role \cup {NoRole}, ChangeRole(r, role) PROVE SyncInv'
  BY <1>16 DEF ChangeRole
<1>17. ASSUME NEW m \in wire, Apply(m) PROVE SyncInv'
  BY <1>17 DEF Apply
<1>18. ASSUME Crash PROVE SyncInv'
  BY <1>18 DEF Crash, Die
<1>19. ASSUME UNCHANGED vars PROVE SyncInv'
  BY <1>19 DEF vars
<1>20. ASSUME NEW r \in late, KVArrive(r) PROVE SyncInv'
  BY <1>20 DEF KVArrive, Arrive
<1> QED
  BY <1>1, <1>2, <1>3, <1>4, <1>5, <1>6, <1>7, <1>8, <1>9, <1>10,
     <1>11, <1>12, <1>13, <1>14, <1>15, <1>16, <1>17, <1>18, <1>19, <1>20
  DEF Next, Request, Step, Operator

(* KV is written from a sync alone, and its passwords were applied. *)
LEMMA KVHoldsStep == IInv /\ [Next]_vars => KVHoldsAppliedPasswords'
<1> SUFFICES ASSUME IInv, [Next]_vars PROVE KVHoldsAppliedPasswords'
  OBVIOUS
<1> USE DEF IInv, TypeOK, KVTypeOK, SyncInv, KVHoldsAppliedPasswords, Goto, cacheVars, lifetime, world, kvVars, NoJob, KVStep, Advance, SyncReturn, SyncStart, PatchSucceeds, PatchNotFound, PutSucceeds, RequestFails, RequestStrays, KVAnswer, IsApplied, Merged, Created, Exists, HasKey, NoSync
<1>1. ASSUME NEW p \in Procs, NEW r \in RoleNames, BeginCreds(p, r) PROVE KVHoldsAppliedPasswords'
  BY <1>1 DEF BeginCreds, Begin
<1>2. ASSUME NEW p \in Procs, NEW u \in Users, NEW k \in Key, BeginRotate(p, u, k) PROVE KVHoldsAppliedPasswords'
  BY <1>2 DEF BeginRotate, Begin
<1>3. ASSUME NEW p \in Procs, NEW l \in leases, BeginRevoke(p, l) PROVE KVHoldsAppliedPasswords'
  BY <1>3 DEF BeginRevoke, Begin
<1>4. ASSUME NEW p \in Procs, GetClient(p) PROVE KVHoldsAppliedPasswords'
  BY <1>4 DEF GetClient, Get
<1>5. ASSUME NEW p \in Procs, SendReset(p) PROVE KVHoldsAppliedPasswords'
  BY <1>5 DEF SendReset
<1>6. ASSUME NEW p \in Procs, RequestRefused(p) PROVE KVHoldsAppliedPasswords'
  BY <1>6 DEF RequestRefused, End, LetGo, GetFails
<1>7. ASSUME NEW p \in Procs, ResetAnswered(p) PROVE KVHoldsAppliedPasswords'
  BY <1>7 DEF ResetAnswered, End, LetGo
<1>8. ASSUME NEW p \in Procs, SkipSync(p) PROVE KVHoldsAppliedPasswords'
  BY <1>8 DEF SkipSync
<1>9. ASSUME NEW p \in Procs, WarnNoToken(p) PROVE KVHoldsAppliedPasswords'
  BY <1>9 DEF WarnNoToken
<1>10. ASSUME NEW p \in Procs, BeginSync(p) PROVE KVHoldsAppliedPasswords'
  BY <1>10 DEF BeginSync
<1>11. ASSUME NEW p \in Procs, SyncStep(p) PROVE KVHoldsAppliedPasswords'
  BY <1>11 DEF SyncStep
<1>12. ASSUME NEW p \in Procs, EndSync(p) PROVE KVHoldsAppliedPasswords'
  BY <1>12 DEF EndSync
<1>13. ASSUME NEW p \in Procs, Respond(p) PROVE KVHoldsAppliedPasswords'
  BY <1>13 DEF Respond, End, LetGo
<1>14. ASSUME NEW h \in Handlers, ChangeConfig(h) PROVE KVHoldsAppliedPasswords'
  BY <1>14 DEF ChangeConfig, Change
<1>15. ASSUME NEW h \in Handlers, ResetClient(h) PROVE KVHoldsAppliedPasswords'
  BY <1>15 DEF ResetClient, Reset
<1>16. ASSUME NEW r \in RoleNames, NEW role \in Role \cup {NoRole}, ChangeRole(r, role) PROVE KVHoldsAppliedPasswords'
  BY <1>16 DEF ChangeRole
<1>17. ASSUME NEW m \in wire, Apply(m) PROVE KVHoldsAppliedPasswords'
  BY <1>17 DEF Apply
<1>18. ASSUME Crash PROVE KVHoldsAppliedPasswords'
  BY <1>18 DEF Crash, Die
<1>19. ASSUME UNCHANGED vars PROVE KVHoldsAppliedPasswords'
  BY <1>19 DEF vars
<1>20. ASSUME NEW r \in late, KVArrive(r) PROVE KVHoldsAppliedPasswords'
  BY <1>20 DEF KVArrive, Arrive
<1> QED
  BY <1>1, <1>2, <1>3, <1>4, <1>5, <1>6, <1>7, <1>8, <1>9, <1>10,
     <1>11, <1>12, <1>13, <1>14, <1>15, <1>16, <1>17, <1>18, <1>19, <1>20
  DEF Next, Request, Step, Operator

(* The ways a step writes pc, job and sync keep their types. *)
LEMMA GotoType ==
  ASSUME TypeOK, NEW p \in Procs, NEW from, NEW to \in PC, Goto(p, from, to)
  PROVE  pc' \in [Procs -> PC]
BY DEF TypeOK, Goto

(* A handler's new local variables are local variables. *)
LEMMA JobType ==
  ASSUME TypeOK, NEW p \in Procs, NEW j \in Job, job' = [job EXCEPT ![p] = j]
  PROVE  job' \in [Procs -> Job]
BY DEF TypeOK

(* A client is let go of. *)
LEMMA LetGoType ==
  ASSUME TypeOK, NEW p \in Procs, LetGo(p)
  PROVE  conn' \in [Procs -> Conns \cup {NoClient}]
BY DEF TypeOK, LetGo

(* What an idle goroutine holds has the type of a job and of a sync. *)
LEMMA NoJobType == NoJob \in Job /\ NoSync \in Sync
BY KVAssumption DEF NoJob, Job, Kind, Key, NoSync, Sync, Phase

(* A request begins with local variables of their type. *)
LEMMA BeginType ==
  ASSUME TypeOK, NEW p \in Procs, NEW j \in Job, Begin(p, j)
  PROVE  pc' \in [Procs -> PC] /\ job' \in [Procs -> Job]
BY GotoType, JobType DEF Begin, PC

(* A KV request moves its call from one phase to another. *)
LEMMA AdvanceType ==
  ASSUME TypeOK, NEW p \in Procs, NEW from, NEW to \in Phase, Advance(p, from, to)
  PROVE  sync' \in [Procs -> Sync] /\ late' \subseteq Sync
BY DEF TypeOK, KVTypeOK, Advance, Sync

(* What the two KV requests write is a secret. *)
LEMMA WrittenType ==
  ASSUME TypeOK, NEW r \in Sync
  PROVE  /\ Exists(r) => Merged(r) \in [Secrets -> [Keys -> Nat] \cup {NoSecret}]
         /\ Created(r) \in [Secrets -> [Keys -> Nat] \cup {NoSecret}]
<1> DEFINE T == [Keys -> Nat] \cup {NoSecret}
<1>1. kv \in [Secrets -> T] /\ r.pw \in Nat
  BY DEF TypeOK, KVTypeOK, Sync
<1>2. [k \in Keys |-> IF k = r.key THEN r.pw ELSE NoValue] \in T
  BY <1>1 DEF NoValue
<1>3. r.secret \in Secrets /\ Exists(r) => [kv[r.secret] EXCEPT ![r.key] = r.pw] \in T
  BY <1>1 DEF Exists
<1> HIDE DEF T
<1>4. Created(r) \in [Secrets -> T]
  BY <1>1, <1>2 DEF Created
<1>5. Exists(r) => Merged(r) \in [Secrets -> T]
  BY <1>1, <1>3 DEF Merged
<1> QED
  BY <1>4, <1>5 DEF T

(* Every action keeps every variable within its type. *)
LEMMA TypeStep == IInv /\ [Next]_vars => TypeOK'
<1> SUFFICES ASSUME IInv, [Next]_vars PROVE TypeOK'
  OBVIOUS
<1>0. TypeOK /\ JobInv /\ WireInv /\ SyncInv
  BY DEF IInv
<1> USE <1>0 DEF cacheVars, lifetime, world, kvVars
<1>1. ASSUME NEW p \in Procs, NEW r \in RoleNames, BeginCreds(p, r) PROVE TypeOK'
  <2> DEFINE j == [NoJob EXCEPT !.kind = "creds", !.user = roles[r].user, !.key = roles[r].key]
  <2>1. roles[r] \in Role
    BY <1>1 DEF BeginCreds, TypeOK
  <2>2. j \in Job
    BY <2>1, NoJobType DEF Role, NoJob, Job, Kind
  <2>3. Begin(p, j) /\ UNCHANGED <<cacheVars, roles, world, lifetime, kvVars>>
    BY <1>1 DEF BeginCreds
  <2> HIDE DEF j
  <2> QED
    BY <2>2, <2>3, BeginType DEF TypeOK, KVTypeOK
<1>2. ASSUME NEW p \in Procs, NEW u \in Users, NEW k \in Key, BeginRotate(p, u, k) PROVE TypeOK'
  <2> DEFINE j == [NoJob EXCEPT !.kind = "rotate", !.user = u, !.key = k]
  <2>1. j \in Job
    BY NoJobType DEF NoJob, Job, Kind, Key
  <2>2. Begin(p, j) /\ UNCHANGED <<cacheVars, roles, world, lifetime, kvVars>>
    BY <1>2 DEF BeginRotate
  <2> HIDE DEF j
  <2> QED
    BY <2>1, <2>2, BeginType DEF TypeOK, KVTypeOK
<1>3. ASSUME NEW p \in Procs, NEW l \in leases, BeginRevoke(p, l) PROVE TypeOK'
  <2> DEFINE j == [NoJob EXCEPT !.kind = "revoke", !.user = l.user, !.lease = l]
  <2>1. l \in Lease /\ l.user \in Users
    BY DEF TypeOK, Lease
  <2>2. j \in Job
    BY <2>1, NoJobType DEF NoJob, Job, Kind
  <2>3. Begin(p, j) /\ UNCHANGED <<cacheVars, roles, world, lifetime, kvVars>>
    BY <1>3 DEF BeginRevoke
  <2> HIDE DEF j
  <2> QED
    BY <2>2, <2>3, BeginType DEF TypeOK, KVTypeOK
<1>4. ASSUME NEW p \in Procs, GetClient(p) PROVE TypeOK'
  <2>1. client' \in Conns /\ conn' \in [Procs -> Conns \cup {NoClient}]
    BY <1>4, GetType DEF GetClient
  <2>2. pc' \in [Procs -> PC]
    BY <1>4, GotoType DEF GetClient, PC
  <2> QED
    BY <1>4, <2>1, <2>2 DEF GetClient, Get, TypeOK, KVTypeOK
<1>5. ASSUME NEW p \in Procs, SendReset(p) PROVE TypeOK'
  <2>1. /\ job' = [job EXCEPT ![p] = [job[p] EXCEPT !.pw = nextPw]]
        /\ nextPw \in 1 .. MaxPasswords /\ nextPw' = nextPw + 1
        /\ pc[p] = "reset"
    BY <1>5 DEF SendReset, TypeOK, Goto
  <2>2. [job[p] EXCEPT !.pw = nextPw] \in Job
    BY <2>1, KVAssumption DEF TypeOK, Job
  <2>3. job' \in [Procs -> Job]
    BY <2>1, <2>2, JobType
  <2>4. pc' \in [Procs -> PC]
    BY <1>5, GotoType DEF SendReset, PC
  <2>5. Target(p) \in Account
    BY <2>1, TargetType DEF JobInv
  <2>6. [at |-> Target(p), pw |-> nextPw, kind |-> job[p].kind] \in Message
    BY <2>1, <2>5 DEF Message, Password, TypeOK, Job
  <2>7. wire' \subseteq Message
    BY <1>5, <2>6 DEF SendReset, TypeOK
  <2>8. nextPw' \in 1 .. MaxPasswords + 1
    BY <2>1, KVAssumption
  <2> QED
    BY <1>5, <2>3, <2>4, <2>7, <2>8 DEF SendReset, TypeOK, KVTypeOK
<1>6. ASSUME NEW p \in Procs, RequestRefused(p) PROVE TypeOK'
  <2>1. /\ \E from \in PC : Goto(p, from, "idle")
        /\ job' = [job EXCEPT ![p] = NoJob]
        /\ GetFails \/ LetGo(p)
        /\ UNCHANGED <<roles, world, lifetime, kvVars>>
    BY <1>6 DEF RequestRefused, End, PC
  <2>2. pc' \in [Procs -> PC]
    BY <2>1, GotoType DEF PC
  <2>3. job' \in [Procs -> Job]
    BY <2>1, JobType, NoJobType
  <2>4. /\ client' \in Conns \cup {NoClient}
        /\ conn' \in [Procs -> Conns \cup {NoClient}]
        /\ UNCHANGED <<stored, resets>>
    BY <2>1, LetGoType DEF GetFails, LetGo, TypeOK
  <2> QED
    BY <2>1, <2>2, <2>3, <2>4 DEF TypeOK, KVTypeOK
<1>7. ASSUME NEW p \in Procs, ResetAnswered(p) PROVE TypeOK'
  <2>1. CASE job[p].kind = "revoke"
    <3>1. pc' \in [Procs -> PC]
      BY <1>7, <2>1, GotoType DEF ResetAnswered, End, LetGo, PC
    <3>2. job' \in [Procs -> Job]
      BY <1>7, <2>1, JobType, NoJobType DEF ResetAnswered, End, LetGo
    <3>3. job[p].lease \in Lease
      BY <2>1 DEF JobInv
    <3>4. Where(conn[p]) \in Places
      BY <1>7 DEF JobInv, ResetAnswered, Places
    <3>5. [lease |-> job[p].lease, where |-> Where(conn[p])] \in [lease : Lease, where : Places]
      BY <3>3, <3>4
    <3>6. /\ revoked' \subseteq [lease : Lease, where : Places]
          /\ leases' \subseteq Lease
      BY <1>7, <2>1, <3>5 DEF ResetAnswered, End, LetGo, TypeOK
    <3> QED
      BY <1>7, <3>1, <3>2, <3>6 DEF ResetAnswered, End, LetGo, TypeOK, KVTypeOK
  <2>2. CASE job[p].kind # "revoke"
    <3>1. \E to \in PC : Goto(p, "sent", to)
      BY <1>7, <2>2 DEF ResetAnswered, End, LetGo, PC
    <3>2. pc' \in [Procs -> PC]
      BY <3>1, GotoType
    <3> QED
      BY <1>7, <2>2, <3>2 DEF ResetAnswered, End, LetGo, TypeOK, KVTypeOK
  <2> QED
    BY <2>1, <2>2
<1>8. ASSUME NEW p \in Procs, SkipSync(p) PROVE TypeOK'
  <2>1. pc' \in [Procs -> PC]
    BY <1>8, GotoType DEF SkipSync, PC
  <2> QED
    BY <1>8, <2>1 DEF SkipSync, TypeOK, KVTypeOK
<1>9. ASSUME NEW p \in Procs, WarnNoToken(p) PROVE TypeOK'
  <2>1. pc' \in [Procs -> PC]
    BY <1>9, GotoType DEF WarnNoToken, PC
  <2>2. [job[p] EXCEPT !.kvSync = "warned"] \in Job
    BY DEF TypeOK, Job
  <2>3. job' \in [Procs -> Job]
    BY <1>9, <2>2, JobType DEF WarnNoToken
  <2> QED
    BY <1>9, <2>1, <2>3 DEF WarnNoToken, TypeOK, KVTypeOK
<1>10. ASSUME NEW p \in Procs, BeginSync(p) PROVE TypeOK'
  <2>1. pc' \in [Procs -> PC]
    BY <1>10, GotoType DEF BeginSync, PC
  <2> DEFINE s == [phase |-> "patch", secret |-> SecretOf(stored), key |-> job[p].key,
                   pw |-> job[p].pw, existed |-> kv[SecretOf(stored)] # NoSecret]
  <2>2. /\ pc[p] = "kv"
        /\ stored \in Configs /\ KVConfigured(stored)
        /\ sync' = [sync EXCEPT ![p] = s] /\ UNCHANGED <<kv, late>>
    BY <1>10 DEF BeginSync, SyncStart, TypeOK, Goto
  <2>3. /\ SecretOf(stored) \in Secrets /\ job[p].key \in Keys /\ job[p].pw \in Nat
    BY <2>2, CredentialsAssumption DEF JobInv, TypeOK, Job
  <2>4. s \in Sync
    BY <2>3 DEF Sync, Phase
  <2> HIDE DEF s
  <2>5. KVTypeOK'
    BY <2>2, <2>4 DEF TypeOK, KVTypeOK
  <2> QED
    BY <1>10, <2>1, <2>5 DEF BeginSync, TypeOK
<1>11. ASSUME NEW p \in Procs, SyncStep(p) PROVE TypeOK'
  <2>1. KVTypeOK'
    <3>0. sync[p] \in Sync
      BY DEF TypeOK, KVTypeOK
    <3>1. CASE PatchSucceeds(p)
      BY <3>0, <3>1, AdvanceType, WrittenType DEF PatchSucceeds, KVTypeOK, Phase
    <3>2. CASE PatchNotFound(p)
      BY <3>2, AdvanceType DEF PatchNotFound, KVTypeOK, TypeOK, Phase
    <3>3. CASE PutSucceeds(p)
      BY <3>0, <3>3, AdvanceType, WrittenType DEF PutSucceeds, KVTypeOK, Phase
    <3>4. CASE RequestFails(p)
      BY <3>4, AdvanceType DEF RequestFails, KVTypeOK, TypeOK, Phase
    <3>5. CASE RequestStrays(p)
      BY <3>0, <3>5 DEF RequestStrays, KVTypeOK, TypeOK
    <3> QED
      BY <1>11, <3>1, <3>2, <3>3, <3>4, <3>5 DEF SyncStep, KVStep, KVAnswer
  <2> QED
    BY <1>11, <2>1 DEF SyncStep, TypeOK
<1>12. ASSUME NEW p \in Procs, EndSync(p) PROVE TypeOK'
  <2>1. pc' \in [Procs -> PC]
    BY <1>12, GotoType DEF EndSync, PC
  <2> DEFINE j == [job[p] EXCEPT !.kvSync = IF sync[p].phase = "done" THEN "done" ELSE "warned"]
  <2>2. j \in Job
    BY DEF TypeOK, Job
  <2>3. job' \in [Procs -> Job]
    BY <1>12, <2>2, JobType DEF EndSync
  <2>4. KVTypeOK'
    BY <1>12, NoJobType DEF EndSync, SyncReturn, TypeOK, KVTypeOK
  <2> QED
    BY <1>12, <2>1, <2>3, <2>4 DEF EndSync, TypeOK
<1>13. ASSUME NEW p \in Procs, Respond(p) PROVE TypeOK'
  <2> DEFINE issued == [pw |-> job[p].pw, user |-> job[p].user, at |-> Target(p)]
             entry == [at |-> Target(p), pw |-> job[p].pw, kind |-> job[p].kind]
  <2>1. pc[p] = "respond" /\ pc' \in [Procs -> PC]
    BY <1>13, GotoType DEF Respond, End, PC, Goto
  <2>2. job' \in [Procs -> Job]
    BY <1>13, JobType, NoJobType DEF Respond, End, LetGo
  <2>3. /\ job[p].pw \in Password /\ job[p].user \in Users
        /\ Target(p) \in Account /\ job[p].kind \in Kind
    BY <2>1, TargetType DEF JobInv, TypeOK, Job
  <2>4. issued \in Lease /\ entry \in [at : Account, pw : Password, kind : Kind]
    BY <2>3 DEF Lease
  <2>5. leases' \subseteq leases \cup {issued} /\ returned' = returned \cup {entry}
    BY <1>13 DEF Respond, End, LetGo
  <2> HIDE DEF issued, entry
  <2>6. leases' \subseteq Lease /\ returned' \subseteq [at : Account, pw : Password, kind : Kind]
    BY <2>4, <2>5 DEF TypeOK
  <2> QED
    BY <1>13, <2>1, <2>2, <2>6, LetGoType DEF Respond, End, LetGo, TypeOK, KVTypeOK
<1>14. ASSUME NEW h \in Handlers, ChangeConfig(h) PROVE TypeOK'
  BY <1>14 DEF ChangeConfig, Change, TypeOK, KVTypeOK
<1>15. ASSUME NEW h \in Handlers, ResetClient(h) PROVE TypeOK'
  BY <1>15 DEF ResetClient, Reset, TypeOK, KVTypeOK
<1>16. ASSUME NEW r \in RoleNames, NEW role \in Role \cup {NoRole}, ChangeRole(r, role) PROVE TypeOK'
  BY <1>16 DEF ChangeRole, TypeOK, KVTypeOK
<1>17. ASSUME NEW m \in wire, Apply(m) PROVE TypeOK'
  <2>1. m.at \in Account /\ m.pw \in Password /\ m.pw \in Nat
    BY DEF TypeOK, Message, Password
  <2>2. keycloak' \in [Account -> Nat] /\ applied' \subseteq Password /\ wire' \subseteq Message
    BY <1>17, <2>1 DEF Apply, TypeOK
  <2> QED
    BY <1>17, <2>2 DEF Apply, TypeOK, KVTypeOK
<1>18. ASSUME Crash PROVE TypeOK'
  <2>1. pc' \in [Procs -> PC] /\ job' \in [Procs -> Job] /\ sync' \in [Procs -> Sync]
    BY <1>18, NoJobType DEF Crash, PC
  <2> QED
    BY <1>18, <2>1 DEF Crash, Die, TypeOK, KVTypeOK
<1>19. ASSUME UNCHANGED vars PROVE TypeOK'
  BY <1>19 DEF vars, TypeOK, KVTypeOK
<1>20. ASSUME NEW r \in late, KVArrive(r) PROVE TypeOK'
  <2>1. r \in Sync
    BY DEF TypeOK, KVTypeOK
  <2>2. KVTypeOK'
    BY <1>20, <2>1, WrittenType DEF KVArrive, Arrive, TypeOK, KVTypeOK
  <2> QED
    BY <1>20, <2>2 DEF KVArrive, TypeOK
<1> QED
  BY <1>1, <1>2, <1>3, <1>4, <1>5, <1>6, <1>7, <1>8, <1>9, <1>10,
     <1>11, <1>12, <1>13, <1>14, <1>15, <1>16, <1>17, <1>18, <1>19, <1>20
  DEF Next, Request, Step, Operator

(* The invariant holds at the start, where nothing has been set. *)
LEMMA InitInv == Init => IInv
<1> SUFFICES ASSUME Init PROVE IInv
  OBVIOUS
<1>1. TypeOK
  <2>1. KVTypeOK
    BY NoJobType DEF Init, KVInit, KVTypeOK, NoValue
  <2>2. 1 \in 1 .. MaxPasswords + 1
    BY KVAssumption
  <2> QED
    BY <2>1, <2>2, NoJobType DEF Init, CacheInit, TypeOK, PC
<1>2. JobInv /\ Overwritten
  BY DEF Init, JobInv, Overwritten, NoJob
<1>3. WireInv /\ LeaseInv /\ RevokedIsDead
  BY DEF Init, WireInv, LeaseInv, RevokedIsDead
<1>4. SyncInv
  BY DEF Init, KVInit, SyncInv, NoSync
<1>5. KVHoldsAppliedPasswords
  BY DEF Init, KVInit, KVHoldsAppliedPasswords, HasKey
<1> QED
  BY <1>1, <1>2, <1>3, <1>4, <1>5 DEF IInv

(* Every step keeps all of the invariant. *)
LEMMA InvStep == IInv /\ [Next]_vars => IInv'
BY TypeStep, JobStep, WireStep, LeaseStep, OverwrittenStep, RevokedStep,
   SyncStepInv, KVHoldsStep DEF IInv

(* Every reachable state satisfies the inductive invariant. *)
LEMMA Invariance == Spec => []IInv
BY InitInv, InvStep, PTL DEF Spec

-----------------------------------------------------------------------------
(* Every variable keeps its type, whatever requests, operators, Keycloak    *)
(* and crashes do.  (path_credentials.go, path_users.go, kv_sync.go)        *)
THEOREM TypeCorrect == Spec => []TypeOK
BY Invariance, PTL DEF IInv

(* secretRevoke keeps its word: a lease reported revoked in the realm of    *)
(* its issue never has a valid password again, with any number of requests, *)
(* late resets and crashes.  (path_credentials.go:143-166)                  *)
THEOREM RevokedStaysDead == Spec => []RevokedIsDead
BY Invariance, PTL DEF IInv

(* writeKVSecret is never given a password Keycloak was not.                *)
(* (path_credentials.go:58-119, path_users.go:132-180)                      *)
THEOREM KVHoldsOnlyApplied == Spec => []KVHoldsAppliedPasswords
BY Invariance, PTL DEF IInv

-----------------------------------------------------------------------------
(* The refinement of PasswordLife *)

Retired == {[at |-> r.lease.at, pw |-> r.lease.pw] :
              r \in {r \in revoked : r.where = r.lease.at.where}}

(* One more revoked lease retires one credential, if it reached its realm. *)
LEMMA RetiredGrows ==
  ASSUME NEW S, NEW e
  PROVE  {[at |-> r.lease.at, pw |-> r.lease.pw] :
            r \in {r \in S \cup {e} : r.where = r.lease.at.where}}
         = {[at |-> r.lease.at, pw |-> r.lease.pw] :
              r \in {r \in S : r.where = r.lease.at.where}}
           \cup (IF e.where = e.lease.at.where
                   THEN {[at |-> e.lease.at, pw |-> e.lease.pw]} ELSE {})
OBVIOUS

(* Nothing set, handed out or revoked is where the abstract life begins. *)
LEMMA LifeInit == Init => Life!Init
BY DEF Init, Life!Init

(* Every step is one of the abstract life's, or changes nothing it sees. *)
LEMMA LifeStep == IInv /\ [Next]_vars => [Life!Next]_Life!vars
<1> SUFFICES ASSUME IInv, [Next]_vars PROVE [Life!Next]_Life!vars
  OBVIOUS
<1>0. TypeOK /\ JobInv /\ WireInv /\ RevokedIsDead /\ RevokedIsDead'
  BY RevokedStep DEF IInv
<1> USE <1>0
<1>1. ASSUME UNCHANGED <<keycloak, applied, returned, revoked>>
      PROVE  UNCHANGED Life!vars
  BY <1>1 DEF Life!vars
<1>2. ASSUME NEW p \in Procs, ResetAnswered(p) PROVE [Life!Next]_Life!vars
  <2>1. CASE job[p].kind = "revoke"
    <3> DEFINE l == job[p].lease
               e == [lease |-> l, where |-> Where(conn[p])]
    <3>1. /\ revoked' = revoked \cup {e}
          /\ UNCHANGED <<keycloak, applied, returned>>
      BY <1>2, <2>1 DEF ResetAnswered, End, LetGo, world
    <3>2. l.at \in Account /\ l.pw \in Password /\ l.pw \in Handed
      BY <2>1 DEF JobInv, Lease
    <3>3. e.lease = l /\ e.where = Where(conn[p])
      OBVIOUS
    <3> HIDE DEF l, e
    <3>4. Retired' = Retired \cup (IF e.where = l.at.where
                                     THEN {[at |-> l.at, pw |-> l.pw]} ELSE {})
      BY <3>1, <3>3, RetiredGrows DEF Retired
    <3>5. CASE e.where = l.at.where
      <4>1. keycloak[l.at] # l.pw
        BY <3>1, <3>3, <3>5 DEF RevokedIsDead
      <4>2. PICK w \in Password, a \in Account : w = l.pw /\ a = l.at
        BY <3>2
      <4>3. Life!Retire(a, w)
        BY <3>1, <3>2, <3>4, <3>5, <4>1, <4>2 DEF Life!Retire, Retired, Handed
      <4> QED
        BY <4>3 DEF Life!Next
    <3>6. CASE e.where # l.at.where
      BY <3>1, <3>4, <3>6 DEF Life!vars, Retired
    <3> QED
      BY <3>5, <3>6
  <2>2. CASE job[p].kind # "revoke"
    BY <1>1, <1>2, <2>2 DEF ResetAnswered, End, LetGo, world
  <2> QED
    BY <2>1, <2>2
<1>3. ASSUME NEW p \in Procs, Respond(p) PROVE [Life!Next]_Life!vars
  <2> DEFINE e == [at |-> Target(p), pw |-> job[p].pw, kind |-> job[p].kind]
  <2>1. /\ returned' = returned \cup {e}
        /\ UNCHANGED <<keycloak, applied, revoked>>
    BY <1>3 DEF Respond, world
  <2>2. e.pw = job[p].pw /\ job[p].pw \in applied /\ job[p].pw \in Password
    BY <1>3 DEF Respond, End, Goto, JobInv, TypeOK
  <2> HIDE DEF e
  <2>3. {r.pw : r \in returned'} = {r.pw : r \in returned} \cup {job[p].pw}
    BY <2>1, <2>2, HandedGrows
  <2>4. PICK w \in Password : w = job[p].pw
    BY <2>2
  <2>5. Life!HandOut(w)
    BY <2>1, <2>2, <2>3, <2>4 DEF Life!HandOut
  <2> QED
    BY <2>5 DEF Life!Next
<1>4. ASSUME NEW m \in wire, Apply(m) PROVE [Life!Next]_Life!vars
  <2>1. m.at \in Account /\ m.pw \in Password /\ m.pw \notin applied
    BY DEF TypeOK, WireInv, Message
  <2>2. Life!Set(m.at, m.pw)
    BY <1>4, <2>1 DEF Apply, lifetime, Life!Set
  <2> QED
    BY <2>1, <2>2 DEF Life!Next
<1>5. ASSUME NEW p \in Procs, Request(p) PROVE UNCHANGED Life!vars
  BY <1>1, <1>5 DEF Request, BeginCreds, BeginRotate, BeginRevoke, world, lifetime
<1>6. ASSUME NEW p \in Procs,
             \/ GetClient(p) \/ SendReset(p) \/ RequestRefused(p) \/ SkipSync(p)
             \/ WarnNoToken(p) \/ BeginSync(p) \/ SyncStep(p) \/ EndSync(p)
      PROVE  UNCHANGED Life!vars
  BY <1>1, <1>6 DEF GetClient, SendReset, RequestRefused, SkipSync, WarnNoToken,
     BeginSync, SyncStep, EndSync, world, lifetime
<1>7. ASSUME Operator PROVE UNCHANGED Life!vars
  BY <1>1, <1>7 DEF Operator, ChangeConfig, ResetClient, ChangeRole, world, lifetime
<1>8. ASSUME Crash PROVE UNCHANGED Life!vars
  BY <1>1, <1>8 DEF Crash, world, lifetime
<1>9. ASSUME NEW r \in late, KVArrive(r) PROVE UNCHANGED Life!vars
  BY <1>1, <1>9 DEF KVArrive, world, lifetime
<1>10. ASSUME UNCHANGED vars PROVE UNCHANGED Life!vars
  BY <1>1, <1>10 DEF vars
<1> QED
  BY <1>2, <1>3, <1>4, <1>5, <1>6, <1>7, <1>8, <1>9, <1>10 DEF Next, Step

(* The engine implements PasswordLife: creds, rotate and revoke, run in any *)
(* interleaving, never set a password twice, hand one out before Keycloak   *)
(* has it, or report one revoked that is still valid where it was issued.   *)
(* (path_credentials.go:35-166, path_users.go:117-184)                      *)
THEOREM LifeRefined == Spec => ImplementsPasswordLife
BY LifeInit, LifeStep, Invariance, PTL DEF Spec, ImplementsPasswordLife, Life!Spec

-----------------------------------------------------------------------------
(* A request whose password Keycloak has accepted leaves the code only      *)
(* through the response, or with everything else in a crash.                *)
LEMMA KVFatalStep ==
  ASSUME IInv, [Next]_vars, NEW p \in Procs,
         pc[p] \in {"kv", "sync", "respond"}, pc'[p] = "idle"
  PROVE  (\E r \in returned' : r.pw = job[p].pw) \/ \A q \in Procs : pc'[q] = "idle"
<1> USE DEF Goto
<1>0. pc \in [Procs -> PC]
  BY DEF IInv, TypeOK
<1>1. ASSUME NEW q \in Procs, Respond(q) PROVE q = p /\ \E r \in returned' : r.pw = job[p].pw
  <2>1. q = p
    BY <1>0, <1>1 DEF Respond, End, LetGo
  <2> DEFINE e == [at |-> Target(q), pw |-> job[q].pw, kind |-> job[q].kind]
  <2>2. e \in returned' /\ e.pw = job[q].pw
    BY <1>1 DEF Respond, End, LetGo
  <2> QED
    BY <2>1, <2>2
<1>2. ASSUME Crash PROVE \A q \in Procs : pc'[q] = "idle"
  BY <1>2 DEF Crash, Die
<1>3. ASSUME NEW q \in Procs, Request(q) PROVE FALSE
  BY <1>0, <1>3 DEF Request, BeginCreds, BeginRotate, BeginRevoke, Begin
<1>4. ASSUME NEW q \in Procs, GetClient(q) \/ SendReset(q) \/ RequestRefused(q) PROVE FALSE
  BY <1>0, <1>4 DEF GetClient, SendReset, RequestRefused, End
<1>5. ASSUME NEW q \in Procs, ResetAnswered(q) PROVE FALSE
  BY <1>0, <1>5 DEF ResetAnswered, End, LetGo
<1>6. ASSUME NEW q \in Procs, SkipSync(q) \/ WarnNoToken(q) \/ BeginSync(q) \/ EndSync(q) PROVE FALSE
  BY <1>0, <1>6 DEF SkipSync, WarnNoToken, BeginSync, EndSync
<1>7. ASSUME UNCHANGED pc PROVE FALSE
  BY <1>7
<1> QED
  BY <1>1, <1>2, <1>3, <1>4, <1>5, <1>6, <1>7
  DEF Next, Step, SyncStep, KVArrive, Operator, ChangeConfig, ResetClient, ChangeRole, Apply, vars

(* Whatever happens to the KV sync, a rotation that Keycloak accepted is    *)
(* answered with its password.  (path_credentials.go:91-121,                *)
(* path_users.go:151-182)                                                   *)
THEOREM KVNeverWithholds == Spec => KVIsNeverFatal
<1>1. IInv /\ [Next]_vars =>
        [\A p \in Procs :
           pc[p] \in {"kv", "sync", "respond"} /\ pc'[p] = "idle"
           => (\E r \in returned' : r.pw = job[p].pw) \/ \A q \in Procs : pc'[q] = "idle"]_vars
  BY KVFatalStep
<1> QED
  BY <1>1, Invariance, PTL DEF Spec, KVIsNeverFatal

-----------------------------------------------------------------------------
(* The promise of the KV syncs, among rotations *)

(* A call that found the secret there does not go on to the PUT. *)
Placed(r) ==
  /\ r.existed => Exists(r)
  /\ r.phase = "put" => ~r.existed

PlacedInv ==
  /\ \A p \in Procs : sync[p].phase # "none" => Placed(sync[p])
  /\ \A r \in late : Placed(r)

(* KV changes by a PATCH of a secret that exists, or by a PUT, of a sync    *)
(* under way or a copy of one.                                              *)
LEMMA KVChange ==
  ASSUME IInv, [Next]_vars
  PROVE  \/ UNCHANGED kv
         \/ \E r \in UnderWay :
              /\ IsApplied(r)
              /\ \/ r.phase = "patch" /\ Exists(r) /\ kv' = Merged(r)
                 \/ r.phase = "put" /\ kv' = Created(r)
<1>0. SyncInv
  BY DEF IInv
<1>1. ASSUME NEW p \in Procs, PatchSucceeds(p) \/ PutSucceeds(p)
      PROVE  /\ sync[p] \in UnderWay /\ IsApplied(sync[p])
             /\ \/ sync[p].phase = "patch" /\ Exists(sync[p]) /\ kv' = Merged(sync[p])
                \/ sync[p].phase = "put" /\ kv' = Created(sync[p])
  BY <1>0, <1>1 DEF PatchSucceeds, PutSucceeds, Advance, UnderWay, SyncInv
<1>2. ASSUME NEW p \in Procs, PatchNotFound(p) \/ RequestFails(p) \/ RequestStrays(p)
      PROVE  UNCHANGED kv
  BY <1>2 DEF PatchNotFound, RequestFails, RequestStrays
<1>3. ASSUME NEW r \in late, KVArrive(r)
      PROVE  /\ r \in UnderWay /\ IsApplied(r)
             /\ \/ r.phase = "patch" /\ Exists(r) /\ kv' = Merged(r)
                \/ r.phase = "put" /\ kv' = Created(r)
  BY <1>0, <1>3 DEF KVArrive, Arrive, UnderWay, SyncInv
<1> QED
  BY <1>1, <1>2, <1>3
  DEF Next, Request, Step, Operator, kvVars, SyncStep, KVStep, KVAnswer, BeginCreds, BeginRotate,
      BeginRevoke, GetClient, SendReset, RequestRefused, ResetAnswered, SkipSync, WarnNoToken,
      BeginSync, SyncStart, EndSync, SyncReturn, Respond, ChangeConfig, ResetClient, ChangeRole,
      Apply, Crash, vars

(* A sync goes on with its own secret, to the PUT if that does not exist.   *)
LEMMA SyncMoves ==
  ASSUME IInv, [Next]_vars, NEW p \in Procs, sync'[p].phase # "none"
  PROVE  \/ sync'[p] = sync[p]
         \/ /\ sync[p].phase # "none"
            /\ sync'[p].secret = sync[p].secret /\ sync'[p].existed = sync[p].existed
            /\ sync'[p].phase = "put" => kv[sync[p].secret] = NoSecret
         \/ /\ sync'[p].phase = "patch" /\ UNCHANGED kv
            /\ sync'[p].existed => kv[sync'[p].secret] # NoSecret
<1> DEFINE Goal == \/ sync'[p] = sync[p]
                   \/ /\ sync[p].phase # "none"
                      /\ sync'[p].secret = sync[p].secret /\ sync'[p].existed = sync[p].existed
                      /\ sync'[p].phase = "put" => kv[sync[p].secret] = NoSecret
                   \/ /\ sync'[p].phase = "patch" /\ UNCHANGED kv
                      /\ sync'[p].existed => kv[sync'[p].secret] # NoSecret
<1>0. sync \in [Procs -> Sync]
  BY DEF IInv, TypeOK, KVTypeOK
<1>1. ASSUME NEW q \in Procs, KVAnswer(q) PROVE Goal
  <2>1. PICK to \in Phase :
          /\ sync[q].phase # "none"
          /\ sync' = [sync EXCEPT ![q].phase = to]
          /\ to = "put" => kv[sync[q].secret] = NoSecret
    BY <1>1 DEF KVAnswer, PatchSucceeds, PatchNotFound, PutSucceeds, RequestFails, Advance,
       Phase, Exists
  <2> QED
    BY <1>0, <2>1 DEF Sync
<1>2. ASSUME NEW q \in Procs, RequestStrays(q) PROVE Goal
  BY <1>2 DEF RequestStrays
<1>3. ASSUME NEW q \in Procs, BeginSync(q) PROVE Goal
  <2>1. PICK c : /\ sync' = [sync EXCEPT ![q] = c] /\ UNCHANGED kv
                 /\ c.phase = "patch" /\ (c.existed => kv[c.secret] # NoSecret)
    <3> DEFINE e == [phase |-> "patch", secret |-> SecretOf(stored), key |-> job[q].key,
                     pw |-> job[q].pw, existed |-> kv[SecretOf(stored)] # NoSecret]
    <3>1. sync' = [sync EXCEPT ![q] = e] /\ UNCHANGED kv
      BY <1>3 DEF BeginSync, SyncStart
    <3>2. e.phase = "patch" /\ (e.existed => kv[e.secret] # NoSecret)
      OBVIOUS
    <3> QED
      BY <3>1, <3>2
  <2>2. sync'[q].phase = "patch" /\ (sync'[q].existed => kv[sync'[q].secret] # NoSecret)
    BY <1>0, <2>1
  <2> QED
    BY <1>0, <2>1, <2>2
<1>4. ASSUME NEW q \in Procs, EndSync(q) PROVE Goal
  BY <1>0, <1>4 DEF EndSync, SyncReturn, NoSync
<1>5. ASSUME Crash PROVE FALSE
  BY <1>5 DEF Crash, NoSync
<1>6. ASSUME UNCHANGED sync PROVE Goal
  BY <1>6
<1> QED
  BY <1>1, <1>2, <1>3, <1>4, <1>5, <1>6
  DEF Next, Request, Step, Operator, kvVars, SyncStep, KVStep, BeginCreds, BeginRotate,
      BeginRevoke, GetClient, SendReset, RequestRefused, ResetAnswered, SkipSync, WarnNoToken,
      Respond, ChangeConfig, ResetClient, ChangeRole, Apply, KVArrive, Arrive, vars

(* What is late has been the request of a sync. *)
LEMMA LateMoves ==
  ASSUME [Next]_vars, NEW r \in late'
  PROVE  r \in late \/ \E p \in Procs : r = sync[p] /\ r.phase # "none"
<1>1. ASSUME NEW q \in Procs, RequestStrays(q)
      PROVE  r \in late \/ \E p \in Procs : r = sync[p] /\ r.phase # "none"
  BY <1>1 DEF RequestStrays
<1> QED
  BY <1>1
  DEF Next, Request, Step, Operator, kvVars, SyncStep, KVStep, KVAnswer, PatchSucceeds,
      PatchNotFound, PutSucceeds, RequestFails, Advance, BeginCreds, BeginRotate,
      BeginRevoke, GetClient, SendReset, RequestRefused, ResetAnswered, SkipSync, WarnNoToken,
      BeginSync, SyncStart, EndSync, SyncReturn, Respond, ChangeConfig, ResetClient, ChangeRole,
      Apply, KVArrive, Arrive, Crash, vars

LEMMA PlacedStep == IInv /\ PlacedInv /\ [Next]_vars => PlacedInv'
<1> SUFFICES ASSUME IInv, PlacedInv, [Next]_vars PROVE PlacedInv'
  OBVIOUS
<1>0. /\ SyncInv /\ applied \subseteq Nat
      /\ kv \in [Secrets -> Value \cup {NoSecret}]
  BY DEF IInv, TypeOK, KVTypeOK, Value, Password
<1>1. \A s \in Secrets : kv[s] # NoSecret => kv'[s] # NoSecret
  <2>1. ASSUME NEW r, IsApplied(r), (Exists(r) /\ kv' = Merged(r)) \/ kv' = Created(r)
        PROVE  \A s \in Secrets : kv[s] # NoSecret => kv'[s] # NoSecret
    <3>1. r.secret \in Secrets /\ r.key \in Keys /\ r.pw \in Nat
      BY <1>0, <2>1 DEF IsApplied
    <3> QED
      BY <1>0, <2>1, <3>1, WriteEffect
  <2> QED
    BY <2>1, KVChange
<1>2. ASSUME NEW r, r \in late \/ \E p \in Procs : r = sync[p] /\ r.phase # "none"
      PROVE  /\ r.secret \in Secrets
             /\ r.existed => kv[r.secret] # NoSecret /\ kv'[r.secret] # NoSecret
             /\ r.phase = "put" => ~r.existed
  BY <1>0, <1>1, <1>2 DEF SyncInv, IsApplied, PlacedInv, Placed, Exists
<1>3. ASSUME NEW p \in Procs, sync'[p].phase # "none"
      PROVE  /\ sync'[p].existed => kv'[sync'[p].secret] # NoSecret
             /\ sync'[p].phase = "put" => ~sync'[p].existed
  BY <1>2, <1>3, SyncMoves
<1>4. ASSUME NEW r \in late'
      PROVE  /\ r.existed => kv'[r.secret] # NoSecret
             /\ r.phase = "put" => ~r.existed
  BY <1>2, <1>4, LateMoves
<1> QED
  BY <1>3, <1>4 DEF PlacedInv, Placed, Exists

(* Among all that goes on around a rotation, no sync costs a key of KV its  *)
(* value, but for one of that key and those that found no secret.           *)
(* (path_credentials.go:91-119, path_users.go:151-180, kv_sync.go:49-69)    *)
THEOREM RotationsKeepKeys == Spec => KeysAreKept
<1>1. Init => PlacedInv
  BY DEF Init, KVInit, NoSync, PlacedInv
<1>2. Spec => []PlacedInv
  BY <1>1, Invariance, PlacedStep, PTL DEF Spec
<1>3. ASSUME IInv, PlacedInv, [Next]_vars, NEW s \in Secrets, NEW k \in Keys,
             HasKey(s, k), ~(HasKey(s, k)' /\ kv'[s][k] = kv[s][k])
      PROVE  \E r \in UnderWay : r.secret = s /\ (r.key = k \/ ~r.existed)
  <2>0. /\ applied \subseteq Nat
        /\ kv \in [Secrets -> Value \cup {NoSecret}]
    BY <1>3 DEF IInv, TypeOK, KVTypeOK, Value, Password
  <2>1. PICK r \in UnderWay :
          /\ IsApplied(r)
          /\ \/ r.phase = "patch" /\ Exists(r) /\ kv' = Merged(r)
             \/ r.phase = "put" /\ kv' = Created(r)
    BY <1>3, KVChange DEF HasKey
  <2>2. r.phase = "put" => ~r.existed
    BY <1>3 DEF PlacedInv, Placed, UnderWay
  <2> QED
    BY <1>3, <2>0, <2>1, <2>2, KeyLost DEF IsApplied
<1>4. IInv /\ PlacedInv /\ [Next]_vars =>
        [\A s \in Secrets, k \in Keys :
           HasKey(s, k) /\ ~(HasKey(s, k)' /\ kv'[s][k] = kv[s][k])
           => \E r \in UnderWay : r.secret = s /\ (r.key = k \/ ~r.existed)]_kvVars
  BY <1>3
<1> QED
  BY <1>2, <1>4, Invariance, PTL DEF Spec, KeysAreKept

=============================================================================
