--------------------------- MODULE RotationProofs ---------------------------
(***************************************************************************)
(* Proofs about RotationOrder, for any goroutines, users, roles, keys and  *)
(* configurations, and any number of passwords.                            *)
(***************************************************************************)
EXTENDS RotationOrder, CredentialsProofs

(* A request that Keycloak has carried out, answered or not, has put an end *)
(* to everything that was set before it began.                              *)
Overtaken ==
  /\ \A p \in Procs : set[p] \subseteq applied
  /\ \A p \in Procs :
       pc[p] = "sent" /\ job[p].pw \in applied => keycloak[Target(p)] \notin set[p]

SupersededInv ==
  \A s \in superseded : s.at \in Account /\ s.pw \in applied /\ keycloak[s.at] # s.pw

(* A request that is over has its password in no request any more. *)
OverInv ==
  /\ \A p \in Procs : over[p] \subseteq 1 .. nextPw - 1
  /\ \A p, q \in Procs : job[q].pw \notin over[p]

(* A sync carries the password of its request. *)
SyncOwn ==
  \A p \in Procs :
     sync[p].phase # "none" => pc[p] = "sync" /\ sync[p].pw = job[p].pw

(* A sync that is done, and not yet reported, already has the last word. *)
DoneInv ==
  \A p \in Procs : sync[p].phase = "done" =>
    \A w \in over[p] : Holds(sync[p].secret, sync[p].key, w) => Strayed(w)

SyncedInv ==
  \A s \in synced :
     /\ s.secret \in Secrets /\ s.key \in Keys /\ s.pw \in 1 .. nextPw - 1
     /\ \A p \in Procs : job[p].pw # s.pw
     /\ Holds(s.secret, s.key, s.pw) => Strayed(s.pw)

OInv == /\ IInv
        /\ Overtaken
        /\ SupersededInv
        /\ OverInv
        /\ SyncOwn
        /\ DoneInv
        /\ SyncedInv

-----------------------------------------------------------------------------
(* What a step of Credentials does to what the histories are about *)

(* Keycloak changes only when it applies a request. *)
LEMMA KeycloakStep ==
  ASSUME [Next]_vars
  PROVE  UNCHANGED <<keycloak, applied>> \/ \E m \in wire : Apply(m)
<1> USE DEF world
<1>1. ASSUME NEW q \in Procs, NEW r \in RoleNames, BeginCreds(q, r) PROVE UNCHANGED <<keycloak, applied>>
  BY <1>1 DEF BeginCreds, Begin
<1>2. ASSUME NEW q \in Procs, NEW u \in Users, NEW k \in Key, BeginRotate(q, u, k) PROVE UNCHANGED <<keycloak, applied>>
  BY <1>2 DEF BeginRotate, Begin
<1>3. ASSUME NEW q \in Procs, NEW l \in leases, BeginRevoke(q, l) PROVE UNCHANGED <<keycloak, applied>>
  BY <1>3 DEF BeginRevoke, Begin
<1>4. ASSUME NEW q \in Procs, GetClient(q) PROVE UNCHANGED <<keycloak, applied>>
  BY <1>4 DEF GetClient, Get
<1>5. ASSUME NEW q \in Procs, SendReset(q) PROVE UNCHANGED <<keycloak, applied>>
  BY <1>5 DEF SendReset
<1>6. ASSUME NEW q \in Procs, RequestRefused(q) PROVE UNCHANGED <<keycloak, applied>>
  BY <1>6 DEF RequestRefused, End, LetGo, GetFails
<1>7. ASSUME NEW q \in Procs, ResetAnswered(q) PROVE UNCHANGED <<keycloak, applied>>
  BY <1>7 DEF ResetAnswered
<1>8. ASSUME NEW q \in Procs, SkipSync(q) PROVE UNCHANGED <<keycloak, applied>>
  BY <1>8 DEF SkipSync
<1>9. ASSUME NEW q \in Procs, WarnNoToken(q) PROVE UNCHANGED <<keycloak, applied>>
  BY <1>9 DEF WarnNoToken
<1>10. ASSUME NEW q \in Procs, BeginSync(q) PROVE UNCHANGED <<keycloak, applied>>
  BY <1>10 DEF BeginSync
<1>11. ASSUME NEW q \in Procs, SyncStep(q) PROVE UNCHANGED <<keycloak, applied>>
  BY <1>11 DEF SyncStep
<1>12. ASSUME NEW q \in Procs, EndSync(q) PROVE UNCHANGED <<keycloak, applied>>
  BY <1>12 DEF EndSync
<1>13. ASSUME NEW q \in Procs, Respond(q) PROVE UNCHANGED <<keycloak, applied>>
  BY <1>13 DEF Respond, End, LetGo
<1>14. ASSUME NEW h \in Handlers, ChangeConfig(h) PROVE UNCHANGED <<keycloak, applied>>
  BY <1>14 DEF ChangeConfig, Change
<1>15. ASSUME NEW h \in Handlers, ResetClient(h) PROVE UNCHANGED <<keycloak, applied>>
  BY <1>15 DEF ResetClient, Reset
<1>16. ASSUME NEW r \in RoleNames, NEW role \in Role \cup {NoRole}, ChangeRole(r, role) PROVE UNCHANGED <<keycloak, applied>>
  BY <1>16 DEF ChangeRole
<1>18. ASSUME Crash PROVE UNCHANGED <<keycloak, applied>>
  BY <1>18 DEF Crash, Die
<1>19. ASSUME UNCHANGED vars PROVE UNCHANGED <<keycloak, applied>>
  BY <1>19 DEF vars
<1>20. ASSUME NEW r \in late, KVArrive(r) PROVE UNCHANGED <<keycloak, applied>>
  BY <1>20 DEF KVArrive, Arrive
<1> QED
  BY <1>1, <1>2, <1>3, <1>4, <1>5, <1>6, <1>7, <1>8, <1>9, <1>10,
     <1>11, <1>12, <1>13, <1>14, <1>15, <1>16, <1>18, <1>19, <1>20
  DEF Next, Request, Step, Operator

(* A request gets its password when it sends it, and loses it at its end. *)
LEMMA PasswordStep ==
  ASSUME IInv, [Next]_vars
  PROVE  /\ nextPw \in Nat \ {0} /\ nextPw' \in Nat /\ nextPw <= nextPw'
         /\ \A p \in Procs : \/ job'[p].pw \in {0, job[p].pw}
                             \/ job'[p].pw = nextPw /\ nextPw' = nextPw + 1
<1> DEFINE Goal == /\ nextPw \in Nat \ {0} /\ nextPw' \in Nat /\ nextPw <= nextPw'
                   /\ \A p \in Procs : \/ job'[p].pw \in {0, job[p].pw}
                                       \/ job'[p].pw = nextPw /\ nextPw' = nextPw + 1
<1>0. nextPw \in Nat \ {0} /\ job \in [Procs -> Job]
  BY KVAssumption DEF IInv, TypeOK
<1> USE <1>0 DEF Goto, world, NoJob
<1>1. ASSUME NEW q \in Procs, NEW r \in RoleNames, BeginCreds(q, r) PROVE Goal
  BY <1>1 DEF BeginCreds, Begin
<1>2. ASSUME NEW q \in Procs, NEW u \in Users, NEW k \in Key, BeginRotate(q, u, k) PROVE Goal
  BY <1>2 DEF BeginRotate, Begin
<1>3. ASSUME NEW q \in Procs, NEW l \in leases, BeginRevoke(q, l) PROVE Goal
  BY <1>3 DEF BeginRevoke, Begin
<1>4. ASSUME NEW q \in Procs, GetClient(q) PROVE Goal
  BY <1>4 DEF GetClient, Get
<1>5. ASSUME NEW q \in Procs, SendReset(q) PROVE Goal
  BY <1>5 DEF SendReset
<1>6. ASSUME NEW q \in Procs, RequestRefused(q) PROVE Goal
  BY <1>6 DEF RequestRefused, End, LetGo, GetFails
<1>7. ASSUME NEW q \in Procs, ResetAnswered(q) PROVE Goal
  BY <1>7 DEF ResetAnswered, End, LetGo
<1>8. ASSUME NEW q \in Procs, SkipSync(q) PROVE Goal
  BY <1>8 DEF SkipSync
<1>9. ASSUME NEW q \in Procs, WarnNoToken(q) PROVE Goal
  <2>1. job' = [job EXCEPT ![q].kvSync = "warned"] /\ UNCHANGED nextPw
    BY <1>9 DEF WarnNoToken
  <2> QED
    BY <2>1 DEF Job
<1>10. ASSUME NEW q \in Procs, BeginSync(q) PROVE Goal
  <2>1. UNCHANGED <<job, nextPw>>
    BY <1>10 DEF BeginSync
  <2> QED
    BY <2>1
<1>11. ASSUME NEW q \in Procs, SyncStep(q) PROVE Goal
  BY <1>11 DEF SyncStep
<1>12. ASSUME NEW q \in Procs, EndSync(q) PROVE Goal
  BY <1>12 DEF EndSync, Job
<1>13. ASSUME NEW q \in Procs, Respond(q) PROVE Goal
  BY <1>13 DEF Respond, End, LetGo
<1>14. ASSUME NEW h \in Handlers, ChangeConfig(h) PROVE Goal
  BY <1>14 DEF ChangeConfig, Change
<1>15. ASSUME NEW h \in Handlers, ResetClient(h) PROVE Goal
  BY <1>15 DEF ResetClient, Reset
<1>16. ASSUME NEW r \in RoleNames, NEW role \in Role \cup {NoRole}, ChangeRole(r, role) PROVE Goal
  BY <1>16 DEF ChangeRole
<1>17. ASSUME NEW m \in wire, Apply(m) PROVE Goal
  BY <1>17 DEF Apply
<1>18. ASSUME Crash PROVE Goal
  BY <1>18 DEF Crash, Die
<1>19. ASSUME UNCHANGED vars PROVE Goal
  BY <1>19 DEF vars
<1>20. ASSUME NEW r \in late, KVArrive(r) PROVE Goal
  BY <1>20 DEF KVArrive, Arrive
<1> QED
  BY <1>1, <1>2, <1>3, <1>4, <1>5, <1>6, <1>7, <1>8, <1>9, <1>10,
     <1>11, <1>12, <1>13, <1>14, <1>15, <1>16, <1>17, <1>18, <1>19, <1>20
  DEF Next, Request, Step, Operator

(* A request that waits for Keycloak either goes on waiting, or has just    *)
(* sent a password that was never set.                                      *)
LEMMA SentStep ==
  ASSUME IInv, [Next]_vars, NEW p \in Procs, pc'[p] = "sent"
  PROVE  \/ pc[p] = "sent" /\ job'[p] = job[p] /\ conn'[p] = conn[p]
         \/ pc[p] = "reset" /\ job'[p].pw \notin applied'
<1> DEFINE Goal == \/ pc[p] = "sent" /\ job'[p] = job[p] /\ conn'[p] = conn[p]
                   \/ pc[p] = "reset" /\ job'[p].pw \notin applied'
<1> USE DEF IInv, TypeOK, Goto, cacheVars, lifetime, world, kvVars, NoJob, Job, Password, WireInv
<1>1. ASSUME NEW q \in Procs, NEW r \in RoleNames, BeginCreds(q, r) PROVE Goal
  BY <1>1 DEF BeginCreds, Begin
<1>2. ASSUME NEW q \in Procs, NEW u \in Users, NEW k \in Key, BeginRotate(q, u, k) PROVE Goal
  BY <1>2 DEF BeginRotate, Begin
<1>3. ASSUME NEW q \in Procs, NEW l \in leases, BeginRevoke(q, l) PROVE Goal
  BY <1>3 DEF BeginRevoke, Begin
<1>4. ASSUME NEW q \in Procs, GetClient(q) PROVE Goal
  BY <1>4 DEF GetClient, Get
<1>5. ASSUME NEW q \in Procs, SendReset(q) PROVE Goal
  BY <1>5 DEF SendReset
<1>6. ASSUME NEW q \in Procs, RequestRefused(q) PROVE Goal
  BY <1>6 DEF RequestRefused, End, LetGo, GetFails
<1>7. ASSUME NEW q \in Procs, ResetAnswered(q) PROVE Goal
  BY <1>7 DEF ResetAnswered, End, LetGo
<1>8. ASSUME NEW q \in Procs, SkipSync(q) PROVE Goal
  BY <1>8 DEF SkipSync
<1>9. ASSUME NEW q \in Procs, WarnNoToken(q) PROVE Goal
  BY <1>9 DEF WarnNoToken
<1>10. ASSUME NEW q \in Procs, BeginSync(q) PROVE Goal
  BY <1>10 DEF BeginSync
<1>11. ASSUME NEW q \in Procs, SyncStep(q) PROVE Goal
  BY <1>11 DEF SyncStep
<1>12. ASSUME NEW q \in Procs, EndSync(q) PROVE Goal
  BY <1>12 DEF EndSync
<1>13. ASSUME NEW q \in Procs, Respond(q) PROVE Goal
  BY <1>13 DEF Respond, End, LetGo
<1>14. ASSUME NEW h \in Handlers, ChangeConfig(h) PROVE Goal
  BY <1>14 DEF ChangeConfig, Change
<1>15. ASSUME NEW h \in Handlers, ResetClient(h) PROVE Goal
  BY <1>15 DEF ResetClient, Reset
<1>16. ASSUME NEW r \in RoleNames, NEW role \in Role \cup {NoRole}, ChangeRole(r, role) PROVE Goal
  BY <1>16 DEF ChangeRole
<1>17. ASSUME NEW m \in wire, Apply(m) PROVE Goal
  BY <1>17 DEF Apply
<1>18. ASSUME Crash PROVE Goal
  BY <1>18 DEF Crash, Die
<1>19. ASSUME UNCHANGED vars PROVE Goal
  BY <1>19 DEF vars
<1>20. ASSUME NEW r \in late, KVArrive(r) PROVE Goal
  BY <1>20 DEF KVArrive, Arrive
<1> QED
  BY <1>1, <1>2, <1>3, <1>4, <1>5, <1>6, <1>7, <1>8, <1>9, <1>10,
     <1>11, <1>12, <1>13, <1>14, <1>15, <1>16, <1>17, <1>18, <1>19, <1>20
  DEF Next, Request, Step, Operator

-----------------------------------------------------------------------------
(* What a step does to the histories *)

(* A request remembers what there was when it began, until it ends. *)
LEMMA HistoryStep ==
  ASSUME Remember, NEW p \in Procs
  PROVE  /\ set'[p] = {} \/ (set'[p] = applied /\ pc[p] = "idle")
            \/ (set'[p] = set[p] /\ pc[p] # "idle")
         /\ over'[p] = {} \/ (over'[p] = Over /\ pc[p] = "idle")
            \/ (over'[p] = over[p] /\ pc[p] # "idle")
BY DEF Remember, During

(* What Keycloak applies next, no request has found set. *)
LEMMA OvertakenStep == OInv /\ Next /\ Remember => Overtaken'
<1> SUFFICES ASSUME OInv, Next, Remember PROVE Overtaken'
  OBVIOUS
<1>0. IInv /\ Overtaken /\ [Next]_vars
  BY DEF OInv
<1>1. UNCHANGED <<keycloak, applied>> \/ \E m \in wire : Apply(m)
  BY <1>0, KeycloakStep
<1>2. applied \subseteq applied'
  BY <1>1 DEF Apply
<1>3. ASSUME NEW p \in Procs PROVE set'[p] \subseteq applied'
  BY <1>0, <1>2, HistoryStep DEF Overtaken
<1>4. ASSUME NEW p \in Procs, pc'[p] = "sent", job'[p].pw \in applied'
      PROVE  keycloak'[AccountOf(conn[p], job[p].user)] \notin set'[p] /\ job'[p] = job[p] /\ conn'[p] = conn[p]
  <2>1. pc[p] = "sent" /\ job'[p] = job[p] /\ conn'[p] = conn[p]
    BY <1>0, <1>4, SentStep
  <2>2. set'[p] = {} \/ set'[p] = set[p]
    BY <2>1, HistoryStep
  <2>3. CASE job[p].pw \in applied /\ UNCHANGED keycloak
    BY <1>0, <2>1, <2>2, <2>3 DEF Overtaken, Target
  <2>4. ASSUME NEW m \in wire, Apply(m) PROVE keycloak'[Target(p)] \notin set'[p]
    <3>1. /\ keycloak' = [keycloak EXCEPT ![m.at] = m.pw]
          /\ applied' = applied \cup {m.pw}
      BY <2>4 DEF Apply
    <3>2. /\ m.at \in Account /\ m.pw \notin applied
          /\ keycloak \in [Account -> Nat]
          /\ m.pw = job[p].pw => m.at = Target(p)
      BY <1>0, <2>1 DEF IInv, TypeOK, WireInv, Message
    <3>3. CASE m.at = Target(p)
      <4>1. keycloak'[Target(p)] = m.pw
        BY <3>1, <3>2, <3>3
      <4> QED
        BY <1>0, <2>2, <3>2, <4>1 DEF Overtaken
    <3>4. CASE m.at # Target(p)
      <4>1. job[p].pw \in applied
        BY <1>4, <2>1, <3>1, <3>2, <3>4
      <4>2. Target(p) \in Account
        BY <1>0, <2>1, TargetType DEF IInv, JobInv
      <4>3. keycloak'[Target(p)] = keycloak[Target(p)]
        BY <3>1, <3>2, <3>4, <4>2
      <4> QED
        BY <1>0, <2>1, <2>2, <4>1, <4>3 DEF Overtaken
    <3> QED
      BY <3>3, <3>4
  <2> QED
    BY <1>1, <1>4, <2>1, <2>3, <2>4 DEF Target
<1> QED
  BY <1>3, <1>4 DEF Overtaken, Target

(* What was superseded stays so: no password is applied twice. *)
LEMMA SupersededStep == OInv /\ Next /\ Remember => SupersededInv'
<1> SUFFICES ASSUME OInv, Next, Remember, NEW s \in superseded'
             PROVE  s.at \in Account /\ s.pw \in applied' /\ keycloak'[s.at] # s.pw
  BY DEF SupersededInv
<1>0. IInv /\ Overtaken /\ SupersededInv
  BY DEF OInv
<1>1. CASE s \in superseded
  <2>1. s.at \in Account /\ s.pw \in applied /\ keycloak[s.at] # s.pw
    BY <1>0, <1>1 DEF SupersededInv
  <2>2. ASSUME NEW m \in wire, Apply(m) PROVE s.pw \in applied' /\ keycloak'[s.at] # s.pw
    BY <1>0, <2>1, <2>2 DEF Apply, IInv, TypeOK, WireInv, Message
  <2> QED
    BY <2>1, <2>2, KeycloakStep
<1>2. CASE s \notin superseded
  <2>1. PICK p \in Procs : ResetAnswered(p) /\ s.at = Target(p) /\ s.pw \in set[p] /\ s.at \in Account
    BY <1>2 DEF Remember
  <2>2. pc[p] = "sent" /\ job[p].pw \in applied /\ UNCHANGED <<keycloak, applied>>
    BY <2>1 DEF ResetAnswered, world
  <2> QED
    BY <1>0, <2>1, <2>2 DEF Overtaken
<1> QED
  BY <1>1, <1>2

(* A request that begins knows the others' passwords not to be over. *)
LEMMA OverStep == OInv /\ Next /\ Remember => OverInv'
<1> SUFFICES ASSUME OInv, Next, Remember PROVE OverInv'
  OBVIOUS
<1>0. IInv /\ OverInv /\ [Next]_vars
  BY DEF OInv
<1>1. ASSUME NEW p \in Procs, NEW q \in Procs
      PROVE  over'[p] \subseteq 1 .. nextPw' - 1 /\ job'[q].pw \notin over'[p]
  <2>1. over'[p] \subseteq 1 .. nextPw - 1 /\ job[q].pw \notin over'[p]
    BY <1>0, HistoryStep DEF OverInv, Over
  <2> QED
    BY <1>0, <2>1, PasswordStep
<1> QED
  BY <1>1 DEF OverInv

-----------------------------------------------------------------------------
(* The syncs *)

(* A sync is its request's from its first step to its last. *)
LEMMA SyncOwnStep ==
  ASSUME IInv, SyncOwn, [Next]_vars
  PROVE  SyncOwn'
<1>0. /\ pc \in [Procs -> PC] /\ job \in [Procs -> Job] /\ sync \in [Procs -> Sync]
  BY DEF IInv, TypeOK, KVTypeOK
<1> USE <1>0 DEF SyncOwn, Goto, cacheVars, lifetime, world, kvVars, NoJob, NoSync
<1>1. ASSUME NEW q \in Procs, NEW r \in RoleNames, BeginCreds(q, r) PROVE SyncOwn'
  BY <1>1 DEF BeginCreds, Begin
<1>2. ASSUME NEW q \in Procs, NEW u \in Users, NEW k \in Key, BeginRotate(q, u, k) PROVE SyncOwn'
  BY <1>2 DEF BeginRotate, Begin
<1>3. ASSUME NEW q \in Procs, NEW l \in leases, BeginRevoke(q, l) PROVE SyncOwn'
  BY <1>3 DEF BeginRevoke, Begin
<1>4. ASSUME NEW q \in Procs, GetClient(q) PROVE SyncOwn'
  BY <1>4 DEF GetClient, Get
<1>5. ASSUME NEW q \in Procs, SendReset(q) PROVE SyncOwn'
  BY <1>5 DEF SendReset
<1>6. ASSUME NEW q \in Procs, RequestRefused(q) PROVE SyncOwn'
  BY <1>6 DEF RequestRefused, End, LetGo, GetFails
<1>7. ASSUME NEW q \in Procs, ResetAnswered(q) PROVE SyncOwn'
  BY <1>7 DEF ResetAnswered, End, LetGo
<1>8. ASSUME NEW q \in Procs, SkipSync(q) PROVE SyncOwn'
  BY <1>8 DEF SkipSync
<1>9. ASSUME NEW q \in Procs, WarnNoToken(q) PROVE SyncOwn'
  <2>1. job' = [job EXCEPT ![q].kvSync = "warned"] /\ UNCHANGED sync
        /\ pc[q] = "kv" /\ pc' = [pc EXCEPT ![q] = "respond"]
    BY <1>9 DEF WarnNoToken
  <2> QED
    BY <2>1
<1>10. ASSUME NEW q \in Procs, BeginSync(q) PROVE SyncOwn'
  <2>1. /\ UNCHANGED job /\ pc' = [pc EXCEPT ![q] = "sync"]
        /\ sync'[q].pw = job[q].pw
        /\ \A x \in Procs \ {q} : sync'[x] = sync[x]
    BY <1>10 DEF BeginSync, SyncStart
  <2> QED
    BY <2>1
<1>11. ASSUME NEW q \in Procs, SyncStep(q) PROVE SyncOwn'
  <2>1. UNCHANGED <<pc, job>>
    BY <1>11 DEF SyncStep
  <2>2. UNCHANGED sync \/ \E to \in Phase :
          /\ sync' = [sync EXCEPT ![q].phase = to]
          /\ sync[q].phase # "none"
    BY <1>11 DEF SyncStep, KVStep, KVAnswer, RequestStrays, PatchSucceeds, PatchNotFound,
       PutSucceeds, RequestFails, Advance, Phase
  <2>3. \A x \in Procs : sync'[x].pw = sync[x].pw /\ (sync'[x].phase # "none" => sync[x].phase # "none")
    BY <2>2 DEF Sync
  <2> QED
    BY <2>1, <2>3
<1>12. ASSUME NEW q \in Procs, EndSync(q) PROVE SyncOwn'
  <2>1. /\ pc' = [pc EXCEPT ![q] = "respond"]
        /\ sync' = [sync EXCEPT ![q] = NoSync]
        /\ \A x \in Procs \ {q} : job'[x] = job[x]
    BY <1>12 DEF EndSync, SyncReturn
  <2> QED
    BY <2>1
<1>13. ASSUME NEW q \in Procs, Respond(q) PROVE SyncOwn'
  BY <1>13 DEF Respond, End, LetGo
<1>14. ASSUME NEW h \in Handlers, ChangeConfig(h) PROVE SyncOwn'
  BY <1>14 DEF ChangeConfig, Change
<1>15. ASSUME NEW h \in Handlers, ResetClient(h) PROVE SyncOwn'
  BY <1>15 DEF ResetClient, Reset
<1>16. ASSUME NEW r \in RoleNames, NEW role \in Role \cup {NoRole}, ChangeRole(r, role) PROVE SyncOwn'
  BY <1>16 DEF ChangeRole
<1>17. ASSUME NEW m \in wire, Apply(m) PROVE SyncOwn'
  BY <1>17 DEF Apply
<1>18. ASSUME Crash PROVE SyncOwn'
  BY <1>18 DEF Crash, Die
<1>19. ASSUME UNCHANGED vars PROVE SyncOwn'
  BY <1>19 DEF vars
<1>20. ASSUME NEW r \in late, KVArrive(r) PROVE SyncOwn'
  BY <1>20 DEF KVArrive, Arrive
<1> QED
  BY <1>1, <1>2, <1>3, <1>4, <1>5, <1>6, <1>7, <1>8, <1>9, <1>10,
     <1>11, <1>12, <1>13, <1>14, <1>15, <1>16, <1>17, <1>18, <1>19, <1>20
  DEF Next, Request, Step, Operator

(* What is stored in KV comes of a sync under way, or of a copy of one. *)
LEMMA KVWriteStep ==
  ASSUME IInv, SyncOwn, [Next]_vars
  PROVE  /\ late \subseteq late'
         /\ \A s \in Secrets, k \in Keys : \A w :
              Holds(s, k, w)' =>
                \/ Holds(s, k, w) \/ Strayed(w)
                \/ \E p \in Procs : w = job[p].pw
<1> DEFINE Came == /\ late \subseteq late'
                   /\ \A s \in Secrets, k \in Keys : \A w :
                        Holds(s, k, w)' =>
                          \/ Holds(s, k, w) \/ Strayed(w)
                          \/ \E p \in Procs : w = job[p].pw
<1>0. /\ kv \in [Secrets -> Value \cup {NoSecret}]
      /\ applied \subseteq Nat /\ SyncInv
  BY DEF IInv, TypeOK, KVTypeOK, Value, Password
<1>1. ASSUME UNCHANGED kv, late \subseteq late' PROVE Came
  BY <1>1 DEF Holds, HasKey
<1>2. ASSUME NEW r, IsApplied(r), UNCHANGED late,
             (Exists(r) /\ kv' = Merged(r)) \/ kv' = Created(r),
             Strayed(r.pw) \/ \E p \in Procs : r.pw = job[p].pw
      PROVE  Came
  <2>1. r.secret \in Secrets /\ r.key \in Keys /\ r.pw \in Nat
    BY <1>0, <1>2 DEF IsApplied
  <2>2. \A s \in Secrets, k \in Keys : \A w :
          Holds(s, k, w)' => Holds(s, k, w) \/ w = r.pw
    BY <1>0, <1>2, <2>1, WriteEffect
  <2> QED
    BY <1>2, <2>2
<1>3. ASSUME NEW p \in Procs, PatchSucceeds(p) \/ PutSucceeds(p) PROVE Came
  <2>1. /\ sync[p].phase # "none" /\ UNCHANGED late
        /\ (Exists(sync[p]) /\ kv' = Merged(sync[p])) \/ kv' = Created(sync[p])
    BY <1>3 DEF PatchSucceeds, PutSucceeds, Advance
  <2>2. IsApplied(sync[p]) /\ sync[p].pw = job[p].pw
    BY <1>0, <2>1 DEF SyncInv, SyncOwn
  <2> QED
    BY <1>2, <2>1, <2>2
<1>4. ASSUME NEW p \in Procs, PatchNotFound(p) \/ RequestFails(p) \/ RequestStrays(p) PROVE Came
  <2>1. UNCHANGED kv /\ late \subseteq late'
    BY <1>4 DEF PatchNotFound, RequestFails, RequestStrays, Advance
  <2> QED
    BY <1>1, <2>1
<1>5. ASSUME NEW r \in late, KVArrive(r) PROVE Came
  <2>1. IsApplied(r) /\ Strayed(r.pw)
    BY <1>0 DEF SyncInv, Strayed
  <2>2. UNCHANGED late /\ ((Exists(r) /\ kv' = Merged(r)) \/ kv' = Created(r))
    BY <1>5 DEF KVArrive, Arrive
  <2> QED
    BY <1>2, <2>1, <2>2
<1>6. ASSUME UNCHANGED <<kv, late>> PROVE Came
  BY <1>1, <1>6
<1> QED
  BY <1>3, <1>4, <1>5, <1>6
  DEF Next, Request, Step, Operator, kvVars, SyncStep, KVStep, KVAnswer, BeginCreds, BeginRotate,
      BeginRevoke, GetClient, SendReset, RequestRefused, ResetAnswered, SkipSync, WarnNoToken,
      BeginSync, SyncStart, EndSync, SyncReturn, Respond, ChangeConfig, ResetClient, ChangeRole,
      Apply, Crash, vars

(* A sync that is now done was done before, or has just written its own     *)
(* password.                                                                *)
LEMMA DoneStep ==
  ASSUME IInv, [Next]_vars, NEW p \in Procs, sync'[p].phase = "done"
  PROVE  \/ sync'[p] = sync[p]
         \/ /\ sync[p].phase # "none"
            /\ sync'[p].secret = sync[p].secret /\ sync'[p].key = sync[p].key
            /\ kv'[sync[p].secret][sync[p].key] = sync[p].pw
<1>0. /\ sync \in [Procs -> Sync] /\ SyncInv /\ applied \subseteq Nat
      /\ kv \in [Secrets -> Value \cup {NoSecret}]
  BY DEF IInv, TypeOK, KVTypeOK, Value, Password
<1>1. ASSUME NEW q \in Procs, PatchSucceeds(q) \/ PutSucceeds(q), q = p
      PROVE  /\ sync[p].phase # "none"
             /\ sync'[p].secret = sync[p].secret /\ sync'[p].key = sync[p].key
             /\ kv'[sync[p].secret][sync[p].key] = sync[p].pw
  <2>1. /\ sync[p].phase # "none"
        /\ sync' = [sync EXCEPT ![p].phase = "done"]
        /\ (Exists(sync[p]) /\ kv' = Merged(sync[p])) \/ kv' = Created(sync[p])
    BY <1>1 DEF PatchSucceeds, PutSucceeds, Advance
  <2>2. sync[p].secret \in Secrets /\ sync[p].key \in Keys /\ sync[p].pw \in Nat
    BY <1>0, <2>1 DEF SyncInv, IsApplied
  <2>3. sync'[p].secret = sync[p].secret /\ sync'[p].key = sync[p].key
    BY <1>0, <2>1 DEF Sync
  <2>4. kv'[sync[p].secret][sync[p].key] = sync[p].pw
    BY <1>0, <2>1, <2>2, WriteEffect
  <2> QED
    BY <2>1, <2>3, <2>4
<1>2. ASSUME NEW q \in Procs, SyncStep(q), sync'[p] # sync[p]
      PROVE  q = p /\ (PatchSucceeds(q) \/ PutSucceeds(q))
  BY <1>0, <1>2 DEF SyncStep, KVStep, KVAnswer, RequestStrays, PatchSucceeds, PatchNotFound,
     PutSucceeds, RequestFails, Advance, Sync
<1>3. ASSUME NEW q \in Procs, BeginSync(q) PROVE sync'[p] = sync[p]
  <2>1. /\ \A x \in Procs \ {q} : sync'[x] = sync[x]
        /\ sync'[q].phase = "patch"
    BY <1>0, <1>3 DEF BeginSync, SyncStart
  <2> QED
    BY <2>1
<1>4. ASSUME NEW q \in Procs, EndSync(q) PROVE sync'[p] = sync[p]
  BY <1>0, <1>4 DEF EndSync, SyncReturn, NoSync
<1>5. ASSUME Crash PROVE FALSE
  BY <1>5 DEF Crash, NoSync
<1>6. ASSUME UNCHANGED sync PROVE sync'[p] = sync[p]
  BY <1>6
<1> QED
  BY <1>1, <1>2, <1>3, <1>4, <1>5, <1>6
  DEF Next, Request, Step, Operator, kvVars, BeginCreds, BeginRotate,
      BeginRevoke, GetClient, SendReset, RequestRefused, ResetAnswered, SkipSync, WarnNoToken,
      Respond, ChangeConfig, ResetClient, ChangeRole, Apply, KVArrive, Arrive, vars

(* A sync that is done has the last word over what was over before it. *)
LEMMA DoneInvStep == OInv /\ Next /\ Remember => DoneInv'
<1> SUFFICES ASSUME OInv, Next, Remember,
                    NEW p \in Procs, sync'[p].phase = "done",
                    NEW w \in over'[p], Holds(sync[p].secret, sync[p].key, w)'
             PROVE  Strayed(w)'
  BY DEF DoneInv
<1>0. IInv /\ SyncInv /\ OverInv /\ SyncOwn /\ DoneInv /\ [Next]_vars
  BY DEF OInv, IInv
<1>1. late \subseteq late' /\ (Strayed(w) => Strayed(w)')
  BY <1>0, KVWriteStep DEF Strayed
<1>2. \/ sync'[p] = sync[p]
      \/ /\ sync[p].phase # "none"
         /\ sync'[p].secret = sync[p].secret /\ sync'[p].key = sync[p].key
         /\ kv'[sync[p].secret][sync[p].key] = sync[p].pw
  BY <1>0, DoneStep
<1>3. sync[p].phase # "none" /\ pc[p] = "sync" /\ sync[p].pw = job[p].pw
  BY <1>0, <1>2 DEF SyncOwn
<1>4. w \in over[p] /\ \A q \in Procs : job[q].pw # w
  BY <1>0, <1>3, HistoryStep DEF OverInv
<1>5. CASE sync'[p] = sync[p]
  <2>1. sync[p].secret \in Secrets /\ sync[p].key \in Keys
    BY <1>0, <1>3 DEF SyncInv, IsApplied
  <2>2. Holds(sync[p].secret, sync[p].key, w) \/ Strayed(w)
    <3> DEFINE s == sync[p].secret
               k == sync[p].key
    <3>1. kv'[s] # NoSecret /\ kv'[s][k] # NoValue /\ kv'[s][k] = w
      BY <1>5 DEF Holds, HasKey
    <3>2. PICK x \in Secrets, y \in Keys : x = s /\ y = k
      BY <2>1
    <3>3. Holds(x, y, w)'
      BY <3>1, <3>2 DEF Holds, HasKey
    <3> QED
      BY <1>0, <1>4, <3>2, <3>3, KVWriteStep
  <2> QED
    BY <1>0, <1>1, <1>4, <1>5, <2>2 DEF DoneInv
<1>6. CASE kv'[sync'[p].secret][sync'[p].key] = job[p].pw
  BY <1>4, <1>6 DEF Holds
<1> QED
  BY <1>2, <1>3, <1>5, <1>6

(* What a reported sync put behind it stays behind. *)
LEMMA SyncedStep == OInv /\ Next /\ Remember => SyncedInv'
<1> SUFFICES ASSUME OInv, Next, Remember, NEW s \in synced'
             PROVE  /\ s.secret \in Secrets /\ s.key \in Keys /\ s.pw \in 1 .. nextPw' - 1
                    /\ \A p \in Procs : job'[p].pw # s.pw
                    /\ Holds(s.secret, s.key, s.pw)' => Strayed(s.pw)'
  BY DEF SyncedInv
<1>0. IInv /\ OverInv /\ SyncOwn /\ DoneInv /\ SyncedInv /\ [Next]_vars
  BY DEF OInv
<1>1. Strayed(s.pw) => Strayed(s.pw)'
  BY <1>0, KVWriteStep DEF Strayed
<1>2. /\ s.secret \in Secrets /\ s.key \in Keys /\ s.pw \in 1 .. nextPw - 1
      /\ \A p \in Procs : job[p].pw # s.pw
      /\ Holds(s.secret, s.key, s.pw) => Strayed(s.pw)
  <2>1. CASE s \in synced
    BY <1>0, <2>1 DEF SyncedInv
  <2>2. CASE s \notin synced
    <3>1. PICK p \in Procs :
            /\ SyncedWell(p) /\ s \in [secret : Secrets, key : Keys, pw : Password]
            /\ s.secret = sync[p].secret /\ s.key = sync[p].key /\ s.pw \in over[p]
      BY <2>2 DEF Remember
    <3> QED
      BY <1>0, <3>1 DEF SyncedWell, OverInv, DoneInv
  <2> QED
    BY <2>1, <2>2
<1>3. s.pw \in 1 .. nextPw' - 1 /\ \A p \in Procs : job'[p].pw # s.pw
  BY <1>0, <1>2, PasswordStep
<1>4. Holds(s.secret, s.key, s.pw)' => Holds(s.secret, s.key, s.pw) \/ Strayed(s.pw)
  BY <1>0, <1>2, KVWriteStep
<1> QED
  BY <1>1, <1>2, <1>3, <1>4

-----------------------------------------------------------------------------
(* No request has begun, and nothing is over. *)
LEMMA OrderInitInv == OrderInit => OInv
<1> SUFFICES ASSUME OrderInit PROVE OInv
  OBVIOUS
<1>1. IInv
  BY InitInv DEF OrderInit
<1>2. Overtaken /\ SupersededInv /\ OverInv /\ SyncedInv
  BY DEF OrderInit, Overtaken, SupersededInv, OverInv, SyncedInv
<1>3. SyncOwn /\ DoneInv
  BY DEF OrderInit, Init, KVInit, NoSync, SyncOwn, DoneInv
<1> QED
  BY <1>1, <1>2, <1>3 DEF OInv

LEMMA OrderNextStep == OInv /\ [Next /\ Remember]_<<vars, histories>> => OInv'
<1> SUFFICES ASSUME OInv, [Next /\ Remember]_<<vars, histories>> PROVE OInv'
  OBVIOUS
<1>1. IInv'
  BY InvStep DEF OInv
<1>2. CASE Next /\ Remember
  BY <1>1, <1>2, OvertakenStep, SupersededStep, OverStep, SyncOwnStep, DoneInvStep,
     SyncedStep DEF OInv
<1>3. CASE UNCHANGED <<vars, histories>>
  BY <1>1, <1>3 DEF OInv, vars, histories, Overtaken, Target, SupersededInv, OverInv,
     SyncOwn, DoneInv, SyncedInv, Holds, HasKey, Strayed
<1> QED
  BY <1>2, <1>3

LEMMA OrderInvariance == OrderSpec => []OInv
BY OrderInitInv, OrderNextStep, PTL DEF OrderSpec

-----------------------------------------------------------------------------
(* A rotation or a revocation that is answered ends every password set in   *)
(* the account before it began, for good, those that were lost included.    *)
(* (path_credentials.go:58-67, 161-166; path_users.go:132-149)              *)
THEOREM AnswersSupersede == OrderSpec => []AnsweredSupersedes
<1>1. OInv => AnsweredSupersedes
  BY DEF OInv, SupersededInv, AnsweredSupersedes
<1> QED
  BY <1>1, OrderInvariance, PTL

(* KV does not fall back behind a sync that was reported done, to the       *)
(* password of any request over before its own began, strays excepted.      *)
(* (path_credentials.go:91-119, path_users.go:151-180, kv_sync.go:51-69)    *)
THEOREM KVKeepsUp == OrderSpec => []KVFollows
<1>1. OInv => KVFollows
  BY DEF OInv, SyncedInv, KVFollows, Holds, Strayed
<1> QED
  BY <1>1, OrderInvariance, PTL

=============================================================================
