------------------------------ MODULE KVProofs ------------------------------
(***************************************************************************)
(* Proofs about KVSync and KVOrder, for any goroutines, secrets and keys,  *)
(* any number of passwords and any number of stray requests.               *)
(***************************************************************************)
EXTENDS KVOrder, KVLemmas

Reported == {r.pw : r \in reported}

(* A call, and a request, in progress: it has a place to write to, and it   *)
(* has gone on to the PUT only if the secret did not exist when it began.   *)
Proper(r) ==
  /\ r.secret \in Secrets /\ r.key \in Keys
  /\ r.pw \in 1 .. last
  /\ r.existed => Exists(r)
  /\ r.phase = "put" => ~r.existed

OrderTypeOK ==
  /\ KVTypeOK
  /\ last \in Nat
  /\ over \in [Procs -> SUBSET Nat]

CallInv ==
  /\ \A p \in Procs : sync[p].phase # "none" => Proper(sync[p])
  /\ \A r \in late : Proper(r)

(* Every call has a password of its own, and one that was reported is in no *)
(* call any more.                                                           *)
OwnPassword ==
  /\ \A p, q \in Procs :
       p # q /\ sync[p].phase # "none" /\ sync[q].phase # "none"
       => sync[p].pw # sync[q].pw
  /\ \A p \in Procs : sync[p].phase # "none" => sync[p].pw \notin Reported
  /\ Reported \subseteq 1 .. last

OverInv ==
  /\ \A p \in Procs : over[p] \subseteq Reported
  /\ \A r \in reported :
       r.over \subseteq Reported /\ r.secret \in Secrets /\ r.key \in Keys

(* A call that is done, but not yet reported, already has the last word.    *)
DoneInv ==
  \A p \in Procs : sync[p].phase = "done" =>
    \A w \in over[p] : Holds(sync[p].secret, sync[p].key, w) => Strayed(w)

IInv == OrderTypeOK /\ CallInv /\ OwnPassword /\ OverInv /\ DoneInv /\ KVMovesOn

-----------------------------------------------------------------------------
(* A secret that exists goes on existing, so that a call keeps its place. *)
LEMMA ProperKept ==
  ASSUME NEW r, Proper(r), last \in Nat, last' \in Nat, last <= last',
         \A s \in Secrets : kv[s] # NoSecret => kv'[s] # NoSecret
  PROVE  Proper(r)'
BY DEF Proper, Exists

-----------------------------------------------------------------------------
(* Every action keeps the invariant: a call begins *)
LEMMA StartStep ==
  ASSUME IInv, NEW p \in Procs, NEW s \in Secrets, NEW k \in Keys, Start(p, s, k)
  PROVE  IInv'
<1> DEFINE new == [phase |-> "patch", secret |-> s, key |-> k, pw |-> last + 1,
                   existed |-> kv[s] # NoSecret]
           o == {r.pw : r \in {r \in reported : r.secret = s /\ r.key = k}}
<1>0. OrderTypeOK /\ CallInv /\ OwnPassword /\ OverInv /\ DoneInv /\ KVMovesOn
  BY DEF IInv
<1>1. /\ last' = last + 1 /\ last \in Nat
      /\ sync[p].phase = "none"
      /\ sync' = [sync EXCEPT ![p] = new]
      /\ over' = [over EXCEPT ![p] = o]
      /\ UNCHANGED <<kv, late, reported>>
  BY <1>0 DEF Start, SyncStart, OrderTypeOK
<1>2. PICK c \in Sync :
        /\ c.phase = "patch" /\ c.pw = last + 1
        /\ c.secret = s /\ c.key = k
        /\ c.existed => kv[s] # NoSecret
        /\ c = new
  <2>1. new \in Sync
    BY <1>1 DEF Sync, Phase
  <2>2. new.existed => kv[s] # NoSecret
    OBVIOUS
  <2> QED
    BY <2>1, <2>2
<1>3. o \subseteq Reported
  BY DEF Reported
<1> HIDE DEF new, o
<1>4. /\ sync'[p] = c /\ over'[p] = o
      /\ \A q \in Procs \ {p} : sync'[q] = sync[q] /\ over'[q] = over[q]
  BY <1>0, <1>1, <1>2 DEF OrderTypeOK, KVTypeOK
<1>5. Reported' = Reported
  BY <1>1 DEF Reported
<1>6. OrderTypeOK'
  BY <1>0, <1>1, <1>2, <1>3 DEF OrderTypeOK, KVTypeOK, OwnPassword
<1>7. CallInv'
  <2>1. c.pw \in 1 .. last'
    BY <1>1, <1>2
  <2>2. ASSUME c.existed PROVE Exists(c)'
    <3>1. kv'[c.secret] = kv[s]
      BY <1>1, <1>2
    <3> QED
      BY <1>2, <2>2, <3>1 DEF Exists
  <2>3. Proper(c)'
    BY <1>2, <2>1, <2>2 DEF Proper
  <2> QED
    BY <1>0, <1>1, <1>4, <2>3, ProperKept DEF CallInv
<1>8. OwnPassword'
  BY <1>0, <1>1, <1>2, <1>4, <1>5 DEF OwnPassword, CallInv, Proper
<1>9. OverInv'
  BY <1>0, <1>1, <1>3, <1>4, <1>5 DEF OverInv
<1>10. DoneInv'
  BY <1>0, <1>1, <1>2, <1>4 DEF DoneInv, Holds, HasKey, Strayed
<1>11. KVMovesOn'
  BY <1>0, <1>1 DEF KVMovesOn, HasKey
<1> QED
  BY <1>6, <1>7, <1>8, <1>9, <1>10, <1>11 DEF IInv

(* ... a request goes astray *)
LEMMA StrayStep ==
  ASSUME IInv, NEW p \in Procs, RequestStrays(p), UNCHANGED <<last, over, reported>>
  PROVE  IInv'
<1>0. OrderTypeOK /\ CallInv /\ OwnPassword /\ OverInv /\ DoneInv /\ KVMovesOn
  BY DEF IInv
<1>1. /\ sync[p].phase # "none" /\ late' = late \cup {sync[p]} /\ UNCHANGED <<kv, sync>>
  BY DEF RequestStrays
<1>2. Reported' = Reported
  BY DEF Reported
<1>3. OrderTypeOK'
  BY <1>0, <1>1 DEF OrderTypeOK, KVTypeOK
<1>4. CallInv'
  BY <1>0, <1>1 DEF CallInv, Proper, Exists
<1>5. OwnPassword' /\ OverInv'
  BY <1>0, <1>1, <1>2 DEF OwnPassword, OverInv
<1>6. DoneInv' /\ KVMovesOn'
  BY <1>0, <1>1 DEF DoneInv, KVMovesOn, Holds, HasKey, Strayed
<1> QED
  BY <1>3, <1>4, <1>5, <1>6 DEF IInv

(* ... a call goes on without a write, to the PUT or to a warning *)
LEMMA MoveStep ==
  ASSUME IInv, NEW p \in Procs, PatchNotFound(p) \/ RequestFails(p),
         UNCHANGED <<last, over, reported>>
  PROVE  IInv'
<1>0. OrderTypeOK /\ CallInv /\ OwnPassword /\ OverInv /\ DoneInv /\ KVMovesOn
  BY DEF IInv
<1>1. PICK f \in {"put", "failed"} :
        /\ sync[p].phase \in {"patch", "put"}
        /\ f = "put" => ~Exists(sync[p])
        /\ sync' = [sync EXCEPT ![p].phase = f]
        /\ UNCHANGED <<kv, late>>
  BY DEF PatchNotFound, RequestFails, Advance
<1>2. /\ sync'[p] = [sync[p] EXCEPT !.phase = f] /\ sync[p] \in Sync
      /\ \A q \in Procs \ {p} : sync'[q] = sync[q]
  BY <1>0, <1>1 DEF OrderTypeOK, KVTypeOK
<1>3. /\ sync'[p].phase = f /\ sync'[p].secret = sync[p].secret
      /\ sync'[p].key = sync[p].key /\ sync'[p].pw = sync[p].pw
      /\ sync'[p].existed = sync[p].existed /\ sync'[p] \in Sync
  BY <1>2 DEF Sync, Phase
<1>4. Reported' = Reported
  BY DEF Reported
<1>5. OrderTypeOK'
  BY <1>0, <1>1, <1>2, <1>3 DEF OrderTypeOK, KVTypeOK
<1>6. CallInv'
  BY <1>0, <1>1, <1>2, <1>3 DEF CallInv, Proper, Exists
<1>7. OwnPassword' /\ OverInv'
  BY <1>0, <1>1, <1>2, <1>3, <1>4 DEF OwnPassword, OverInv
<1>8. DoneInv' /\ KVMovesOn'
  BY <1>0, <1>1, <1>2, <1>3 DEF DoneInv, KVMovesOn, Holds, HasKey, Strayed
<1> QED
  BY <1>5, <1>6, <1>7, <1>8 DEF IInv

(* ... a request is answered, having been written *)
LEMMA WriteStep ==
  ASSUME IInv, NEW p \in Procs, PatchSucceeds(p) \/ PutSucceeds(p),
         UNCHANGED <<last, over, reported>>
  PROVE  IInv'
<1> DEFINE r == sync[p]
<1>0. OrderTypeOK /\ CallInv /\ OwnPassword /\ OverInv /\ DoneInv /\ KVMovesOn
  BY DEF IInv
<1>1. /\ r.phase \in {"patch", "put"}
      /\ (Exists(r) /\ kv' = Merged(r)) \/ kv' = Created(r)
      /\ sync' = [sync EXCEPT ![p].phase = "done"]
      /\ UNCHANGED late
  BY DEF PatchSucceeds, PutSucceeds, Advance
<1>2. /\ sync'[p] = [r EXCEPT !.phase = "done"] /\ r \in Sync
      /\ \A q \in Procs \ {p} : sync'[q] = sync[q]
  BY <1>0, <1>1 DEF OrderTypeOK, KVTypeOK
<1>3. /\ sync'[p].phase = "done" /\ sync'[p].secret = r.secret
      /\ sync'[p].key = r.key /\ sync'[p].pw = r.pw
      /\ sync'[p].existed = r.existed /\ sync'[p] \in Sync
  BY <1>2 DEF Sync, Phase
<1>4. /\ r.secret \in Secrets /\ r.key \in Keys /\ r.pw \in Nat
      /\ r.pw \notin Reported /\ Proper(r)
  BY <1>0, <1>1 DEF CallInv, Proper, OwnPassword
<1>5. kv \in [Secrets -> Value \cup {NoSecret}]
  BY <1>0 DEF OrderTypeOK, KVTypeOK, Value
<1> HIDE DEF r
<1>6. /\ kv' \in [Secrets -> Value \cup {NoSecret}]
      /\ \A s \in Secrets : kv[s] # NoSecret => kv'[s] # NoSecret
      /\ kv'[r.secret] # NoSecret /\ kv'[r.secret][r.key] = r.pw
      /\ \A s \in Secrets, k \in Keys : \A w :
           Holds(s, k, w)' => Holds(s, k, w) \/ (s = r.secret /\ k = r.key /\ w = r.pw)
  BY <1>1, <1>4, <1>5, WriteEffect
<1>7. Reported' = Reported
  BY DEF Reported
<1>8. OrderTypeOK'
  BY <1>0, <1>1, <1>2, <1>3, <1>6 DEF OrderTypeOK, KVTypeOK, Value
<1>9. CallInv'
  <2>1. Proper(sync[p])'
    BY <1>3, <1>4, <1>6 DEF Proper, Exists
  <2> QED
    BY <1>0, <1>1, <1>2, <1>6, <2>1, ProperKept DEF CallInv, OrderTypeOK
<1>10. OwnPassword' /\ OverInv'
  BY <1>0, <1>1, <1>2, <1>3, <1>7 DEF OwnPassword, OverInv, r
<1>11. ASSUME NEW s \in Secrets, NEW k \in Keys, NEW w \in Reported, Holds(s, k, w)'
       PROVE  Holds(s, k, w)
  BY <1>4, <1>6, <1>11
<1>12. DoneInv'
  <2> SUFFICES ASSUME NEW q \in Procs, sync'[q].phase = "done", NEW w \in over[q],
                      Holds(sync[q].secret, sync[q].key, w)'
               PROVE  Strayed(w)
    BY <1>1, <1>2, <1>3 DEF DoneInv, Strayed, r, Holds, HasKey
  <2>1. w \in Reported
    BY <1>0 DEF OverInv
  <2>2. CASE q = p
    BY <1>3, <1>4, <1>6, <2>1, <2>2 DEF Holds, r
  <2>3. CASE q # p
    BY <1>0, <1>2, <1>11, <2>1, <2>3 DEF DoneInv, CallInv, Proper
  <2> QED
    BY <2>2, <2>3
<1>13. KVMovesOn'
  BY <1>0, <1>1, <1>11 DEF KVMovesOn, Holds, OverInv
<1> QED
  BY <1>8, <1>9, <1>10, <1>12, <1>13 DEF IInv

(* ... a call returns *)
LEMMA FinishStep ==
  ASSUME IInv, NEW p \in Procs, Finish(p)
  PROVE  IInv'
<1> DEFINE e == [secret |-> sync[p].secret, key |-> sync[p].key,
                 pw |-> sync[p].pw, over |-> over[p]]
<1>0. OrderTypeOK /\ CallInv /\ OwnPassword /\ OverInv /\ DoneInv /\ KVMovesOn
  BY DEF IInv
<1>1. /\ sync[p].phase \in {"done", "failed"}
      /\ sync' = [sync EXCEPT ![p] = NoSync]
      /\ over' = [over EXCEPT ![p] = {}]
      /\ reported' = IF sync[p].phase = "done" THEN reported \cup {e} ELSE reported
      /\ UNCHANGED <<kv, late, last>>
  BY DEF Finish, SyncReturn
<1>2. /\ e.secret = sync[p].secret /\ e.key = sync[p].key
      /\ e.pw = sync[p].pw /\ e.over = over[p]
  OBVIOUS
<1> HIDE DEF e
<1>3. /\ sync'[p] = NoSync /\ over'[p] = {} /\ NoSync.phase = "none"
      /\ \A q \in Procs \ {p} : sync'[q] = sync[q] /\ over'[q] = over[q]
  BY <1>0, <1>1 DEF OrderTypeOK, KVTypeOK, NoSync
<1>4. Reported \subseteq Reported' /\ Reported' \subseteq Reported \cup {sync[p].pw}
  BY <1>1, <1>2 DEF Reported
<1>5. /\ e.secret \in Secrets /\ e.key \in Keys /\ e.pw \in 1 .. last
      /\ e.over \subseteq Reported
  BY <1>0, <1>1, <1>2 DEF CallInv, Proper, OverInv
<1>6. OrderTypeOK'
  <2>1. NoSync \in Sync
    BY KVAssumption DEF NoSync, Sync, Phase
  <2> QED
    BY <1>0, <1>1, <2>1 DEF OrderTypeOK, KVTypeOK
<1>7. CallInv'
  BY <1>0, <1>1, <1>3 DEF CallInv, Proper, Exists
<1>8. OwnPassword'
  <2>1. ASSUME NEW q \in Procs, sync'[q].phase # "none"
        PROVE  q # p /\ sync'[q] = sync[q] /\ sync[q].pw # sync[p].pw
    BY <1>0, <1>1, <1>3, <2>1 DEF OwnPassword
  <2>2. Reported' \subseteq 1 .. last'
    BY <1>0, <1>1, <1>2, <1>4, <1>5 DEF OwnPassword
  <2> QED
    BY <1>0, <1>4, <2>1, <2>2 DEF OwnPassword
<1>9. OverInv'
  BY <1>0, <1>1, <1>3, <1>4, <1>5 DEF OverInv
<1>10. DoneInv'
  BY <1>0, <1>1, <1>3 DEF DoneInv, Holds, HasKey, Strayed
<1>11. KVMovesOn'
  <2>1. sync[p].phase = "done" =>
          \A w \in e.over : Holds(e.secret, e.key, w) => Strayed(w)
    BY <1>0, <1>2 DEF DoneInv
  <2> QED
    BY <1>0, <1>1, <2>1 DEF KVMovesOn, Holds, HasKey, Strayed
<1> QED
  BY <1>6, <1>7, <1>8, <1>9, <1>10, <1>11 DEF IInv

(* ... and a stray request arrives, which excuses what it brings back. *)
LEMMA ArriveStep ==
  ASSUME IInv, NEW r \in late, ArriveLate(r)
  PROVE  IInv'
<1>0. OrderTypeOK /\ CallInv /\ OwnPassword /\ OverInv /\ DoneInv /\ KVMovesOn
  BY DEF IInv
<1>1. /\ (Exists(r) /\ kv' = Merged(r)) \/ kv' = Created(r)
      /\ UNCHANGED <<sync, late, last, over, reported>>
  BY DEF ArriveLate, Arrive
<1>2. r.secret \in Secrets /\ r.key \in Keys /\ r.pw \in Nat
  BY <1>0 DEF CallInv, Proper
<1>3. kv \in [Secrets -> Value \cup {NoSecret}]
  BY <1>0 DEF OrderTypeOK, KVTypeOK, Value
<1>4. /\ kv' \in [Secrets -> Value \cup {NoSecret}]
      /\ \A s \in Secrets : kv[s] # NoSecret => kv'[s] # NoSecret
      /\ \A s \in Secrets, k \in Keys : \A w :
           Holds(s, k, w)' => Holds(s, k, w) \/ w = r.pw
  BY <1>1, <1>2, <1>3, WriteEffect
<1>5. Strayed(r.pw)
  BY DEF Strayed
<1>6. Reported' = Reported /\ \A w : Strayed(w)' <=> Strayed(w)
  BY <1>1 DEF Reported, Strayed
<1>7. OrderTypeOK'
  BY <1>0, <1>1, <1>4 DEF OrderTypeOK, KVTypeOK, Value
<1>8. CallInv'
  BY <1>0, <1>1, <1>4, ProperKept DEF CallInv, OrderTypeOK
<1>9. OwnPassword' /\ OverInv'
  BY <1>0, <1>1, <1>6 DEF OwnPassword, OverInv
<1>10. DoneInv'
  <2> SUFFICES ASSUME NEW q \in Procs, sync[q].phase = "done", NEW w \in over[q],
                      Holds(sync[q].secret, sync[q].key, w)'
               PROVE  Strayed(w)
    BY <1>1, <1>6 DEF DoneInv, Holds, HasKey
  <2>1. sync[q].secret \in Secrets /\ sync[q].key \in Keys
    BY <1>0 DEF CallInv, Proper
  <2>2. Holds(sync[q].secret, sync[q].key, w) \/ w = r.pw
    BY <1>1, <1>4, <2>1 DEF Holds, HasKey
  <2> QED
    BY <1>0, <1>5, <2>2 DEF DoneInv
<1>11. KVMovesOn'
  <2> SUFFICES ASSUME NEW e \in reported, NEW w \in e.over, Holds(e.secret, e.key, w)'
               PROVE  Strayed(w)
    BY <1>1 DEF KVMovesOn, Holds, HasKey, Strayed
  <2>1. Holds(e.secret, e.key, w) \/ w = r.pw
    BY <1>0, <1>4 DEF OverInv
  <2> QED
    BY <1>0, <1>5, <2>1 DEF KVMovesOn, Holds, Strayed
<1> QED
  BY <1>7, <1>8, <1>9, <1>10, <1>11 DEF IInv

-----------------------------------------------------------------------------
(* Nothing is known, under way or reported at the start. *)
LEMMA InitInv == OrderInit => IInv
<1> SUFFICES ASSUME OrderInit PROVE IInv
  OBVIOUS
<1>1. /\ kv \in [Secrets -> [Keys -> Nat] \cup {NoSecret}]
      /\ sync = [p \in Procs |-> NoSync] /\ late = {}
      /\ last = 0 /\ over = [p \in Procs |-> {}] /\ reported = {}
  BY DEF OrderInit, KVInit, NoValue
<1>2. NoSync \in Sync /\ NoSync.phase = "none"
  BY KVAssumption DEF NoSync, Sync, Phase
<1>3. OrderTypeOK
  BY <1>1, <1>2 DEF OrderTypeOK, KVTypeOK
<1>4. CallInv /\ OwnPassword /\ OverInv /\ DoneInv /\ KVMovesOn
  BY <1>1, <1>2 DEF CallInv, OwnPassword, OverInv, DoneInv, KVMovesOn, Reported
<1> QED
  BY <1>3, <1>4 DEF IInv

LEMMA NextStep == IInv /\ [OrderNext]_orderVars => IInv'
<1> SUFFICES ASSUME IInv, [OrderNext]_orderVars PROVE IInv'
  OBVIOUS
<1>1. ASSUME NEW p \in Procs, Work(p) PROVE IInv'
  BY <1>1, StrayStep, MoveStep, WriteStep DEF Work, KVStep, KVAnswer
<1>2. ASSUME NEW p \in Procs, NEW s \in Secrets, NEW k \in Keys, Start(p, s, k)
      PROVE  IInv'
  BY <1>2, StartStep
<1>3. ASSUME NEW p \in Procs, Finish(p) PROVE IInv'
  BY <1>3, FinishStep
<1>4. ASSUME NEW r \in late, ArriveLate(r) PROVE IInv'
  BY <1>4, ArriveStep
<1>5. ASSUME UNCHANGED orderVars PROVE IInv'
  BY <1>5 DEF orderVars, IInv, OrderTypeOK, KVTypeOK, CallInv, Proper, Exists,
     OwnPassword, OverInv, DoneInv, KVMovesOn, Holds, HasKey, Strayed, Reported
<1> QED
  BY <1>1, <1>2, <1>3, <1>4, <1>5 DEF OrderNext

LEMMA Invariance == OrderSpec => []IInv
BY InitInv, NextStep, PTL DEF OrderSpec

-----------------------------------------------------------------------------
(* The secrets, the calls and the stray requests keep their types.          *)
(* (kv_sync.go:19-70)                                                       *)
THEOREM KVTypeCorrect == OrderSpec => []KVTypeOK
BY Invariance, PTL DEF IInv, OrderTypeOK

(* A sync reported done has the last word over every sync of the key that   *)
(* was reported done before it began, strays excepted, however many others  *)
(* run.  (kv_sync.go:51-69, path_credentials.go:100, path_users.go:161)     *)
THEOREM SyncsMoveOn == OrderSpec => []KVMovesOn
BY Invariance, PTL DEF IInv

(* The request that overwrites a key is one for that key, or comes of a call *)
(* that found no secret.                                                    *)
LEMMA KeysStep ==
  ASSUME IInv, [OrderNext]_orderVars, NEW s \in Secrets, NEW k \in Keys,
         HasKey(s, k), ~(HasKey(s, k)' /\ kv'[s][k] = kv[s][k])
  PROVE  \E r \in UnderWay : r.secret = s /\ (r.key = k \/ ~r.existed)
<1>0. OrderTypeOK /\ CallInv
  BY DEF IInv
<1>1. kv \in [Secrets -> [Keys -> Nat] \cup {NoSecret}] /\ NoSecret \notin [Keys -> Nat]
  BY <1>0, KVAssumption DEF OrderTypeOK, KVTypeOK
<1>2. PICK r \in UnderWay :
        /\ Proper(r)
        /\ \/ r.phase = "patch" /\ Exists(r) /\ kv' = Merged(r)
           \/ r.phase = "put" /\ kv' = Created(r)
  <2>1. ASSUME NEW p \in Procs, PatchSucceeds(p) \/ PutSucceeds(p)
        PROVE  /\ sync[p] \in UnderWay /\ Proper(sync[p])
               /\ \/ sync[p].phase = "patch" /\ Exists(sync[p]) /\ kv' = Merged(sync[p])
                  \/ sync[p].phase = "put" /\ kv' = Created(sync[p])
    BY <1>0, <2>1 DEF PatchSucceeds, PutSucceeds, Advance, UnderWay, CallInv
  <2>2. ASSUME NEW r \in late, Arrive(r)
        PROVE  /\ r \in UnderWay /\ Proper(r)
               /\ \/ r.phase = "patch" /\ Exists(r) /\ kv' = Merged(r)
                  \/ r.phase = "put" /\ kv' = Created(r)
    BY <1>0, <2>2 DEF Arrive, UnderWay, CallInv
  <2>3. kv' # kv
    BY DEF HasKey
  <2> QED
    BY <2>1, <2>2, <2>3 DEF OrderNext, orderVars, Work, KVStep, KVAnswer, PatchNotFound,
       RequestFails, RequestStrays, Start, SyncStart, Finish, SyncReturn, ArriveLate
<1> QED
  BY <1>1, <1>2, KeyLost DEF Proper, Value

(* No call of writeKVSecret, overlapping, retried or late, costs a key its  *)
(* value, but for those that find no secret and create one.                 *)
(* (kv_sync.go:49-69)                                                       *)
THEOREM KeysKept == OrderSpec => KeysAreKept
<1>1. IInv /\ [OrderNext]_orderVars =>
        [\A s \in Secrets, k \in Keys :
           HasKey(s, k) /\ ~(HasKey(s, k)' /\ kv'[s][k] = kv[s][k])
           => \E r \in UnderWay : r.secret = s /\ (r.key = k \/ ~r.existed)]_kvVars
  BY KeysStep
<1> QED
  BY <1>1, Invariance, PTL DEF OrderSpec, KeysAreKept

=============================================================================
