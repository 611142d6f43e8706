-------------------------- MODULE ClientCacheProofs --------------------------
(***************************************************************************)
(* Proofs about ClientCache, for any number of goroutines, any operators'  *)
(* requests and any bound on the versions.                                 *)
(***************************************************************************)
EXTENDS ClientCache, TLAPS

(* What a call's place in the code says of its local variables. *)
CallInv ==
  \A p \in Procs :
     /\ call[p].seen <= Stored
     /\ pc[p] \in {"rlock", "check", "build", "served", "refused"} => call[p].op = "get"
     /\ pc[p] \in {"read", "put", "remove"} => call[p].op # "get"
     /\ pc[p] \in {"put", "build", "served", "refused"} => call[p].seen >= 1
     /\ pc[p] \in {"lock", "drain", "load"} /\ call[p].op # "get" => call[p].seen >= 1
     /\ pc[p] = "put" => call[p].seen >= call[p].floor
     /\ call[p].floor <= acked

(* The cached client is at least as new as what was acknowledged, and so is *)
(* the configuration from which one is being built: the acknowledgement     *)
(* needs the write lock, which the builder holds.                           *)
Fresh ==
  /\ client # 0 => client >= acked
  /\ \A p \in Procs : pc[p] = "build" => call[p].seen >= acked

(* A configuration that is superseded while a client is built from it has a *)
(* reset coming, which the builder's lock holds up.                         *)
BuildCoherent ==
  \A p \in Procs :
     pc[p] = "build" /\ call[p].seen < Stored
     => unacked > call[p].seen \/ ResetPending(call[p].seen)

IInv == /\ TypeOK
        /\ MutualExclusion
        /\ CallInv
        /\ Fresh
        /\ ServedFresh
        /\ Coherent
        /\ BuildCoherent

-----------------------------------------------------------------------------
(* A merge of a request into a configuration is a configuration. *)
LEMMA MergeType ==
  ASSUME NEW c \in Config, NEW q, IsRequest(q)
  PROVE  Merge(c, q) \in Config
BY ConfigAssumption DEF Config, IsRequest, Merge

(* The configuration that a first write starts from is one. *)
LEMMA EmptyConfigType == EmptyConfig \in Config
BY ConfigAssumption DEF Config, EmptyConfig

(* What a handler may store is a configuration. *)
LEMMA PutType ==
  ASSUME TypeOK, CallInv, NEW p \in Procs, pc[p] = "put"
  PROVE  MergedInto(call[p].seen, call[p].req) \in Config
<1>1. IsRequest(call[p].req)
  <2>1. IsRequest(NoRequest)
    BY DEF IsRequest, NoRequest
  <2> QED
    BY <2>1, CacheAssumption DEF TypeOK, Call
<1>2. hist[call[p].seen] \in Config \cup {NoConfig}
  BY DEF TypeOK, CallInv, Call, Stored
<1> QED
  BY <1>1, <1>2, MergeType, EmptyConfigType DEF MergedInto

(* The invariant holds at the start: no entry, no client, nobody at work. *)
LEMMA InitInv == Init => IInv
<1> SUFFICES ASSUME Init PROVE IInv
  OBVIOUS
<1>1. TypeOK
  BY DEF Init, TypeOK, Stored, PC, Call, NoCall, Op
<1>2. MutualExclusion /\ CallInv /\ Fresh /\ ServedFresh /\ Coherent /\ BuildCoherent
  BY CacheAssumption DEF Init, MutualExclusion, CallInv, Fresh, ServedFresh, Coherent,
     BuildCoherent, Stored, NoCall
<1> QED
  BY <1>1, <1>2 DEF IInv

(* The three ways a step writes pc and call keep their types. *)
LEMMA GotoType ==
  ASSUME TypeOK, NEW p \in Procs, NEW from, NEW to \in PC, Goto(p, from, to)
  PROVE  pc' \in [Procs -> PC]
BY DEF TypeOK, Goto

(* What a call has seen is a version. *)
LEMMA SeeType ==
  ASSUME TypeOK, NEW p \in Procs, NEW v \in Nat, See(p, v)
  PROVE  call' \in [Procs -> Call]
BY DEF TypeOK, See, Call

(* A call that returns leaves an idle goroutine. *)
LEMMA ReturnType ==
  ASSUME TypeOK, NEW p \in Procs, NEW from, Return(p, from)
  PROVE  pc' \in [Procs -> PC] /\ call' \in [Procs -> Call]
BY DEF TypeOK, Return, Goto, PC, Call, NoCall, Op

(* A call begins with local variables of their type. *)
LEMMA BeginType ==
  ASSUME TypeOK, NEW p \in Procs, NEW to \in PC, NEW c \in Call, Begin(p, to, c)
  PROVE  pc' \in [Procs -> PC] /\ call' \in [Procs -> Call]
BY DEF TypeOK, Begin, Goto

(* Appending to the history keeps the versions that were named valid. *)
LEMMA HistType ==
  ASSUME TypeOK, NEW c \in Config \cup {NoConfig}, hist' = Append(hist, c)
  PROVE  /\ hist' \in Seq(Config \cup {NoConfig})
         /\ Stored' = Stored + 1
         /\ Stored \in Nat \ {0}
         /\ \A v \in 1 .. Stored : hist'[v] = hist[v]
BY DEF TypeOK, Stored

(* Every action keeps every variable within its type. *)
LEMMA TypeStep == IInv /\ [Next]_vars => TypeOK'
<1> SUFFICES ASSUME IInv, [Next]_vars PROVE TypeOK'
  OBVIOUS
<1>0. TypeOK /\ CallInv /\ Stored \in Nat
  BY DEF IInv, TypeOK, Stored
<1> USE <1>0
<1> DEFINE Locals == pc' \in [Procs -> PC] /\ call' \in [Procs -> Call]
<1>1. ASSUME NEW p \in Procs, AnnounceLock(p) PROVE TypeOK'
  BY <1>1, GotoType DEF TypeOK, Stored, AnnounceLock, PC, shared
<1>2. ASSUME NEW p \in Procs, AcquireLock(p) PROVE TypeOK'
  BY <1>2, GotoType DEF TypeOK, Stored, AcquireLock, PC, shared, lock
<1>3. ASSUME NEW p \in Procs, RLock(p) PROVE TypeOK'
  BY <1>3, GotoType DEF TypeOK, Stored, RLock, PC, shared
<1>4. ASSUME NEW p \in Procs, CheckCache(p) PROVE TypeOK'
  <2>1. pc' \in [Procs -> PC]
    BY <1>4, GotoType DEF CheckCache, PC
  <2>2. call' \in [Procs -> Call]
    <3>1. client \in Nat
      BY DEF TypeOK
    <3> QED
      BY <1>4, <3>1, SeeType DEF CheckCache, TypeOK
  <2> QED
    BY <1>4, <2>1, <2>2 DEF CheckCache, TypeOK, Stored, shared
<1>5. ASSUME NEW p \in Procs, Load(p) PROVE TypeOK'
  <2>1. pc' \in [Procs -> PC]
    BY <1>5, GotoType DEF Load, PC
  <2>2. call' \in [Procs -> Call]
    BY <1>5, SeeType DEF Load
  <2> QED
    BY <1>5, <2>1, <2>2 DEF Load, TypeOK, Stored, shared
<1>6. ASSUME NEW p \in Procs, LoadFails(p) PROVE TypeOK'
  BY <1>6, GotoType DEF TypeOK, Stored, LoadFails, PC, shared
<1>7. ASSUME NEW p \in Procs, Build(p) PROVE TypeOK'
  <2>1. pc' \in [Procs -> PC]
    BY <1>7, GotoType DEF Build, PC
  <2>2. client' \in 0 .. Stored
    BY <1>7 DEF Build, TypeOK, CallInv, Call
  <2> QED
    BY <1>7, <2>1, <2>2 DEF Build, TypeOK, Stored
<1>8. ASSUME NEW p \in Procs, EndGet(p) \/ StorageFails(p) PROVE TypeOK'
  <2>1. Locals
    BY <1>8, ReturnType DEF EndGet, StorageFails
  <2> QED
    BY <1>8, <2>1 DEF EndGet, StorageFails, TypeOK, Stored, shared, lock
<1>9. ASSUME NEW p \in Procs, ReadForWrite(p) PROVE TypeOK'
  <2>1. Locals
    BY <1>9, GotoType, SeeType DEF ReadForWrite, PC
  <2> QED
    BY <1>9, <2>1 DEF ReadForWrite, TypeOK, Stored, shared, lock
<1>10. ASSUME NEW p \in Procs, NEW from, NEW c \in Config \cup {NoConfig},
              Change(p, from, c)
       PROVE  TypeOK'
  <2>1. Locals
    BY <1>10, GotoType, SeeType, ReturnType DEF Change, PC
  <2>2. unacked' \in 0 .. Stored + 1
    BY <1>10 DEF Change, TypeOK
  <2> QED
    BY <1>10, <2>1, <2>2, HistType DEF Change, TypeOK, lock
<1>11. ASSUME NEW p \in Procs, Put(p) PROVE TypeOK'
  BY <1>11, <1>10, PutType DEF Put, Change
<1>12. ASSUME NEW p \in Procs, Remove(p) PROVE TypeOK'
  BY <1>12, <1>10 DEF Remove
<1>13. ASSUME NEW p \in Procs, Clear(p) PROVE TypeOK'
  <2>1. Locals
    BY <1>13, ReturnType DEF Clear
  <2>2. acked' \in 1 .. Stored
    BY <1>13 DEF Clear, TypeOK, CallInv, Call, Return, Goto
  <2> QED
    BY <1>13, <2>1, <2>2 DEF Clear, TypeOK, Stored
<1>14. ASSUME NEW p \in Procs, BeginGet(p) PROVE TypeOK'
  <2>0. acked \in Nat
    BY DEF TypeOK
  <2>1. [NoCall EXCEPT !.op = "get", !.floor = acked] \in Call
    BY <2>0 DEF Call, NoCall, Op
  <2>2. Locals
    BY <1>14, <2>1, BeginType DEF BeginGet, PC
  <2> QED
    BY <1>14, <2>2 DEF BeginGet, TypeOK, Stored, shared, lock
<1>15. ASSUME NEW p \in Procs, BeginDelete(p) PROVE TypeOK'
  <2>1. [NoCall EXCEPT !.op = "delete"] \in Call
    BY DEF Call, NoCall, Op
  <2>2. Locals
    BY <1>15, <2>1, BeginType DEF BeginDelete, PC
  <2> QED
    BY <1>15, <2>2 DEF BeginDelete, TypeOK, Stored, shared, lock
<1>16. ASSUME NEW p \in Procs, NEW q \in Requests, BeginWrite(p, q) PROVE TypeOK'
  <2>0. acked \in Nat
    BY DEF TypeOK
  <2>1. [NoCall EXCEPT !.op = "write", !.req = q, !.floor = acked] \in Call
    BY <2>0 DEF Call, NoCall, Op
  <2>2. Locals
    BY <1>16, <2>1, BeginType DEF BeginWrite, PC
  <2> QED
    BY <1>16, <2>2 DEF BeginWrite, TypeOK, Stored, shared, lock
<1>17. ASSUME NEW p \in Procs, NEW c \in Config \cup {NoConfig}, Replicate(p, c)
       PROVE  TypeOK'
  <2>1. [NoCall EXCEPT !.op = "invalidate", !.seen = Stored + 1] \in Call
    <3>1. Stored + 1 \in Nat
      OBVIOUS
    <3>2. \A n \in Nat : [NoCall EXCEPT !.op = "invalidate", !.seen = n] \in Call
      BY DEF Call, NoCall, Op
    <3> QED
      BY <3>1, <3>2
  <2>2. Locals
    BY <1>17, <2>1, BeginType DEF Replicate, PC
  <2> QED
    BY <1>17, <2>2, HistType DEF Replicate, TypeOK, lock
<1>18. CASE Restart
  BY <1>18 DEF Restart, TypeOK, Stored, PC, Call, NoCall, Op
<1>19. CASE UNCHANGED vars
  BY <1>19 DEF vars, TypeOK, Stored
<1>20. \A q \in Requests : Merge(EmptyConfig, q) \in Config
  BY CacheAssumption, MergeType, EmptyConfigType
<1> QED
  BY <1>1, <1>2, <1>3, <1>4, <1>5, <1>6, <1>7, <1>8, <1>9, <1>11, <1>12, <1>13,
     <1>14, <1>15, <1>16, <1>17, <1>18, <1>19, <1>20 DEF Next, Step, Start
(* The lock stays exclusive. *)
LEMMA LockStep == IInv /\ [Next]_vars => MutualExclusion'
<1> SUFFICES ASSUME IInv, [Next]_vars PROVE MutualExclusion'
  OBVIOUS
<1> USE CacheAssumption DEF IInv, TypeOK, MutualExclusion, Goto, lock
<1>1. ASSUME NEW p \in Procs, AnnounceLock(p) PROVE MutualExclusion'
  BY <1>1 DEF AnnounceLock
<1>2. ASSUME NEW p \in Procs, AcquireLock(p) PROVE MutualExclusion'
  BY <1>2 DEF AcquireLock
<1>3. ASSUME NEW p \in Procs, RLock(p) PROVE MutualExclusion'
  BY <1>3 DEF RLock
<1>4. ASSUME NEW p \in Procs, CheckCache(p) PROVE MutualExclusion'
  BY <1>4 DEF CheckCache
<1>5. ASSUME NEW p \in Procs, Load(p) PROVE MutualExclusion'
  BY <1>5 DEF Load
<1>6. ASSUME NEW p \in Procs, LoadFails(p) PROVE MutualExclusion'
  BY <1>6 DEF LoadFails
<1>7. ASSUME NEW p \in Procs, Build(p) PROVE MutualExclusion'
  BY <1>7 DEF Build
<1>8. ASSUME NEW p \in Procs, EndGet(p) PROVE MutualExclusion'
  BY <1>8 DEF EndGet, Return
<1>9. ASSUME NEW p \in Procs, ReadForWrite(p) PROVE MutualExclusion'
  BY <1>9 DEF ReadForWrite
<1>10. ASSUME NEW p \in Procs, StorageFails(p) PROVE MutualExclusion'
  BY <1>10 DEF StorageFails, Return
<1>11. ASSUME NEW p \in Procs, Put(p) \/ Remove(p) PROVE MutualExclusion'
  BY <1>11 DEF Put, Remove, Change, Return
<1>12. ASSUME NEW p \in Procs, Clear(p) PROVE MutualExclusion'
  BY <1>12 DEF Clear, Return
<1>13. ASSUME NEW p \in Procs, BeginGet(p) PROVE MutualExclusion'
  BY <1>13 DEF BeginGet, Begin
<1>14. ASSUME NEW p \in Procs, NEW q \in Requests, BeginWrite(p, q) PROVE MutualExclusion'
  BY <1>14 DEF BeginWrite, Begin
<1>15. ASSUME NEW p \in Procs, BeginDelete(p) PROVE MutualExclusion'
  BY <1>15 DEF BeginDelete, Begin
<1>16. ASSUME NEW p \in Procs, NEW c, Replicate(p, c) PROVE MutualExclusion'
  BY <1>16 DEF Replicate, Begin
<1>17. CASE Restart
  BY <1>17 DEF Restart
<1>18. CASE UNCHANGED vars
  BY <1>18 DEF vars
<1> QED
  BY <1>1, <1>2, <1>3, <1>4, <1>5, <1>6, <1>7, <1>8, <1>9,
     <1>10, <1>11, <1>12, <1>13, <1>14, <1>15, <1>16, <1>17, <1>18 DEF Next, Step, Start

(* The local variables stay in step with the code. *)
LEMMA CallStep == IInv /\ [Next]_vars => CallInv'
<1> SUFFICES ASSUME IInv, [Next]_vars PROVE CallInv'
  OBVIOUS
<1> USE CacheAssumption DEF IInv, TypeOK, CallInv, Goto, See, shared, Stored, Call, NoCall
<1>1. ASSUME NEW p \in Procs, AnnounceLock(p) PROVE CallInv'
  BY <1>1 DEF AnnounceLock
<1>2. ASSUME NEW p \in Procs, AcquireLock(p) PROVE CallInv'
  BY <1>2 DEF AcquireLock
<1>3. ASSUME NEW p \in Procs, RLock(p) PROVE CallInv'
  BY <1>3 DEF RLock
<1>4. ASSUME NEW p \in Procs, CheckCache(p) PROVE CallInv'
  <2>1. CASE client # 0
    <3>1. /\ call' = [call EXCEPT ![p] = [call[p] EXCEPT !.seen = client]]
          /\ pc[p] = "check" /\ pc' = [pc EXCEPT ![p] = "served"]
          /\ UNCHANGED shared
      BY <1>4, <2>1 DEF CheckCache
    <3>2. /\ call'[p].op = call[p].op
          /\ call'[p].seen = client
          /\ call'[p].floor = call[p].floor
          /\ \A q \in Procs \ {p} : call'[q] = call[q]
      BY <3>1
    <3> QED
      BY <2>1, <3>1, <3>2
  <2>2. CASE client = 0
    BY <1>4, <2>2 DEF CheckCache
  <2> QED
    BY <2>1, <2>2
<1>5. ASSUME NEW p \in Procs, Load(p) PROVE CallInv'
  BY <1>5 DEF Load
<1>6. ASSUME NEW p \in Procs, LoadFails(p) PROVE CallInv'
  BY <1>6 DEF LoadFails
<1>7. ASSUME NEW p \in Procs, Build(p) PROVE CallInv'
  BY <1>7 DEF Build
<1>8. ASSUME NEW p \in Procs, EndGet(p) PROVE CallInv'
  BY <1>8 DEF EndGet, Return
<1>9. ASSUME NEW p \in Procs, ReadForWrite(p) PROVE CallInv'
  BY <1>9 DEF ReadForWrite
<1>10. ASSUME NEW p \in Procs, StorageFails(p) PROVE CallInv'
  <2>1. \E from : Return(p, from)
    BY <1>10 DEF StorageFails
  <2> QED
    BY <1>10, <2>1 DEF StorageFails, Return
<1>11. ASSUME NEW p \in Procs, Put(p) \/ Remove(p) PROVE CallInv'
  <2>1. PICK from, c : from \in {"put", "remove"} /\ Change(p, from, c)
    BY <1>11 DEF Put, Remove
  <2>2. Len(hist') = Len(hist) + 1
    BY <2>1 DEF Change
  <2>3. CASE Goto(p, from, "lock") /\ See(p, Stored + 1) /\ UNCHANGED unacked
    BY <2>1, <2>2, <2>3 DEF Change
  <2>4. CASE Return(p, from) /\ unacked' = Stored + 1
    BY <2>1, <2>2, <2>4 DEF Change, Return
  <2> QED
    BY <2>1, <2>3, <2>4 DEF Change
<1>12. ASSUME NEW p \in Procs, Clear(p) PROVE CallInv'
  BY <1>12 DEF Clear, Return
<1>13. ASSUME NEW p \in Procs, BeginGet(p) PROVE CallInv'
  BY <1>13 DEF BeginGet, Begin
<1>14. ASSUME NEW p \in Procs, NEW q \in Requests, BeginWrite(p, q) PROVE CallInv'
  BY <1>14 DEF BeginWrite, Begin
<1>15. ASSUME NEW p \in Procs, BeginDelete(p) PROVE CallInv'
  BY <1>15 DEF BeginDelete, Begin
<1>16. ASSUME NEW p \in Procs, NEW c, Replicate(p, c) PROVE CallInv'
  BY <1>16 DEF Replicate, Begin
<1>17. CASE Restart
  BY <1>17 DEF Restart
<1>18. CASE UNCHANGED vars
  BY <1>18 DEF vars
<1> QED
  BY <1>1, <1>2, <1>3, <1>4, <1>5, <1>6, <1>7, <1>8, <1>9,
     <1>10, <1>11, <1>12, <1>13, <1>14, <1>15, <1>16, <1>17, <1>18 DEF Next, Step, Start

(* No step lets the cache fall behind what was acknowledged. *)
LEMMA FreshStep == IInv /\ [Next]_vars => (Fresh /\ ServedFresh)'
<1> SUFFICES ASSUME IInv, [Next]_vars PROVE (Fresh /\ ServedFresh)'
  OBVIOUS
<1> USE CacheAssumption DEF IInv, TypeOK, MutualExclusion, CallInv, Fresh, ServedFresh, Goto, See, shared, Stored, Call, NoCall
<1>1. ASSUME NEW p \in Procs, AnnounceLock(p) PROVE (Fresh /\ ServedFresh)'
  BY <1>1 DEF AnnounceLock
<1>2. ASSUME NEW p \in Procs, AcquireLock(p) PROVE (Fresh /\ ServedFresh)'
  BY <1>2 DEF AcquireLock
<1>3. ASSUME NEW p \in Procs, RLock(p) PROVE (Fresh /\ ServedFresh)'
  BY <1>3 DEF RLock
<1>4. ASSUME NEW p \in Procs, CheckCache(p) PROVE (Fresh /\ ServedFresh)'
  <2>1. CASE client # 0
    <3>1. /\ call' = [call EXCEPT ![p] = [call[p] EXCEPT !.seen = client]]
          /\ pc[p] = "check" /\ pc' = [pc EXCEPT ![p] = "served"]
          /\ UNCHANGED shared
      BY <1>4, <2>1 DEF CheckCache
    <3>2. /\ call'[p].op = call[p].op
          /\ call'[p].seen = client
          /\ call'[p].floor = call[p].floor
          /\ \A q \in Procs \ {p} : call'[q] = call[q]
      BY <3>1
    <3> QED
      BY <2>1, <3>1, <3>2
  <2>2. CASE client = 0
    BY <1>4, <2>2 DEF CheckCache
  <2> QED
    BY <2>1, <2>2
<1>5. ASSUME NEW p \in Procs, Load(p) PROVE (Fresh /\ ServedFresh)'
  BY <1>5 DEF Load
<1>6. ASSUME NEW p \in Procs, LoadFails(p) PROVE (Fresh /\ ServedFresh)'
  BY <1>6 DEF LoadFails
<1>7. ASSUME NEW p \in Procs, Build(p) PROVE (Fresh /\ ServedFresh)'
  BY <1>7 DEF Build
<1>8. ASSUME NEW p \in Procs, EndGet(p) PROVE (Fresh /\ ServedFresh)'
  BY <1>8 DEF EndGet, Return
<1>9. ASSUME NEW p \in Procs, ReadForWrite(p) PROVE (Fresh /\ ServedFresh)'
  BY <1>9 DEF ReadForWrite
<1>10. ASSUME NEW p \in Procs, StorageFails(p) PROVE (Fresh /\ ServedFresh)'
  BY <1>10 DEF StorageFails, Return
<1>11. ASSUME NEW p \in Procs, Put(p) \/ Remove(p) PROVE (Fresh /\ ServedFresh)'
  BY <1>11 DEF Put, Remove, Change, Return
<1>12. ASSUME NEW p \in Procs, Clear(p) PROVE (Fresh /\ ServedFresh)'
  BY <1>12 DEF Clear, Return
<1>13. ASSUME NEW p \in Procs, BeginGet(p) PROVE (Fresh /\ ServedFresh)'
  BY <1>13 DEF BeginGet, Begin
<1>14. ASSUME NEW p \in Procs, NEW q \in Requests, BeginWrite(p, q) PROVE (Fresh /\ ServedFresh)'
  BY <1>14 DEF BeginWrite, Begin
<1>15. ASSUME NEW p \in Procs, BeginDelete(p) PROVE (Fresh /\ ServedFresh)'
  BY <1>15 DEF BeginDelete, Begin
<1>16. ASSUME NEW p \in Procs, NEW c, Replicate(p, c) PROVE (Fresh /\ ServedFresh)'
  BY <1>16 DEF Replicate, Begin
<1>17. CASE Restart
  BY <1>17 DEF Restart
<1>18. CASE UNCHANGED vars
  BY <1>18 DEF vars
<1> QED
  BY <1>1, <1>2, <1>3, <1>4, <1>5, <1>6, <1>7, <1>8, <1>9,
     <1>10, <1>11, <1>12, <1>13, <1>14, <1>15, <1>16, <1>17, <1>18 DEF Next, Step, Start

(* No step supersedes a cached client without a reset to follow. *)
LEMMA CoherentStep == IInv /\ [Next]_vars => (Coherent /\ BuildCoherent)'
<1> SUFFICES ASSUME IInv, [Next]_vars PROVE (Coherent /\ BuildCoherent)'
  OBVIOUS
<1> USE CacheAssumption DEF IInv, TypeOK, MutualExclusion, CallInv, Coherent, BuildCoherent, ResetPending, Goto, See, shared, Stored, Call, NoCall
<1>1. ASSUME NEW p \in Procs, AnnounceLock(p) PROVE (Coherent /\ BuildCoherent)'
  BY <1>1 DEF AnnounceLock
<1>2. ASSUME NEW p \in Procs, AcquireLock(p) PROVE (Coherent /\ BuildCoherent)'
  BY <1>2 DEF AcquireLock
<1>3. ASSUME NEW p \in Procs, RLock(p) PROVE (Coherent /\ BuildCoherent)'
  BY <1>3 DEF RLock
<1>4. ASSUME NEW p \in Procs, CheckCache(p) PROVE (Coherent /\ BuildCoherent)'
  BY <1>4 DEF CheckCache
<1>5. ASSUME NEW p \in Procs, Load(p) PROVE (Coherent /\ BuildCoherent)'
  BY <1>5 DEF Load
<1>6. ASSUME NEW p \in Procs, LoadFails(p) PROVE (Coherent /\ BuildCoherent)'
  BY <1>6 DEF LoadFails
<1>7. ASSUME NEW p \in Procs, Build(p) PROVE (Coherent /\ BuildCoherent)'
  BY <1>7 DEF Build
<1>8. ASSUME NEW p \in Procs, EndGet(p) PROVE (Coherent /\ BuildCoherent)'
  BY <1>8 DEF EndGet, Return
<1>9. ASSUME NEW p \in Procs, ReadForWrite(p) PROVE (Coherent /\ BuildCoherent)'
  BY <1>9 DEF ReadForWrite
<1>10. ASSUME NEW p \in Procs, StorageFails(p) PROVE (Coherent /\ BuildCoherent)'
  BY <1>10 DEF StorageFails, Return
<1>11. ASSUME NEW p \in Procs, Put(p) \/ Remove(p) PROVE (Coherent /\ BuildCoherent)'
  <2>1. PICK from, c : from \in {"put", "remove"} /\ Change(p, from, c)
    BY <1>11 DEF Put, Remove
  <2>2. Len(hist') = Len(hist) + 1
    BY <2>1 DEF Change
  <2>3. CASE Goto(p, from, "lock") /\ See(p, Stored + 1) /\ UNCHANGED unacked
    <3>1. call'[p].seen = Len(hist') /\ call'[p].op # "get" /\ pc'[p] = "lock"
      BY <1>11, <2>1, <2>2, <2>3 DEF Change, Put, Remove
    <3>2. \A v \in Nat : v < Len(hist') => ResetPending(v)'
      BY <3>1
    <3> QED
      BY <2>1, <2>2, <2>3, <3>2 DEF Change
  <2>4. CASE Return(p, from) /\ unacked' = Stored + 1
    BY <2>1, <2>2, <2>4 DEF Change, Return
  <2> QED
    BY <2>1, <2>3, <2>4 DEF Change
<1>12. ASSUME NEW p \in Procs, Clear(p) PROVE (Coherent /\ BuildCoherent)'
  BY <1>12 DEF Clear, Return
<1>13. ASSUME NEW p \in Procs, BeginGet(p) PROVE (Coherent /\ BuildCoherent)'
  BY <1>13 DEF BeginGet, Begin
<1>14. ASSUME NEW p \in Procs, NEW q \in Requests, BeginWrite(p, q) PROVE (Coherent /\ BuildCoherent)'
  BY <1>14 DEF BeginWrite, Begin
<1>15. ASSUME NEW p \in Procs, BeginDelete(p) PROVE (Coherent /\ BuildCoherent)'
  BY <1>15 DEF BeginDelete, Begin
<1>16. ASSUME NEW p \in Procs, NEW c, Replicate(p, c) PROVE (Coherent /\ BuildCoherent)'
  BY <1>16 DEF Replicate, Begin
<1>17. CASE Restart
  BY <1>17 DEF Restart
<1>18. CASE UNCHANGED vars
  BY <1>18 DEF vars
<1> QED
  BY <1>1, <1>2, <1>3, <1>4, <1>5, <1>6, <1>7, <1>8, <1>9,
     <1>10, <1>11, <1>12, <1>13, <1>14, <1>15, <1>16, <1>17, <1>18 DEF Next, Step, Start

-----------------------------------------------------------------------------
(* Every reachable state satisfies the inductive invariant. *)
LEMMA Invariance == Spec => []IInv
<1>1. IInv /\ [Next]_vars => IInv'
  BY TypeStep, LockStep, CallStep, FreshStep, CoherentStep DEF IInv
<1> QED
  BY InitInv, <1>1, PTL DEF Spec

(* Type correctness of backend.go's cache and path_config.go's handlers. *)
THEOREM TypeCorrect == Spec => []TypeOK
BY Invariance, PTL DEF IInv

(* The read-write lock keeps every goroutine out while one loads, builds or *)
(* clears the client (backend.go:59-63, 82-105).                            *)
THEOREM LockIsExclusive == Spec => []MutualExclusion
BY Invariance, PTL DEF IInv

(* getClient never serves a client older than the configuration whose       *)
(* change was acknowledged before the call (backend.go:73-106).             *)
THEOREM GetClientIsFresh == Spec => []ServedFresh
BY Invariance, PTL DEF IInv

(* A cached client of a superseded configuration has a reset coming, or a   *)
(* storage call hid that it took effect (path_config.go:203-207, 245-248).  *)
THEOREM CacheIsCoherent == Spec => []Coherent
BY Invariance, PTL DEF IInv

(* A reader inside is about to leave, and the writer, once they have left,  *)
(* has nothing to wait for. *)
LEMMA HolderRuns == TypeOK /\ MutualExclusion => LockIsHandedOn
<1> SUFFICES ASSUME TypeOK, MutualExclusion, NEW p \in Procs, Waits(p)
             PROVE  \E q \in readers \cup {writer} : q \in Procs /\ ~Waits(q)
  BY DEF LockIsHandedOn
<1>1. ASSUME NEW r \in readers PROVE r \in Procs /\ ~Waits(r)
  \* A reader is about to leave.
  BY DEF TypeOK, MutualExclusion, Waits
<1>2. CASE writer = NoProc
  \* Only a writer drains, so that nobody waits.
  BY <1>2, CacheAssumption DEF MutualExclusion, Waits
<1>3. CASE writer # NoProc
  <2>1. writer \in Procs /\ pc[writer] \in {"drain", "load", "build"}
    BY <1>3 DEF TypeOK, MutualExclusion
  <2>2. CASE readers = {}
    BY <2>1, <2>2 DEF Waits
  <2> QED
    BY <1>1, <2>2
<1> QED
  BY <1>2, <1>3

(* The locks leave no cycle of waits (backend.go:74-86). *)
THEOREM NoCycleOfWaits == Spec => []LockIsHandedOn
<1>1. IInv => LockIsHandedOn
  BY HolderRuns DEF IInv
<1> QED
  BY <1>1, Invariance, PTL

-----------------------------------------------------------------------------
(* The refinement of ClientProvider *)

(* A client is cached, or about to be built, from a configuration that was  *)
(* there; the cached one was also usable.                                   *)
Valid ==
  /\ client # 0 => hist[client] # NoConfig /\ Usable(hist[client])
  /\ \A p \in Procs : pc[p] = "build" => hist[call[p].seen] # NoConfig

(* What the caller of getClient has seen of it so far. *)
Answer(p) ==
  CASE Asked(p)           -> [kind |-> "asked", floor |-> call[p].floor]
    [] pc[p] = "served"   -> [kind |-> "client",
                              client |-> ClientOf(hist[call[p].seen])]
    [] pc[p] = "refused"  -> [kind |-> "refused"]
    [] pc[p] = "failed"   -> [kind |-> "failed"]
    [] OTHER              -> [kind |-> "none"]

Answers == [p \in Procs |-> Answer(p)]

(* The history of the configurations only grows. *)
LEMMA HistGrows ==
  ASSUME IInv, [Next]_vars
  PROVE  /\ Stored \in Nat \ {0} /\ Stored' >= Stored
         /\ \A v \in 1 .. Stored : hist'[v] = hist[v]
<1> USE DEF IInv, TypeOK, Stored
<1>1. CASE UNCHANGED hist
  BY <1>1
<1>2. ASSUME NEW c, hist' = Append(hist, c)
      PROVE  Stored' >= Stored /\ \A v \in 1 .. Stored : hist'[v] = hist[v]
  BY <1>2
<1>3. UNCHANGED hist \/ \E c : hist' = Append(hist, c)
  BY DEF Next, Step, Start, AnnounceLock, AcquireLock, RLock, CheckCache, Load,
     LoadFails, Build, EndGet, ReadForWrite, Put, Remove, Change, StorageFails, Clear,
     BeginGet, BeginDelete, BeginWrite, Replicate, Restart, vars, shared
<1> QED
  BY <1>1, <1>2, <1>3

(* No step makes a client of a configuration that is missing or unusable. *)
LEMMA ValidStep == IInv /\ Valid /\ [Next]_vars => Valid'
<1> SUFFICES ASSUME IInv, Valid, [Next]_vars PROVE Valid'
  OBVIOUS
<1>0. /\ Stored \in Nat \ {0} /\ \A v \in 1 .. Stored : hist'[v] = hist[v]
      /\ client \in 0 .. Stored
      /\ \A p \in Procs : pc[p] = "build" => call[p].seen \in 1 .. Stored
      /\ pc \in [Procs -> PC] /\ call \in [Procs -> Call]
  BY HistGrows DEF IInv, TypeOK, CallInv, Call
<1> USE <1>0 DEF Valid, Goto, See, Return, Begin, shared
<1>1. ASSUME NEW p \in Procs,
             \/ AnnounceLock(p) \/ AcquireLock(p) \/ RLock(p) \/ LoadFails(p)
             \/ StorageFails(p) \/ EndGet(p)
      PROVE  Valid'
  BY <1>1 DEF AnnounceLock, AcquireLock, RLock, LoadFails, StorageFails, EndGet
<1>2. ASSUME NEW p \in Procs, CheckCache(p) \/ ReadForWrite(p) PROVE Valid'
  BY <1>2 DEF CheckCache, ReadForWrite, Call
<1>3. ASSUME NEW p \in Procs, Load(p) PROVE Valid'
  BY <1>3 DEF Load, Call
<1>4. ASSUME NEW p \in Procs, Build(p) PROVE Valid'
  BY <1>4 DEF Build
<1>5. ASSUME NEW p \in Procs, NEW from \in {"put", "remove"}, NEW c, Change(p, from, c) PROVE Valid'
  <2>1. client' = client
    BY <1>5 DEF Change
  <2>2. ASSUME NEW q \in Procs, pc'[q] = "build"
        PROVE  pc[q] = "build" /\ call'[q] = call[q]
    BY <1>5, <2>2 DEF Change
  <2> HIDE DEF Goto, See, Return, Begin
  <2> QED
    BY <2>1, <2>2
<1>6. ASSUME NEW p \in Procs, Clear(p) PROVE Valid'
  BY <1>6 DEF Clear
<1>7. ASSUME NEW p \in Procs, NEW c, Replicate(p, c) PROVE Valid'
  <2>1. client' = client
    BY <1>7 DEF Replicate
  <2>2. ASSUME NEW q \in Procs, pc'[q] = "build"
        PROVE  pc[q] = "build" /\ call'[q] = call[q]
    BY <1>7, <2>2 DEF Replicate
  <2> HIDE DEF Goto, See, Return, Begin
  <2> QED
    BY <2>1, <2>2
<1>8. ASSUME NEW p \in Procs, NEW q \in Requests, BeginGet(p) \/ BeginWrite(p, q) \/ BeginDelete(p)
      PROVE  Valid'
  BY <1>8 DEF BeginGet, BeginWrite, BeginDelete
<1>9. ASSUME NEW p \in Procs, BeginGet(p) \/ BeginDelete(p) PROVE Valid'
  BY <1>9 DEF BeginGet, BeginDelete
<1>10. ASSUME Restart PROVE Valid'
  BY <1>10 DEF Restart
<1>11. ASSUME UNCHANGED vars PROVE Valid'
  BY <1>11 DEF vars
<1>12. ASSUME NEW p \in Procs, Put(p) \/ Remove(p) PROVE Valid'
  BY <1>5, <1>12 DEF Put, Remove
<1> QED
  BY <1>1, <1>2, <1>3, <1>4, <1>6, <1>7, <1>8, <1>9, <1>10, <1>11, <1>12
  DEF Next, Step, Start

(* A goroutine that a step leaves alone keeps its answer. *)
LEMMA SameAnswer ==
  ASSUME IInv, [Next]_vars, NEW p \in Procs, pc'[p] = pc[p], call'[p] = call[p]
  PROVE  Answer(p)' = Answer(p)
<1>1. pc[p] = "served" => call[p].seen \in 1 .. Stored
  BY DEF IInv, TypeOK, CallInv, Call, Stored
<1>2. pc[p] = "served" => hist'[call[p].seen] = hist[call[p].seen]
  BY <1>1, HistGrows
<1> QED
  BY <1>2 DEF Answer, Asked

(* A step of one goroutine changes one answer. *)
LEMMA OneAnswer ==
  ASSUME IInv, [Next]_vars, NEW p \in Procs,
         \A q \in Procs \ {p} : pc'[q] = pc[q] /\ call'[q] = call[q]
  PROVE  Answers' = [Answers EXCEPT ![p] = Answer(p)']
BY SameAnswer DEF Answers

LEMMA PromiseInit == Init => Promise!Init
BY DEF Init, Promise!Init, Promise!NoCall, Asked

(* The promise and the cache build clients alike. *)
LEMMA SameClients ==
  \A c : (Promise!Usable(c) <=> Usable(c)) /\ Promise!ClientOf(c) = ClientOf(c)
BY DEF Promise!Usable, Usable, Promise!ClientOf, ClientOf, Promise!OrElse, OrElse

(* The actions of the promise that answer, in terms of Answers. *)
LEMMA PromiseGives ==
  ASSUME NEW p \in Procs, NEW v \in Nat,
         Answers[p].kind = "asked", v \in Answers[p].floor .. Stored,
         UNCHANGED <<hist, acked>>
  PROVE  /\ hist[v] # NoConfig /\ Usable(hist[v])
            /\ Answers' = [Answers EXCEPT ![p] =
                             [kind |-> "client", client |-> ClientOf(hist[v])]]
            => Promise!Give(p)
         /\ hist[v] = NoConfig \/ ~Usable(hist[v])
            => (Answers' = [Answers EXCEPT ![p] = [kind |-> "refused"]] => Promise!Refuse(p))
<1>1. Promise!Pending(p) /\ v \in Promise!Current(p)
  BY DEF Promise!Pending, Promise!Current, Answers, Answer, Stored
<1>2. ASSUME hist[v] # NoConfig, Usable(hist[v]),
             Answers' = [Answers EXCEPT ![p] =
                           [kind |-> "client", client |-> ClientOf(hist[v])]]
      PROVE  Promise!Give(p)
  BY <1>1, <1>2, SameClients DEF Promise!Give, Answers, Answer
<1>3. ASSUME hist[v] = NoConfig \/ ~Usable(hist[v]),
             Answers' = [Answers EXCEPT ![p] = [kind |-> "refused"]]
      PROVE  Promise!Refuse(p)
  BY <1>1, <1>3, SameClients DEF Promise!Refuse, Answers, Answer
<1> QED
  BY <1>2, <1>3

LEMMA PromiseOthers ==
  ASSUME NEW p \in Procs, UNCHANGED <<hist, acked>>
  PROVE  /\ Answers[p] = [kind |-> "none"]
            /\ Answers' = [Answers EXCEPT ![p] = [kind |-> "asked", floor |-> acked]]
            => Promise!Ask(p)
         /\ Answers[p].kind = "asked"
            /\ Answers' = [Answers EXCEPT ![p] = [kind |-> "failed"]]
            => Promise!Fail(p)
         /\ Answers[p] # [kind |-> "none"] /\ Answers[p].kind # "asked"
            /\ Answers' = [Answers EXCEPT ![p] = [kind |-> "none"]]
            => Promise!Done(p)
BY DEF Promise!Ask, Promise!Fail, Promise!Done, Promise!NoCall, Promise!Pending,
   Answers, Answer

(* A new configuration that no caller of getClient sees is a change. *)
LEMMA PromiseChanges ==
  ASSUME IInv, NEW c \in Config \cup {NoConfig}, hist' = Append(hist, c),
         Answers' = Answers, UNCHANGED acked
  PROVE  Promise!Change
<1>1. /\ hist' = Append(hist, c) /\ Len(hist') = Len(hist) + 1
      /\ hist'[Len(hist')] = c
  BY DEF IInv, TypeOK
<1>2. Promise!Config = Config
  BY DEF Promise!Config, Config, Promise!Field, Field
<1> QED
  BY <1>1, <1>2 DEF Promise!Change, Answers, Answer

(* Every step is one of the promise's, or changes nothing it sees. *)
LEMMA PromiseStep == IInv /\ Valid /\ [Next]_vars => [Promise!Next]_Promise!vars
<1> SUFFICES ASSUME IInv, Valid, [Next]_vars PROVE [Promise!Next]_Promise!vars
  OBVIOUS
<1>0. /\ Stored \in Nat \ {0} /\ acked \in 1 .. Stored /\ client \in 0 .. Stored
      /\ pc \in [Procs -> PC] /\ call \in [Procs -> Call]
      /\ CallInv /\ Fresh
  BY HistGrows DEF IInv, TypeOK
<1> USE <1>0
<1>1. ASSUME NEW p \in Procs, \A q \in Procs \ {p} : pc'[q] = pc[q] /\ call'[q] = call[q]
      PROVE  Answers[p] = Answer(p) /\ Answers' = [Answers EXCEPT ![p] = Answer(p)']
  BY <1>1, OneAnswer DEF Answers
<1>2. ASSUME NEW p \in Procs, \A q \in Procs \ {p} : pc'[q] = pc[q] /\ call'[q] = call[q],
             Answer(p)' = Answer(p)
      PROVE  Answers' = Answers
  BY <1>1, <1>2 DEF Answers
<1>3. ASSUME UNCHANGED <<hist, acked>>, Answers' = Answers
      PROVE  UNCHANGED Promise!vars
  BY <1>3 DEF Promise!vars, Answers, Answer
<1>4. ASSUME NEW p \in Procs,
             \/ AnnounceLock(p) \/ AcquireLock(p) \/ RLock(p)
             \/ ReadForWrite(p) \/ StorageFails(p)
             \/ BeginDelete(p) \/ \E q \in Requests : BeginWrite(p, q)
      PROVE  UNCHANGED Promise!vars
  <2>1. /\ UNCHANGED <<hist, acked>>
        /\ \A q \in Procs \ {p} : pc'[q] = pc[q] /\ call'[q] = call[q]
    BY <1>4 DEF AnnounceLock, AcquireLock, RLock, ReadForWrite, StorageFails,
       BeginDelete, BeginWrite, Goto, See, Return, Begin, shared
  <2>2. Answer(p)' = Answer(p)
    BY <1>4 DEF AnnounceLock, AcquireLock, RLock, ReadForWrite, StorageFails,
       BeginDelete, BeginWrite, Goto, See, Return, Begin, shared, Answer, Asked,
       NoCall, Call, CallInv
  <2> QED
    BY <1>2, <1>3, <2>1, <2>2
<1>5. ASSUME NEW p \in Procs, CheckCache(p) PROVE [Promise!Next]_Promise!vars
  <2>1. /\ UNCHANGED <<hist, acked>>
        /\ \A q \in Procs \ {p} : pc'[q] = pc[q] /\ call'[q] = call[q]
        /\ pc[p] = "check"
    BY <1>5 DEF CheckCache, Goto, See, shared
  <2>2. Answer(p) = [kind |-> "asked", floor |-> call[p].floor]
    BY <2>1 DEF Answer, Asked
  <2>3. CASE client # 0
    <3>1. Answer(p)' = [kind |-> "client", client |-> ClientOf(hist[client])]
      <4>1. pc'[p] = "served" /\ call'[p].seen = client /\ UNCHANGED hist
        BY <1>5, <2>3 DEF CheckCache, Goto, See, shared, Call
      <4> QED
        BY <4>1 DEF Answer, Asked
    <3>2. client \in call[p].floor .. Stored /\ client \in Nat
      BY <2>3 DEF CallInv, Fresh, Call
    <3>3. Promise!Give(p)
      BY <1>1, <2>1, <2>2, <2>3, <3>1, <3>2, PromiseGives DEF Valid
    <3> QED
      BY <3>3 DEF Promise!Next
  <2>4. CASE client = 0
    <3>1. Answer(p)' = Answer(p)
      BY <1>5, <2>4, <2>1 DEF CheckCache, Goto, shared, Answer, Asked, CallInv
    <3> QED
      BY <1>2, <1>3, <2>1, <3>1
  <2> QED
    BY <2>3, <2>4
<1>6. ASSUME NEW p \in Procs, Load(p) PROVE [Promise!Next]_Promise!vars
  <2>1. /\ UNCHANGED <<hist, acked>>
        /\ \A q \in Procs \ {p} : pc'[q] = pc[q] /\ call'[q] = call[q]
        /\ pc[p] = "load" /\ call[p].op = "get"
    BY <1>6 DEF Load, Goto, See, shared
  <2>2. Answer(p) = [kind |-> "asked", floor |-> call[p].floor]
    BY <2>1 DEF Answer, Asked
  <2>3. CASE hist[Stored] = NoConfig
    <3>1. Answer(p)' = [kind |-> "refused"]
      BY <1>6, <2>3 DEF Load, Goto, See, shared, Answer, Asked
    <3>2. Stored \in call[p].floor .. Stored
      BY DEF CallInv, Call
    <3>3. Promise!Refuse(p)
      BY <1>1, <2>1, <2>2, <2>3, <3>1, <3>2, PromiseGives
    <3> QED
      BY <3>3 DEF Promise!Next
  <2>4. CASE hist[Stored] # NoConfig
    <3>1. Answer(p)' = Answer(p)
      BY <1>6, <2>4, <2>1 DEF Load, Goto, See, shared, Answer, Asked, Call
    <3> QED
      BY <1>2, <1>3, <2>1, <3>1
  <2> QED
    BY <2>3, <2>4
<1>7. ASSUME NEW p \in Procs, LoadFails(p) PROVE [Promise!Next]_Promise!vars
  <2>1. /\ UNCHANGED <<hist, acked>>
        /\ \A q \in Procs \ {p} : pc'[q] = pc[q] /\ call'[q] = call[q]
        /\ pc[p] = "load" /\ call[p].op = "get" /\ pc'[p] = "failed"
    BY <1>7 DEF LoadFails, Goto, shared
  <2>2. Answer(p).kind = "asked" /\ Answer(p)' = [kind |-> "failed"]
    BY <2>1 DEF Answer, Asked
  <2>3. Promise!Fail(p)
    BY <1>1, <2>1, <2>2, PromiseOthers
  <2> QED
    BY <2>3 DEF Promise!Next
<1>8. ASSUME NEW p \in Procs, Build(p) PROVE [Promise!Next]_Promise!vars
  <2>1. /\ UNCHANGED <<hist, acked>>
        /\ \A q \in Procs \ {p} : pc'[q] = pc[q] /\ call'[q] = call[q]
        /\ pc[p] = "build" /\ call[p].op = "get" /\ call'[p] = call[p]
    BY <1>8 DEF Build, Goto, CallInv
  <2>2. Answer(p) = [kind |-> "asked", floor |-> call[p].floor]
    BY <2>1 DEF Answer, Asked
  <2>3. call[p].seen \in call[p].floor .. Stored /\ call[p].seen \in Nat
    BY <2>1 DEF CallInv, Fresh, Call
  <2>4. CASE Usable(hist[call[p].seen])
    <3>1. Answer(p)' = [kind |-> "client", client |-> ClientOf(hist[call[p].seen])]
      BY <1>8, <2>1, <2>4 DEF Build, Goto, Answer, Asked
    <3>2. Promise!Give(p)
      BY <1>1, <2>1, <2>2, <2>3, <2>4, <3>1, PromiseGives DEF Valid
    <3> QED
      BY <3>2 DEF Promise!Next
  <2>5. CASE ~Usable(hist[call[p].seen])
    <3>1. Answer(p)' = [kind |-> "refused"]
      BY <1>8, <2>1, <2>5 DEF Build, Goto, Answer, Asked
    <3>2. Promise!Refuse(p)
      BY <1>1, <2>1, <2>2, <2>3, <2>5, <3>1, PromiseGives
    <3> QED
      BY <3>2 DEF Promise!Next
  <2> QED
    BY <2>4, <2>5
<1>9. ASSUME NEW p \in Procs, EndGet(p) PROVE [Promise!Next]_Promise!vars
  <2>1. /\ UNCHANGED <<hist, acked>>
        /\ \A q \in Procs \ {p} : pc'[q] = pc[q] /\ call'[q] = call[q]
        /\ pc[p] \in {"served", "refused", "failed"} /\ pc'[p] = "idle"
    BY <1>9 DEF EndGet, Return, Goto, shared
  <2>2. /\ Answer(p).kind \in {"client", "refused", "failed"}
        /\ Answer(p)' = [kind |-> "none"]
    BY <2>1 DEF Answer, Asked
  <2>3. Promise!Done(p)
    BY <1>1, <2>1, <2>2, PromiseOthers
  <2> QED
    BY <2>3 DEF Promise!Next
<1>10. ASSUME NEW p \in Procs, BeginGet(p) PROVE [Promise!Next]_Promise!vars
  <2>1. /\ UNCHANGED <<hist, acked>>
        /\ \A q \in Procs \ {p} : pc'[q] = pc[q] /\ call'[q] = call[q]
        /\ pc[p] = "idle" /\ pc'[p] = "rlock" /\ call'[p].floor = acked
    BY <1>10 DEF BeginGet, Begin, Goto, shared, NoCall
  <2>2. /\ Answer(p) = [kind |-> "none"]
        /\ Answer(p)' = [kind |-> "asked", floor |-> acked]
    BY <2>1 DEF Answer, Asked
  <2>3. Promise!Ask(p)
    BY <1>1, <2>1, <2>2, PromiseOthers
  <2> QED
    BY <2>3 DEF Promise!Next
<1>11. ASSUME NEW p \in Procs, Clear(p) PROVE [Promise!Next]_Promise!vars
  <2>1. /\ UNCHANGED hist
        /\ \A q \in Procs \ {p} : pc'[q] = pc[q] /\ call'[q] = call[q]
        /\ pc[p] = "load" /\ call[p].op # "get" /\ pc'[p] = "idle"
        /\ acked' = IF call[p].seen > acked THEN call[p].seen ELSE acked
    BY <1>11 DEF Clear, Return, Goto
  <2>2. Answer(p)' = Answer(p)
    BY <2>1 DEF Answer, Asked
  <2>3. Answers' = Answers
    BY <1>2, <2>1, <2>2
  <2>4. acked' \in acked .. Stored
    BY <2>1 DEF CallInv, Call
  <2>5. PICK v \in acked .. Stored : acked' = v
    BY <2>4
  <2>6. Promise!Acknowledge(v)
    BY <2>1, <2>3, <2>5 DEF Promise!Acknowledge, Answers, Answer
  <2> QED
    BY <2>6 DEF Promise!Next, Stored
<1>12. ASSUME NEW p \in Procs, NEW c \in Config \cup {NoConfig}, hist' = Append(hist, c),
              UNCHANGED acked, Answer(p)' = Answer(p),
              \A q \in Procs \ {p} : pc'[q] = pc[q] /\ call'[q] = call[q]
       PROVE  Promise!Next
  BY <1>2, <1>12, PromiseChanges DEF Promise!Next
<1>13. ASSUME NEW p \in Procs, NEW from \in {"put", "remove"},
              NEW c \in Config \cup {NoConfig}, Change(p, from, c)
       PROVE  Promise!Next
  <2>1. /\ hist' = Append(hist, c) /\ UNCHANGED acked
        /\ \A q \in Procs \ {p} : pc'[q] = pc[q] /\ call'[q] = call[q]
        /\ pc[p] = from
        /\ pc'[p] = "idle" \/ (pc'[p] = "lock" /\ call'[p].op = call[p].op)
    BY <1>13 DEF Change, Goto, See, Return, Call
  <2>2. Answer(p)' = Answer(p)
    BY <2>1 DEF Answer, Asked, CallInv
  <2> QED
    BY <1>12, <2>1, <2>2
<1>14. ASSUME NEW p \in Procs, Put(p) PROVE Promise!Next
  <2> DEFINE c == MergedInto(call[p].seen, call[p].req)
  <2>1. pc[p] = "put" /\ Change(p, "put", c)
    BY <1>14 DEF Put, Change
  <2>2. c \in Config
    BY <2>1, PutType DEF IInv
  <2>3. PICK d \in Config \cup {NoConfig} : d = c
    BY <2>2
  <2>4. Change(p, "put", d)
    BY <2>1, <2>3 DEF Change
  <2> QED
    BY <1>13, <2>4
<1>15. ASSUME NEW p \in Procs, Remove(p) PROVE Promise!Next
  BY <1>13, <1>15 DEF Remove
<1>16. ASSUME NEW p \in Procs, NEW c \in Config \cup {NoConfig}, Replicate(p, c)
       PROVE  Promise!Next
  <2>1. /\ hist' = Append(hist, c) /\ UNCHANGED acked
        /\ \A q \in Procs \ {p} : pc'[q] = pc[q] /\ call'[q] = call[q]
        /\ pc[p] = "idle" /\ pc'[p] = "lock" /\ call'[p].op # "get"
    BY <1>16 DEF Replicate, Begin, Goto, NoCall
  <2>2. Answer(p)' = Answer(p)
    BY <2>1 DEF Answer, Asked
  <2> QED
    BY <1>12, <2>1, <2>2
<1>17. ASSUME NEW q \in Requests PROVE Merge(EmptyConfig, q) \in Config
  BY <1>17, CacheAssumption, MergeType, EmptyConfigType
<1>18. ASSUME Restart PROVE Promise!Next
  <2>1. UNCHANGED <<hist, acked>> /\ Answers' = [p \in Procs |-> [kind |-> "none"]]
    BY <1>18 DEF Restart, Answers, Answer, Asked
  <2>2. Promise!Crash
    BY <2>1 DEF Promise!Crash, Promise!NoCall, Answers, Answer
  <2> QED
    BY <2>2 DEF Promise!Next
<1>19. ASSUME UNCHANGED vars PROVE UNCHANGED Promise!vars
  BY <1>3, <1>19 DEF vars, Answers, Answer, Asked
<1> QED
  BY <1>4, <1>5, <1>6, <1>7, <1>8, <1>9, <1>10, <1>11, <1>14, <1>15, <1>16, <1>17,
     <1>18, <1>19 DEF Next, Step, Start

(* getClient, with its cache, its lock and its failing storage, keeps the   *)
(* promise of ClientProvider: it answers with the client of a configuration *)
(* in force at or after the last change acknowledged before the call, or is *)
(* refused because of one.  (backend.go:59-106, path_config.go:154-250)     *)
THEOREM PromiseKept == Spec => ImplementsPromise
<1>1. Init => Valid
  BY DEF Init, Valid
<1>2. Spec => []Valid
  BY <1>1, Invariance, ValidStep, PTL DEF Spec
<1> QED
  BY <1>2, Invariance, PromiseInit, PromiseStep, PTL DEF Spec, ImplementsPromise, Promise!Spec

-----------------------------------------------------------------------------
(* Only the Put of a goroutine takes it out of "put" and changes the entry. *)
LEMMA WriteStep ==
  ASSUME IInv, [Next]_vars, NEW p \in Procs,
         pc[p] = "put", pc'[p] # "put", hist' # hist
  PROVE  \E v \in call[p].floor .. Stored :
           hist'[Stored + 1] = MergedInto(v, call[p].req)
<1>0. /\ pc \in [Procs -> PC] /\ call \in [Procs -> Call] /\ Stored \in Nat
      /\ call[p].seen \in call[p].floor .. Stored
  BY DEF IInv, TypeOK, CallInv, Call, Stored
<1>1. ASSUME NEW q \in Procs, Put(q) PROVE q = p
  BY <1>0, <1>1 DEF Put, Change, Goto, Return
<1>2. ASSUME Put(p) PROVE hist'[Stored + 1] = MergedInto(call[p].seen, call[p].req)
  BY <1>2, HistType, PutType DEF IInv, TypeOK, Put, Change, Stored
<1>3. ASSUME NEW q \in Procs, Remove(q) PROVE FALSE
  BY <1>0, <1>3 DEF Remove, Change, Goto, Return
<1>4. ASSUME NEW q \in Procs, NEW c, Replicate(q, c) PROVE FALSE
  BY <1>0, <1>4 DEF Replicate, Begin, Goto
<1>5. ASSUME UNCHANGED hist PROVE FALSE
  BY <1>5
<1>6. \E q \in Procs : Put(q)
  BY <1>3, <1>4, <1>5 DEF Next, Step, Start, AnnounceLock, AcquireLock, RLock,
     CheckCache, Load, LoadFails, Build, EndGet, ReadForWrite, StorageFails, Clear,
     BeginGet, BeginDelete, BeginWrite, Restart, shared, vars
<1> QED
  BY <1>0, <1>1, <1>2, <1>6

(* A config write keeps every field that was acknowledged before it began   *)
(* and that it does not supply, however many writes, deletes and restarts   *)
(* overlap it.  (path_config.go:155-207)                                    *)
THEOREM WritesKeepAcked == Spec => WritesBuildOnAcked
<1>1. IInv /\ [Next]_vars =>
        [\A p \in Procs :
           pc[p] = "put" /\ pc'[p] # "put" /\ hist' # hist
           => \E v \in call[p].floor .. Stored :
                 hist'[Stored + 1] = MergedInto(v, call[p].req)]_vars
  BY WriteStep
<1> QED
  BY <1>1, Invariance, PTL DEF Spec, WritesBuildOnAcked
-----------------------------------------------------------------------------
(* The refinement of AtomicCache *)

Conns == [p \in Procs |-> Conn(p)]

(* Both build clients alike. *)
LEMMA SameAtomicClients ==
  \A c : (Atomic!Usable(c) <=> Usable(c)) /\ Atomic!ClientOf(c) = ClientOf(c)
BY DEF Atomic!Usable, Usable, Atomic!ClientOf, ClientOf, Atomic!OrElse, OrElse

(* Both store the same configurations. *)
LEMMA SameAtomicConfigs == Atomic!Config = Config
BY DEF Atomic!Config, Config, Atomic!Field, Field

(* A client is not nil. *)
LEMMA ClientNotNil == \A c \in Config : ClientOf(c) # NoConfig
<1> SUFFICES ASSUME NEW c \in Config PROVE ClientOf(c) \in Client
  BY CacheAssumption
<1>1. \A f \in Field : c[f] \in Text
  BY DEF Config
<1>2. \A s, d \in Text : OrElse(s, d) \in Text
  BY DEF OrElse
<1>3. /\ OrElse(c["realm"], "master") \in Text
      /\ OrElse(c["client_id"], "admin-cli") \in Text
      /\ TrimRight[c["url"]] \in Text
  BY <1>1, <1>2, ConfigAssumption DEF Field
<1>4. OrElse(c["target_realm"], OrElse(c["realm"], "master")) \in Text
  BY <1>1, <1>2, <1>3 DEF Field
<1> QED
  BY <1>1, <1>3, <1>4 DEF ClientOf, Client, Field

(* What a version was, it stays. *)
LEMMA SameClientOfVersion ==
  ASSUME IInv, [Next]_vars, NEW v \in 0 .. Stored
  PROVE  ClientOfVersion(v)' = ClientOfVersion(v)
BY HistGrows DEF ClientOfVersion, IInv, TypeOK

(* A goroutine that a step leaves alone keeps its client. *)
LEMMA SameConn ==
  ASSUME IInv, [Next]_vars, NEW p \in Procs, pc'[p] = pc[p], call'[p] = call[p]
  PROVE  Conn(p)' = Conn(p) /\ (Building(p)' <=> Building(p))
<1>1. pc[p] \in {"served", "build"} => call[p].seen \in 1 .. Stored
  BY DEF IInv, TypeOK, CallInv, Call, Stored
<1>2. pc[p] \in {"served", "build"} => hist'[call[p].seen] = hist[call[p].seen]
  BY <1>1, HistGrows
<1> QED
  BY <1>2 DEF Conn, Building, ClientOfVersion

(* A step of one goroutine changes one client, and one reset. *)
LEMMA OneConn ==
  ASSUME IInv, [Next]_vars, NEW p \in Procs,
         \A q \in Procs \ {p} : pc'[q] = pc[q] /\ call'[q] = call[q]
  PROVE  /\ Conns' = [Conns EXCEPT ![p] = Conn(p)']
         /\ Conn(p)' = Conn(p) => Conns' = Conns
         /\ p \in Resetting => Resetting' \in {Resetting, Resetting \ {p}}
         /\ p \notin Resetting => Resetting' \in {Resetting, Resetting \cup {p}}
         /\ (p \in Resetting)' <=> p \in Resetting => Resetting' = Resetting
<1>1. Conns' = [Conns EXCEPT ![p] = Conn(p)']
  BY SameConn DEF Conns
<1>2. \A q \in Procs \ {p} : q \in Resetting' <=> q \in Resetting
  BY DEF Resetting
<1>3. Resetting \subseteq Procs /\ Resetting' \subseteq Procs
  BY DEF Resetting
<1>4. (p \in Resetting)' <=> p \in Resetting => Resetting' = Resetting
  BY <1>2, <1>3
<1>5. p \in Resetting /\ p \notin Resetting' => Resetting' = Resetting \ {p}
  BY <1>2, <1>3
<1>6. p \notin Resetting /\ p \in Resetting' => Resetting' = Resetting \cup {p}
  BY <1>2, <1>3
<1>7. Conn(p)' = Conn(p) => Conns' = Conns
  BY <1>1 DEF Conns
<1> HIDE DEF Resetting, Conns
<1> QED
  BY <1>1, <1>4, <1>5, <1>6, <1>7

(* Whoever builds holds the write lock, so that there is one client at most *)
(* under construction; otherwise b.client is the cached one.                *)
LEMMA CachedIs ==
  ASSUME TypeOK, MutualExclusion
  PROVE  /\ (\A p \in Procs : pc[p] # "build") => Cached = ClientOfVersion(client)
         /\ \A p \in Procs : pc[p] = "build" =>
              Cached = ClientOfVersion(IF Building(p) THEN call[p].seen ELSE 0)
BY CacheAssumption DEF Cached, TypeOK, MutualExclusion

LEMMA CachedWillBe ==
  ASSUME TypeOK', MutualExclusion'
  PROVE  /\ (\A p \in Procs : pc'[p] # "build") => Cached' = ClientOfVersion(client)'
         /\ \A p \in Procs : pc'[p] = "build" =>
              Cached' = ClientOfVersion(IF Building(p) THEN call[p].seen ELSE 0)'
BY CacheAssumption DEF Cached, TypeOK, MutualExclusion

(* The cached client changes only with b.client or by a build. *)
LEMMA SameCached ==
  ASSUME IInv, [Next]_vars, UNCHANGED client,
         \A q \in Procs : pc[q] = "build" => pc'[q] = pc[q] /\ call'[q] = call[q],
         \A q \in Procs : pc'[q] = "build" => pc[q] = "build"
  PROVE  Cached' = Cached
<1>1. TypeOK /\ MutualExclusion /\ TypeOK' /\ MutualExclusion'
  BY TypeStep, LockStep DEF IInv
<1>2. ASSUME NEW q \in Procs, pc[q] = "build" PROVE Cached' = Cached
  <2>1. Building(q)' <=> Building(q)
    BY <1>2, SameConn
  <2>2. call[q].seen \in 0 .. Stored /\ 0 \in 0 .. Stored
    BY <1>1, HistGrows DEF TypeOK, Call, IInv, CallInv
  <2>3. PICK v \in 0 .. Stored : v = IF Building(q) THEN call[q].seen ELSE 0
    BY <2>2
  <2>4. Cached = ClientOfVersion(v) /\ Cached' = ClientOfVersion(v)'
    BY <1>1, <1>2, <2>1, <2>3, CachedIs, CachedWillBe DEF ClientOfVersion
  <2> QED
    BY <2>4, SameClientOfVersion
<1>3. ASSUME \A q \in Procs : pc[q] # "build" PROVE Cached' = Cached
  <2>1. client \in 0 .. Stored
    BY <1>1 DEF TypeOK
  <2>2. Cached = ClientOfVersion(client) /\ Cached' = ClientOfVersion(client)'
    BY <1>1, <1>3, CachedIs, CachedWillBe
  <2> QED
    BY <2>1, <2>2, SameClientOfVersion
<1> QED
  BY <1>2, <1>3

LEMMA AtomicInit == Init => Atomic!CacheInit
<1> SUFFICES ASSUME Init PROVE Atomic!CacheInit
  OBVIOUS
<1>1. hist[Stored] = NoConfig
  BY DEF Init, Stored
<1>2. Cached = NoConfig
  BY DEF Init, Cached, ClientOfVersion
<1>3. Resetting = {}
  BY DEF Init, Resetting
<1>4. \A p \in Procs : Conn(p) = NoConfig
  BY DEF Init, Conn, ClientOfVersion, Building
<1> QED
  BY <1>1, <1>2, <1>3, <1>4 DEF Atomic!CacheInit

(* Every step is one of the atomic cache's, or changes nothing it sees. *)
LEMMA AtomicStep == IInv /\ Valid /\ [Next]_vars => [Atomic!CacheNext]_(Atomic!cacheVars)
<1> SUFFICES ASSUME IInv, Valid, [Next]_vars
             PROVE  [Atomic!CacheNext]_(Atomic!cacheVars)
  OBVIOUS
<1>0. /\ Stored \in Nat \ {0} /\ client \in 0 .. Stored
      /\ pc \in [Procs -> PC] /\ call \in [Procs -> Call]
      /\ TypeOK /\ MutualExclusion /\ CallInv /\ TypeOK' /\ MutualExclusion'
  BY HistGrows, TypeStep, LockStep DEF IInv, TypeOK
<1> USE <1>0
<1>1. ASSUME UNCHANGED hist, Cached' = Cached, Resetting' = Resetting, Conns' = Conns
      PROVE  UNCHANGED Atomic!cacheVars
  BY <1>1 DEF Atomic!cacheVars, Conns, Stored
<1>2. ASSUME NEW p \in Procs,
             \/ AnnounceLock(p) \/ AcquireLock(p) \/ RLock(p) \/ LoadFails(p)
             \/ ReadForWrite(p) \/ StorageFails(p)
             \/ BeginGet(p) \/ BeginDelete(p) \/ \E q \in Requests : BeginWrite(p, q)
      PROVE  UNCHANGED Atomic!cacheVars
  <2>1. /\ UNCHANGED <<hist, client>>
        /\ \A q \in Procs \ {p} : pc'[q] = pc[q] /\ call'[q] = call[q]
        /\ pc[p] \notin {"build", "served"} /\ pc'[p] \notin {"build", "served"}
    BY <1>2 DEF AnnounceLock, AcquireLock, RLock, LoadFails, ReadForWrite, StorageFails,
       BeginGet, BeginDelete, BeginWrite, Goto, See, Return, Begin, shared
  <2>2. Cached' = Cached
    BY <2>1, SameCached
  <2>3. Conn(p)' = Conn(p)
    BY <2>1 DEF Conn, Building, ClientOfVersion
  <2>4. (p \in Resetting)' <=> p \in Resetting
    BY <1>2 DEF AnnounceLock, AcquireLock, RLock, LoadFails, ReadForWrite, StorageFails,
       BeginGet, BeginDelete, BeginWrite, Goto, See, Return, Begin, shared, Resetting,
       NoCall, CallInv
  <2> QED
    BY <1>1, <2>1, <2>2, <2>3, <2>4, OneConn
<1>3. ASSUME NEW p \in Procs, CheckCache(p) PROVE [Atomic!CacheNext]_(Atomic!cacheVars)
  <2>1. /\ UNCHANGED <<hist, client>>
        /\ \A q \in Procs \ {p} : pc'[q] = pc[q] /\ call'[q] = call[q]
        /\ pc[p] = "check" /\ pc'[p] \in {"served", "lock"}
        /\ call[p].op = "get" /\ call'[p].op = "get"
    BY <1>3 DEF CheckCache, Goto, See, shared, CallInv, Call
  <2>2. Cached' = Cached
    BY <2>1, SameCached
  <2>3. Resetting' = Resetting
    BY <2>1, OneConn DEF Resetting
  <2>4. Conn(p) = NoConfig
    BY <2>1 DEF Conn, Building, ClientOfVersion
  <2>5. CASE client # 0
    <3>1. pc'[p] = "served" /\ call'[p].seen = client
      BY <1>3, <2>5 DEF CheckCache, Goto, See, Call
    <3>2. \A q \in Procs : pc[q] # "build"
      BY <2>1 DEF MutualExclusion
    <3>3. Cached = ClientOf(hist[client])
      BY <2>5, <3>2, CachedIs DEF ClientOfVersion
    <3>4. Conn(p)' = Cached
      BY <2>1, <2>5, <3>1, <3>3 DEF Conn, ClientOfVersion
    <3>5. Cached # NoConfig
      BY <2>5, <3>3, ClientNotNil DEF Valid, TypeOK, Stored
    <3>6. Conns' = [Conns EXCEPT ![p] = Cached']
      BY <2>1, <2>2, <3>4, OneConn
    <3>7. Atomic!Get(p)
      BY <2>1, <2>2, <2>3, <2>4, <3>5, <3>6 DEF Atomic!Get, Conns, Stored
    <3> QED
      BY <3>7 DEF Atomic!CacheNext
  <2>6. CASE client = 0
    <3>1. pc'[p] = "lock"
      BY <1>3, <2>6 DEF CheckCache, Goto
    <3>2. Conn(p)' = Conn(p)
      BY <2>4, <3>1 DEF Conn, Building, ClientOfVersion
    <3> QED
      BY <1>1, <2>1, <2>2, <2>3, <3>2, OneConn
  <2> QED
    BY <2>5, <2>6
<1>4. ASSUME NEW p \in Procs, Load(p) PROVE [Atomic!CacheNext]_(Atomic!cacheVars)
  <2>1. /\ UNCHANGED <<hist, client>>
        /\ \A q \in Procs \ {p} : pc'[q] = pc[q] /\ call'[q] = call[q]
        /\ pc[p] = "load" /\ call[p].op = "get" /\ call'[p].op = "get"
        /\ call'[p].seen = Stored
    BY <1>4 DEF Load, Goto, See, shared, Call
  <2>2. Resetting' = Resetting
    BY <2>1, OneConn DEF Resetting
  <2>3. Conn(p) = NoConfig
    BY <2>1 DEF Conn, Building, ClientOfVersion
  <2>4. \A q \in Procs : pc[q] # "build"
    BY <2>1 DEF MutualExclusion
  <2>5. CASE hist[Stored] = NoConfig
    <3>1. pc'[p] = "refused"
      BY <1>4, <2>5 DEF Load, Goto
    <3>2. Conn(p)' = Conn(p)
      BY <2>3, <3>1 DEF Conn, Building, ClientOfVersion
    <3>3. Cached' = Cached
      BY <2>1, <2>4, <3>1, SameCached
    <3> QED
      BY <1>1, <2>1, <2>2, <3>2, <3>3, OneConn
  <2>6. CASE hist[Stored] # NoConfig /\ Usable(hist[Stored])
    <3>1. pc'[p] = "build"
      BY <1>4, <2>6 DEF Load, Goto
    <3>2. Building(p)'
      BY <2>1, <2>6, <3>1 DEF Building
    <3>3. Conn(p)' = ClientOf(hist[Stored]) /\ Cached' = ClientOf(hist[Stored])
      BY <2>1, <3>1, <3>2, CachedWillBe DEF Conn, ClientOfVersion
    <3>4. Conns' = [Conns EXCEPT ![p] = Cached']
      BY <2>1, <3>3, OneConn
    <3>5. Atomic!CanBuild /\ Cached' = Atomic!ClientOf(hist[Stored])
      BY <2>6, <3>3, SameAtomicClients DEF Atomic!CanBuild
    <3>6. Atomic!Get(p)
      BY <2>1, <2>2, <2>3, <3>4, <3>5 DEF Atomic!Get, Conns, Stored
    <3> QED
      BY <3>6 DEF Atomic!CacheNext
  <2>7. CASE hist[Stored] # NoConfig /\ ~Usable(hist[Stored])
    <3>1. pc'[p] = "build"
      BY <1>4, <2>7 DEF Load, Goto
    <3>2. ~Building(p)'
      BY <2>1, <2>7, <3>1 DEF Building
    <3>3. Conn(p)' = Conn(p) /\ Cached' = NoConfig
      BY <2>3, <3>1, <3>2, CachedWillBe DEF Conn, ClientOfVersion
    <3>4. Conns' = Conns
      BY <2>1, <3>3, OneConn
    <3>5. Atomic!GetFails
      BY <2>1, <2>2, <2>7, <3>3, <3>4, SameAtomicClients DEF Atomic!GetFails, Conns, Stored
    <3> QED
      BY <3>5 DEF Atomic!CacheNext
  <2> QED
    BY <2>5, <2>6, <2>7
<1>5. ASSUME NEW p \in Procs, Build(p) PROVE UNCHANGED Atomic!cacheVars
  <2>1. /\ UNCHANGED <<hist, call>>
        /\ \A q \in Procs \ {p} : pc'[q] = pc[q] /\ call'[q] = call[q]
        /\ pc[p] = "build" /\ pc'[p] \in {"served", "refused"}
        /\ Building(p) => pc'[p] = "served" /\ client' = call[p].seen
        /\ ~Building(p) => pc'[p] = "refused" /\ client' = 0
    BY <1>5 DEF Build, Goto, Building
  <2>2. Resetting' = Resetting
    BY <2>1, OneConn DEF Resetting
  <2>3. \A q \in Procs : pc'[q] # "build"
    BY <2>1 DEF MutualExclusion
  <2>4. Cached' = Cached
    BY <2>1, <2>3, CachedIs, CachedWillBe DEF ClientOfVersion
  <2>5. Conn(p)' = Conn(p)
    BY <2>1, <2>3 DEF Conn, ClientOfVersion, Building
  <2> QED
    BY <1>1, <2>1, <2>2, <2>4, <2>5, OneConn
<1>6. ASSUME NEW p \in Procs, EndGet(p) PROVE [Atomic!CacheNext]_(Atomic!cacheVars)
  <2>1. /\ UNCHANGED <<hist, client>>
        /\ \A q \in Procs \ {p} : pc'[q] = pc[q] /\ call'[q] = call[q]
        /\ pc[p] \in {"served", "refused", "failed"} /\ pc'[p] = "idle"
    BY <1>6 DEF EndGet, Return, Goto, shared
  <2>2. Resetting' = Resetting
    BY <2>1, OneConn DEF Resetting
  <2>3. Cached' = Cached
    BY <2>1, SameCached
  <2>4. Conn(p)' = NoConfig
    BY <2>1 DEF Conn, Building, ClientOfVersion
  <2>5. Conns' = [Conns EXCEPT ![p] = NoConfig]
    BY <2>1, <2>4, OneConn
  <2>6. Atomic!LetGo(p)
    BY <2>1, <2>2, <2>3, <2>5 DEF Atomic!LetGo, Conns, Stored
  <2> QED
    BY <2>6 DEF Atomic!CacheNext
<1>7. ASSUME NEW p \in Procs, NEW c \in Config \cup {NoConfig}, hist' = Append(hist, c),
             UNCHANGED client, pc[p] \in {"put", "remove", "idle"},
             pc'[p] \in {"idle", "lock"},
             \A q \in Procs \ {p} : pc'[q] = pc[q] /\ call'[q] = call[q]
      PROVE  Atomic!CacheNext
  <2>1. hist'[Stored'] = c
    BY <1>7, HistType DEF Stored, TypeOK
  <2>2. p \notin Resetting
    BY <1>7 DEF Resetting
  <2>3. Resetting' \in {Resetting, Resetting \cup {p}}
    BY <1>7, <2>2, OneConn
  <2>4. Cached' = Cached
    BY <1>7, SameCached
  <2>5. Conn(p)' = Conn(p)
    BY <1>7 DEF Conn, Building, ClientOfVersion
  <2>6. Conns' = Conns
    BY <1>7, <2>5, OneConn
  <2>7. Atomic!Change(p)
    BY <2>1, <2>2, <2>3, <2>4, <2>6, SameAtomicConfigs DEF Atomic!Change, Conns
  <2> QED
    BY <2>7 DEF Atomic!CacheNext
<1>8. ASSUME NEW p \in Procs, Put(p) PROVE Atomic!CacheNext
  <2> DEFINE c == MergedInto(call[p].seen, call[p].req)
  <2>1. /\ pc[p] = "put" /\ hist' = Append(hist, c) /\ UNCHANGED client
        /\ pc'[p] \in {"idle", "lock"}
        /\ \A q \in Procs \ {p} : pc'[q] = pc[q] /\ call'[q] = call[q]
    BY <1>8 DEF Put, Change, Goto, See, Return
  <2>2. c \in Config
    BY <2>1, PutType
  <2> HIDE DEF c
  <2> QED
    BY <1>7, <2>1, <2>2
<1>9. ASSUME NEW p \in Procs, Remove(p) PROVE Atomic!CacheNext
  <2>1. /\ pc[p] = "remove" /\ hist' = Append(hist, NoConfig) /\ UNCHANGED client
        /\ pc'[p] \in {"idle", "lock"}
        /\ \A q \in Procs \ {p} : pc'[q] = pc[q] /\ call'[q] = call[q]
    BY <1>9 DEF Remove, Change, Goto, See, Return
  <2> QED
    BY <1>7, <2>1
<1>10. ASSUME NEW p \in Procs, NEW c \in Config \cup {NoConfig}, Replicate(p, c)
       PROVE  Atomic!CacheNext
  <2>1. /\ pc[p] = "idle" /\ hist' = Append(hist, c) /\ UNCHANGED client
        /\ pc'[p] = "lock"
        /\ \A q \in Procs \ {p} : pc'[q] = pc[q] /\ call'[q] = call[q]
    BY <1>10 DEF Replicate, Begin, Goto
  <2> QED
    BY <1>7, <2>1
<1>11. ASSUME NEW q \in Requests PROVE Merge(EmptyConfig, q) \in Config
  BY <1>11, CacheAssumption, MergeType, EmptyConfigType
<1>12. ASSUME NEW p \in Procs, Clear(p) PROVE Atomic!CacheNext
  <2>1. /\ UNCHANGED hist /\ client' = 0
        /\ \A q \in Procs \ {p} : pc'[q] = pc[q] /\ call'[q] = call[q]
        /\ pc[p] = "load" /\ call[p].op # "get" /\ pc'[p] = "idle"
    BY <1>12 DEF Clear, Return, Goto
  <2>2. p \in Resetting /\ p \notin Resetting'
    BY <2>1 DEF Resetting
  <2>3. Resetting' = Resetting \ {p}
    BY <2>1, <2>2, OneConn
  <2>4. \A q \in Procs : pc'[q] # "build"
    BY <2>1 DEF MutualExclusion
  <2>5. Cached' = NoConfig
    BY <2>1, <2>4, CachedWillBe DEF ClientOfVersion
  <2>6. Conn(p)' = Conn(p)
    BY <2>1 DEF Conn, Building, ClientOfVersion
  <2>7. Conns' = Conns
    BY <2>1, <2>6, OneConn
  <2>8. Atomic!Reset(p)
    BY <2>1, <2>2, <2>3, <2>5, <2>7 DEF Atomic!Reset, Conns, Stored
  <2> QED
    BY <2>8 DEF Atomic!CacheNext
<1>13. ASSUME Restart PROVE Atomic!CacheNext
  <2>1. UNCHANGED hist /\ client' = 0 /\ \A p \in Procs : pc'[p] = "idle"
    BY <1>13 DEF Restart
  <2>2. Cached' = NoConfig
    BY <2>1, CachedWillBe DEF ClientOfVersion
  <2>3. Resetting' = {}
    BY <2>1 DEF Resetting
  <2>4. \A p \in Procs : Conn(p)' = NoConfig
    BY <2>1 DEF Conn, Building, ClientOfVersion
  <2>5. Atomic!Die
    BY <2>1, <2>2, <2>3, <2>4 DEF Atomic!Die, Stored
  <2> QED
    BY <2>5 DEF Atomic!CacheNext
<1>14. ASSUME UNCHANGED vars PROVE UNCHANGED Atomic!cacheVars
  BY <1>14 DEF vars, Atomic!cacheVars, Stored, Cached, Resetting, Conn, Building,
     ClientOfVersion
<1> QED
  BY <1>2, <1>3, <1>4, <1>5, <1>6, <1>8, <1>9, <1>10, <1>11, <1>12, <1>13, <1>14
  DEF Next, Step, Start

(* getClient and reset, with their lock, their waiting and their reads of   *)
(* the storage, are the single steps that the requests of Credentials are   *)
(* made of.  (backend.go:58-106, path_config.go:154-250)                    *)
THEOREM AtomicCacheKept == Spec => ImplementsAtomicCache
<1>1. Init => Valid
  BY DEF Init, Valid
<1>2. Spec => []Valid
  BY <1>1, Invariance, ValidStep, PTL DEF Spec
<1> QED
  BY <1>2, Invariance, AtomicInit, AtomicStep, PTL
  DEF Spec, ImplementsAtomicCache, Atomic!CacheSpec

-----------------------------------------------------------------------------
(* What a sequence of config writes makes of the configuration *)

(* A write that is sent again, or corrected by one that supplies at least   *)
(* its fields, leaves no trace of the first.  (path_config.go:163-197)      *)
THEOREM LaterWriteWins ==
  ASSUME NEW c \in Config, NEW q, IsRequest(q), NEW r, IsRequest(r),
         DOMAIN q \subseteq DOMAIN r
  PROVE  Merge(Merge(c, q), r) = Merge(c, r)
<1>1. ASSUME NEW f \in Field PROVE Merge(Merge(c, q), r)[f] = Merge(c, r)[f]
  <2>1. CASE f \in DOMAIN r
    BY <2>1 DEF Merge
  <2>2. CASE f \notin DOMAIN r
    <3>1. Merge(c, q)[f] = IF f = "realm" /\ c[f] = "" THEN "master" ELSE c[f]
      BY <2>2 DEF Merge
    <3> QED
      BY <2>2, <3>1 DEF Merge
  <2> QED
    BY <2>1, <2>2
<1> QED
  BY <1>1 DEF Merge

(* Writes that supply different fields, one after the other, make the same  *)
(* client and go to the same secret of KV in either order.  What is stored  *)
(* may differ: an empty realm stays empty only if it is written last.       *)
(* (path_config.go:163-197, client.go:36-69, path_credentials.go:91-97)     *)
THEOREM SeparateWritesCommute ==
  ASSUME NEW c \in Config, NEW q, IsRequest(q), NEW r, IsRequest(r),
         DOMAIN q \cap DOMAIN r = {}
  PROVE  LET one == Merge(Merge(c, q), r)
             other == Merge(Merge(c, r), q)
         IN  /\ Usable(one) <=> Usable(other)
             /\ ClientOf(one) = ClientOf(other)
             /\ KVConfigured(one) <=> KVConfigured(other)
             /\ KVAddr(one) = KVAddr(other)
             /\ \A f \in Field \ {"realm"} : one[f] = other[f]
<1>1. PICK one \in Config, other \in Config :
        one = Merge(Merge(c, q), r) /\ other = Merge(Merge(c, r), q)
  BY MergeType
<1>2. ASSUME NEW f \in Field \ {"realm"} PROVE one[f] = other[f]
  BY <1>1 DEF Merge
<1>3. OrElse(one["realm"], "master") = OrElse(other["realm"], "master")
  <2>1. "realm" \in Field
    BY DEF Field
  <2>2. CASE "realm" \in DOMAIN q
    BY <1>1, <2>1, <2>2 DEF Merge, OrElse
  <2>3. CASE "realm" \in DOMAIN r
    BY <1>1, <2>1, <2>3 DEF Merge, OrElse
  <2>4. CASE "realm" \notin DOMAIN q \cup DOMAIN r
    BY <1>1, <2>1, <2>4 DEF Merge, OrElse
  <2> QED
    BY <2>2, <2>3, <2>4
<1>4. /\ one["url"] = other["url"]
      /\ one["target_realm"] = other["target_realm"]
      /\ one["client_id"] = other["client_id"]
      /\ one["master_admin_username"] = other["master_admin_username"]
      /\ one["master_admin_password"] = other["master_admin_password"]
      /\ one["kv_mount_path"] = other["kv_mount_path"]
      /\ one["kv_secret_path"] = other["kv_secret_path"]
      /\ one["kv_api_addr"] = other["kv_api_addr"]
  BY <1>2 DEF Field
<1>5. Usable(one) <=> Usable(other)
  BY <1>4 DEF Usable
<1>6. ClientOf(one) = ClientOf(other)
  BY <1>3, <1>4 DEF ClientOf
<1>7. (KVConfigured(one) <=> KVConfigured(other)) /\ KVAddr(one) = KVAddr(other)
  BY <1>4 DEF KVConfigured, KVAddr
<1> QED
  BY <1>1, <1>2, <1>5, <1>6, <1>7
=============================================================================
