----------------------------- MODULE ClientCache -----------------------------
(***************************************************************************)
(* The cached Keycloak client of the backend (backend.go) and the handlers *)
(* that change the stored configuration (path_config.go).  Vault core runs *)
(* every request in a goroutine of its own; they share the cached client,  *)
(* guarded by a sync.RWMutex, and the storage, guarded by nothing here.    *)
(*                                                                         *)
(* The storage is modelled by the history of what it held, so that a       *)
(* configuration, and the client built from it, are named by their index   *)
(* in that history: the entry in force is hist[Len(hist)], the cached      *)
(* client is ClientOf(hist[client]), and client = 0 is Go's nil.           *)
(***************************************************************************)
EXTENDS Backend, Config, Naturals, Sequences

CONSTANTS
  Requests,     \* the config writes that operators send
  NoConfig,     \* the storage entry is absent
  NoProc,       \* nobody holds or awaits the write lock
  MaxVersions   \* bound on the configurations stored in one behaviour

ASSUME CacheAssumption ==
  /\ \A q \in Requests : IsRequest(q)
  /\ NoProc \notin Procs
  /\ NoConfig \notin Config \cup Client
  /\ MaxVersions \in Nat \ {0}

VARIABLES
  hist,     \* what was stored under "config", oldest first
  client,   \* b.client: the version it was built from, 0 for nil
  readers,  \* the goroutines that hold the read lock
  writer,   \* the goroutine that holds the write lock or drains the readers
  pc,       \* where each goroutine is
  call,     \* what it runs, and that call's local variables
  acked,    \* history: the newest version whose change was acknowledged
  unacked   \* history: the newest version stored by a call that reported an
            \* error, since the last reset; 0 if none

shared == <<hist, client, acked, unacked>>
lock == <<readers, writer>>
vars == <<hist, client, readers, writer, pc, call, acked, unacked>>

Stored == Len(hist)
Op == {"none", "get", "write", "delete", "invalidate"}
PC == {"idle", "rlock", "check", "lock", "drain", "load", "build",
       "served", "refused", "failed", "read", "put", "remove"}

NoRequest == <<>>

\* seen is the version the call last read or stored, floor (history) what
\* was acknowledged when a getClient or a write began.
Call == [op : Op, seen : Nat, req : Requests \cup {NoRequest}, floor : Nat]
NoCall == [op |-> "none", seen |-> 0, req |-> NoRequest, floor |-> 0]

TypeOK ==
  /\ hist \in Seq(Config \cup {NoConfig})
  /\ client \in 0 .. Stored
  /\ readers \subseteq Procs
  /\ writer \in Procs \cup {NoProc}
  /\ pc \in [Procs -> PC]
  /\ call \in [Procs -> Call]
  /\ acked \in 1 .. Stored
  /\ unacked \in 0 .. Stored

Init ==
  /\ hist = <<NoConfig>>
  /\ client = 0
  /\ readers = {}
  /\ writer = NoProc
  /\ pc = [p \in Procs |-> "idle"]
  /\ call = [p \in Procs |-> NoCall]
  /\ acked = 1
  /\ unacked = 0

Goto(p, from, to) == pc[p] = from /\ pc' = [pc EXCEPT ![p] = to]

Begin(p, to, c) == Goto(p, "idle", to) /\ call' = [call EXCEPT ![p] = c]

Return(p, from) == Goto(p, from, "idle") /\ call' = [call EXCEPT ![p] = NoCall]

See(p, v) == call' = [call EXCEPT ![p].seen = v]

-----------------------------------------------------------------------------
(* sync.RWMutex: a goroutine that wants the write lock first shuts out new  *)
(* readers and other writers, then waits for the readers inside to leave.   *)

AnnounceLock(p) ==
  /\ Goto(p, "lock", "drain")
  /\ writer = NoProc
  /\ writer' = p
  /\ UNCHANGED <<shared, readers, call>>

\* Slip: the writer does not wait for the readers inside.
AcquireLockEarly(p) ==
  /\ Goto(p, "drain", "load")
  /\ writer = p
  /\ UNCHANGED <<shared, lock, call>>

\* b.lock.Lock() returns: getClient goes on to load the configuration, reset
\* to its only assignment (Clear).
AcquireLock(p) ==
  /\ Goto(p, "drain", "load")
  /\ writer = p
  /\ readers = {}
  /\ UNCHANGED <<shared, lock, call>>

-----------------------------------------------------------------------------
(* getClient *)

BeginGet(p) ==
  /\ Begin(p, "rlock", [NoCall EXCEPT !.op = "get", !.floor = acked])
  /\ UNCHANGED <<shared, lock>>

RLock(p) ==
  /\ Goto(p, "rlock", "check")
  /\ writer = NoProc
  /\ readers' = readers \cup {p}
  /\ UNCHANGED <<shared, writer, call>>

\* Slip: the read lock is kept while the write lock is waited for.
CheckCacheHolding(p) ==
  /\ \/ /\ client # 0 /\ Goto(p, "check", "served") /\ See(p, client)
        /\ readers' = readers \ {p}
     \/ /\ client = 0 /\ Goto(p, "check", "lock")
        /\ UNCHANGED <<call, readers>>
  /\ UNCHANGED <<shared, writer>>

\* The read lock is released either way; without a client the write lock is
\* taken next, and b.client is not looked at again.
CheckCache(p) ==
  /\ \/ client # 0 /\ Goto(p, "check", "served") /\ See(p, client)
     \/ client = 0 /\ Goto(p, "check", "lock") /\ UNCHANGED call
  /\ readers' = readers \ {p}
  /\ UNCHANGED <<shared, writer>>

\* Slip: the write lock is released around the storage call.
LoadUnlocked(p) ==
  /\ pc[p] = "load"
  /\ call[p].op = "get"
  /\ See(p, Stored)
  /\ Goto(p, "load", IF hist[Stored] = NoConfig THEN "refused" ELSE "build")
  /\ writer' = NoProc
  /\ UNCHANGED <<shared, readers>>

\* getConfig under the write lock.
Load(p) ==
  /\ pc[p] = "load"
  /\ call[p].op = "get"
  /\ See(p, Stored)
  /\ \/ hist[Stored] # NoConfig /\ Goto(p, "load", "build") /\ UNCHANGED writer
     \/ hist[Stored] = NoConfig /\ Goto(p, "load", "refused") /\ writer' = NoProc
  /\ UNCHANGED <<shared, readers>>

LoadFails(p) ==
  /\ call[p].op = "get"
  /\ Goto(p, "load", "failed")
  /\ writer' = NoProc
  /\ UNCHANGED <<shared, readers, call>>

\* newClient; its error leaves b.client nil.
Build(p) ==
  /\ pc[p] = "build"
  /\ \/ /\ Usable(hist[call[p].seen])
        /\ Goto(p, "build", "served")
        /\ client' = call[p].seen
     \/ /\ ~Usable(hist[call[p].seen])
        /\ Goto(p, "build", "refused")
        /\ client' = 0
  /\ writer' = NoProc
  /\ UNCHANGED <<hist, acked, unacked, readers, call>>

\* The handler is done with the client, or with the error, it was answered.
EndGet(p) ==
  /\ \E answer \in {"served", "refused", "failed"} : Return(p, answer)
  /\ UNCHANGED <<shared, lock>>

-----------------------------------------------------------------------------
(* pathConfigWrite, pathConfigDelete, invalidate *)

BeginWrite(p, q) ==
  /\ Begin(p, "read", [NoCall EXCEPT !.op = "write", !.req = q, !.floor = acked])
  /\ UNCHANGED <<shared, lock>>

\* Slip: an error of getConfig is taken for an absent entry.
ReadUnchecked(p) ==
  /\ Goto(p, "read", "put")
  /\ \E v \in {1, Stored} : See(p, v)
  /\ UNCHANGED <<shared, lock>>

\* getConfig outside any lock.
ReadForWrite(p) ==
  /\ Goto(p, "read", "put")
  /\ See(p, Stored)
  /\ UNCHANGED <<shared, lock>>

BeginDelete(p) ==
  /\ Begin(p, "remove", [NoCall EXCEPT !.op = "delete"])
  /\ UNCHANGED <<shared, lock>>

\* A storage call that returns an error, here without effect, ends the handler.
StorageFails(p) ==
  /\ Return(p, "read") \/ Return(p, "put") \/ Return(p, "remove")
  /\ UNCHANGED <<shared, lock>>

\* Slip: the handler returns without calling reset.
ChangeNoReset(p, from, config) ==
  /\ pc[p] = from
  /\ Stored < MaxVersions
  /\ hist' = Append(hist, config)
  /\ Return(p, from)
  /\ UNCHANGED <<client, acked, unacked, lock>>

\* The entry changes.  A call that also returns without error goes on to
\* reset; one whose error hides that it took effect ends the handler.
Change(p, from, config) ==
  /\ pc[p] = from
  /\ Stored < MaxVersions
  /\ hist' = Append(hist, config)
  /\ \/ Goto(p, from, "lock") /\ See(p, Stored + 1) /\ UNCHANGED unacked
     \/ Return(p, from) /\ unacked' = Stored + 1
  /\ UNCHANGED <<client, acked, lock>>

\* Slip: what the request leaves out is lost instead of kept.
PutUnmerged(p) == Change(p, "put", call[p].req)

\* What a write stores that read version v.
MergedInto(v, q) ==
  Merge(IF hist[v] = NoConfig THEN EmptyConfig ELSE hist[v], q)

Put(p) == Change(p, "put", MergedInto(call[p].seen, call[p].req))

Remove(p) == Change(p, "remove", NoConfig)

\* Slip: reset takes the lock and forgets the assignment.
ClearNothing(p) ==
  /\ call[p].op # "get"
  /\ acked' = IF call[p].seen > acked THEN call[p].seen ELSE acked
  /\ Return(p, "load")
  /\ writer' = NoProc
  /\ unacked' = 0
  /\ UNCHANGED <<hist, client, readers>>

\* b.client = nil under the write lock.  The change is thereby acknowledged.
Clear(p) ==
  /\ call[p].op # "get"
  /\ acked' = IF call[p].seen > acked THEN call[p].seen ELSE acked
  /\ Return(p, "load")
  /\ client' = 0
  /\ writer' = NoProc
  /\ unacked' = 0
  /\ UNCHANGED <<hist, readers>>

-----------------------------------------------------------------------------
(* Vault core *)

\* On a standby the entry is replicated from the active node, and Vault then
\* calls invalidate("config").
Replicate(p, config) ==
  /\ Stored < MaxVersions
  /\ hist' = Append(hist, config)
  /\ Begin(p, "lock", [NoCall EXCEPT !.op = "invalidate", !.seen = Stored + 1])
  /\ UNCHANGED <<client, acked, unacked, lock>>

\* The plugin process dies: what it held in memory is gone, the storage stays.
\* (Dying while idle is dying right after a call began.)
Restart ==
  /\ \E p \in Procs : pc[p] # "idle"
  /\ client' = 0
  /\ readers' = {}
  /\ writer' = NoProc
  /\ pc' = [p \in Procs |-> "idle"]
  /\ call' = [p \in Procs |-> NoCall]
  /\ unacked' = 0
  /\ UNCHANGED <<hist, acked>>

-----------------------------------------------------------------------------
Step(p) ==
  \/ AnnounceLock(p) \/ AcquireLock(p)
  \/ RLock(p) \/ CheckCache(p) \/ Load(p) \/ LoadFails(p) \/ Build(p) \/ EndGet(p)
  \/ ReadForWrite(p) \/ Put(p) \/ Remove(p) \/ StorageFails(p) \/ Clear(p)

Start(p) ==
  \/ BeginGet(p) \/ BeginDelete(p) \/ Replicate(p, NoConfig)
  \/ \E q \in Requests : BeginWrite(p, q) \/ Replicate(p, Merge(EmptyConfig, q))

Next == \/ \E p \in Procs : Step(p) \/ Start(p)
        \/ Restart

Spec == Init /\ [][Next]_vars

\* Storage calls return, and Go's locks do not starve: a waiting reader is let
\* in before the next writer, and a waiting writer eventually gets the mutex.
Fairness ==
  \A p \in Procs : WF_vars(Step(p)) /\ SF_vars(RLock(p)) /\ SF_vars(AnnounceLock(p))

FairSpec == Spec /\ Fairness

-----------------------------------------------------------------------------
(* The lock does its work: while a goroutine loads, builds or clears under  *)
(* the write lock, no other does, and none checks the cache under the read  *)
(* lock.  (backend.go:59-63, 74-105)                                        *)
MutualExclusion ==
  \A p \in Procs :
     /\ pc[p] = "check" <=> p \in readers
     /\ pc[p] \in {"drain", "load", "build"} <=> writer = p
     /\ pc[p] \in {"load", "build"} => readers = {}

(* getClient never answers with a client older than the configuration that  *)
(* was acknowledged before the call began, whatever fills, resets, crashes  *)
(* and failed writes ran meanwhile.  (backend.go:73-106, path_config.go:207) *)
ServedFresh ==
  \A p \in Procs : pc[p] \in {"served", "refused"} => call[p].seen >= call[p].floor

(* A cached client of a superseded configuration is there only until a      *)
(* reset that is on its way, or because a storage call reported an error    *)
(* although it took effect (path_config.go:203-205, 245-247), which skips   *)
(* the reset.                                                               *)
ResetPending(v) ==
  \E p \in Procs : /\ call[p].op # "get"
                   /\ pc[p] \in {"lock", "drain", "load"}
                   /\ call[p].seen > v

Coherent ==
  client # 0 /\ client < Stored => unacked > client \/ ResetPending(client)

(* A config write loses nothing that was acknowledged before it began: what *)
(* it stores is its request merged into a configuration at least as new.    *)
(* Of writes that overlap one may lose the other's fields, and no more than *)
(* that is promised.  (path_config.go:155-207)                              *)
WritesBuildOnAcked ==
  [][\A p \in Procs :
       pc[p] = "put" /\ pc'[p] # "put" /\ hist' # hist
       => \E v \in call[p].floor .. Stored :
             hist'[Stored + 1] = MergedInto(v, call[p].req)]_vars

(* The locks leave no cycle of waits: whenever a goroutine waits for the    *)
(* mutex, one of those that hold it, as a reader or as a writer, is not     *)
(* waiting itself.  (backend.go:74-86)                                      *)
Waits(p) ==
  \/ pc[p] \in {"rlock", "lock"} /\ writer # NoProc
  \/ pc[p] = "drain" /\ readers # {}

LockIsHandedOn ==
  \A p \in Procs :
     Waits(p) => \E q \in readers \cup {writer} : q \in Procs /\ ~Waits(q)

(* Every call, of getClient and of a config handler, returns: the release   *)
(* of the read lock before the write lock is taken leaves no cycle of waits. *)
(* (backend.go:73-106)                                                      *)
EveryCallReturns == \A p \in Procs : pc[p] # "idle" ~> pc[p] = "idle"

(* A superseded client is eventually dropped, unless a storage call hid     *)
(* that it took effect.  (backend.go:59-70, path_config.go:207, 248)        *)
StaleIsDropped ==
  \A v \in 1 .. MaxVersions :
     (client = v /\ v < Stored /\ unacked <= v) ~> client # v

(* getClient implements its cache-free promise.  (backend.go:73-106)        *)
Asked(p) ==
  \/ pc[p] \in {"rlock", "check"}
  \/ pc[p] \in {"lock", "drain", "load", "build"} /\ call[p].op = "get"

Promise == INSTANCE ClientProvider WITH
  versions <- hist,
  call <- [p \in Procs |->
     CASE Asked(p)           -> [kind |-> "asked", floor |-> call[p].floor]
       [] pc[p] = "served"   -> [kind |-> "client",
                                 client |-> ClientOf(hist[call[p].seen])]
       [] pc[p] = "refused"  -> [kind |-> "refused"]
       [] pc[p] = "failed"   -> [kind |-> "failed"]
       [] OTHER              -> [kind |-> "none"]]

ImplementsPromise == Promise!Spec

(* For the handlers that use it, getClient is one step, taken when it finds *)
(* the cache filled or loads the configuration; a client being built under  *)
(* the write lock counts as cached.  (backend.go:58-106)                    *)
ClientOfVersion(v) == IF v = 0 THEN NoConfig ELSE ClientOf(hist[v])

Building(p) == pc[p] = "build" /\ Usable(hist[call[p].seen])

Cached ==
  IF writer # NoProc /\ pc[writer] = "build"
    THEN ClientOfVersion(IF Building(writer) THEN call[writer].seen ELSE 0)
    ELSE ClientOfVersion(client)

Resetting ==
  {p \in Procs : call[p].op # "get" /\ pc[p] \in {"lock", "drain", "load"}}

Conn(p) ==
  ClientOfVersion(IF pc[p] = "served" \/ Building(p) THEN call[p].seen ELSE 0)

Atomic == INSTANCE AtomicCache WITH
  Handlers <- Procs,
  Configs <- Config,
  NoClient <- NoConfig,
  stored <- hist[Stored],
  client <- Cached,
  resets <- Resetting,
  conn <- [p \in Procs |-> Conn(p)]

ImplementsAtomicCache == Atomic!CacheSpec
=============================================================================
