------------------------------- MODULE KVSync -------------------------------
(***************************************************************************)
(* writeKVSecret (kv_sync.go): after a rotation the new password is put    *)
(* under one key of a KV v2 secret, by a PATCH that keeps the other keys   *)
(* and, when the secret turns out not to exist, by a PUT of that key       *)
(* alone.  Several rotations may sync into the same secret at once, and a  *)
(* request may arrive long after its sender has given up on it.            *)
(***************************************************************************)
EXTENDS Backend, Naturals, FiniteSets

CONSTANTS
  Secrets,      \* the KV v2 secrets, as (address, mount, path) configures them
  Keys,         \* the keys synced passwords are stored under
  NoSecret,     \* the secret does not exist: PATCH answers 404
  NoKey,        \* no key, no secret, in an idle sync
  MaxPasswords, \* bound on the passwords generated in one behaviour
  MaxLate       \* bound on the requests that go astray in one behaviour

ASSUME KVAssumption ==
  /\ NoSecret \notin Secrets \cup [Keys -> Nat]
  /\ NoKey \notin Keys
  /\ MaxPasswords \in Nat
  /\ MaxLate \in Nat

VARIABLES
  kv,    \* the latest version of each secret (Vault's KV engine, external)
  sync,  \* the call of writeKVSecret each goroutine is in
  late   \* requests of which a copy may still arrive, whoever sent them

kvVars == <<kv, sync, late>>

\* Passwords are numbered in the order they are generated; 0 is no value.
Password == 1 .. MaxPasswords
NoValue == 0

Phase == {"none", "patch", "put", "done", "failed"}

\* In the phases "patch" and "put" the record is also the request under way.
\* existed (history): the secret existed when the call began.
Sync == [phase : Phase, secret : Secrets \cup {NoSecret},
         key : Keys \cup {NoKey}, pw : Nat, existed : BOOLEAN]
NoSync == [phase |-> "none", secret |-> NoSecret, key |-> NoKey, pw |-> 0,
           existed |-> FALSE]

KVTypeOK ==
  /\ kv \in [Secrets -> [Keys -> Nat] \cup {NoSecret}]
  /\ sync \in [Procs -> Sync]
  /\ late \subseteq Sync

KVInit ==
  /\ kv \in [Secrets -> {NoSecret} \cup [Keys -> {NoValue}]]
  /\ sync = [p \in Procs |-> NoSync]
  /\ late = {}

Advance(p, from, to) ==
  /\ sync[p].phase = from
  /\ sync' = [sync EXCEPT ![p].phase = to]
  /\ UNCHANGED late

\* Slip: two of writeKVSecret's seven string arguments change places.
SyncStartSwapped(p, s, k, w) ==
  /\ sync[p].phase = "none"
  /\ sync' = [sync EXCEPT ![p] =
       [phase |-> "patch", secret |-> s, key |-> w, pw |-> k,
        existed |-> kv[s] # NoSecret]]
  /\ UNCHANGED <<kv, late>>

SyncStart(p, s, k, w) ==
  /\ sync[p].phase = "none"
  /\ sync' = [sync EXCEPT ![p] =
       [phase |-> "patch", secret |-> s, key |-> k, pw |-> w,
        existed |-> kv[s] # NoSecret]]
  /\ UNCHANGED <<kv, late>>

-----------------------------------------------------------------------------
(* What the two requests do to the secret *)

Exists(r) == kv[r.secret] # NoSecret

Merged(r) == [kv EXCEPT ![r.secret] = [@ EXCEPT ![r.key] = r.pw]]

Created(r) ==
  [kv EXCEPT ![r.secret] =
     [k \in Keys |-> IF k = r.key THEN r.pw ELSE NoValue]]

-----------------------------------------------------------------------------
\* Slip: the first request is a full write, not a merge.
PatchOverwrites(p) ==
  /\ Advance(p, "patch", "done")
  /\ Exists(sync[p])
  /\ kv' = Created(sync[p])

\* Slip: only a 404 is looked for, and any other error is taken for success.
PatchUnchecked(p) ==
  /\ Advance(p, "patch", "done")
  /\ Exists(sync[p])
  /\ kv' \in {kv, Merged(sync[p])}

PatchSucceeds(p) ==
  /\ Advance(p, "patch", "done")
  /\ Exists(sync[p])
  /\ kv' = Merged(sync[p])

\* The 404 sends the call on to the PUT.
PatchNotFound(p) ==
  /\ Advance(p, "patch", "put")
  /\ ~Exists(sync[p])
  /\ UNCHANGED kv

PutSucceeds(p) ==
  /\ Advance(p, "put", "done")
  /\ kv' = Created(sync[p])

\* Any other error becomes a warning.  That the request took effect all the
\* same is RequestStrays and Arrive, before or after.
RequestFails(p) ==
  /\ Advance(p, "patch", "failed") \/ Advance(p, "put", "failed")
  /\ UNCHANGED kv

\* The API client sends a request again, or gives up on it, without knowing
\* what becomes of the one it sent.
RequestStrays(p) ==
  /\ sync[p].phase \in {"patch", "put"}
  /\ Cardinality(late) < MaxLate
  /\ late' = late \cup {sync[p]}
  /\ UNCHANGED <<kv, sync>>

\* There may be several copies of a request: one that has arrived stays late.
Arrive(r) ==
  /\ \/ r.phase = "patch" /\ Exists(r) /\ kv' = Merged(r)
     \/ r.phase = "put" /\ kv' = Created(r)
  /\ UNCHANGED <<sync, late>>

SyncReturn(p) ==
  /\ sync[p].phase \in {"done", "failed"}
  /\ sync' = [sync EXCEPT ![p] = NoSync]
  /\ UNCHANGED <<kv, late>>

\* The call's own way to its end, and all that may happen on it.
KVAnswer(p) ==
  PatchSucceeds(p) \/ PatchNotFound(p) \/ PutSucceeds(p) \/ RequestFails(p)

KVStep(p) == KVAnswer(p) \/ RequestStrays(p)

\* On its own: any goroutine syncs any password under any key.
KVNext ==
  \/ \E p \in Procs :
       \/ KVStep(p) \/ SyncReturn(p)
       \/ \E s \in Secrets, k \in Keys, w \in Password : SyncStart(p, s, k, w)
  \/ \E r \in late : Arrive(r)

KVSpec == KVInit /\ [][KVNext]_kvVars

-----------------------------------------------------------------------------
HasKey(s, k) == kv[s] # NoSecret /\ kv[s][k] # NoValue

\* The requests that may take effect now.
UnderWay ==
  late \cup {sync[p] : p \in {p \in Procs : sync[p].phase \in {"patch", "put"}}}

(* A key that has a value keeps it until a request for this very key takes  *)
(* effect, or one of a call that began when the secret did not exist:       *)
(* however many calls are at work on the secret, and however late their     *)
(* requests arrive.  (kv_sync.go:49-69)                                      *)
KeysAreKept ==
  [][\A s \in Secrets, k \in Keys :
       HasKey(s, k) /\ ~(HasKey(s, k)' /\ kv'[s][k] = kv[s][k])
       => \E r \in UnderWay : r.secret = s /\ (r.key = k \/ ~r.existed)]_kvVars

(* What the comment at kv_sync.go:49 says of a sync: the other keys of the  *)
(* secret are preserved.  The PUT that follows a 404 does not, when another *)
(* call created the secret in between.                                      *)
KeysPreserved ==
  [][\A s \in Secrets, k \in Keys : HasKey(s, k) => HasKey(s, k)']_kvVars
=============================================================================
