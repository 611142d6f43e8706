------------------------------- MODULE KVOrder -------------------------------
(***************************************************************************)
(* The order of the syncs of one key, as histories beside KVSync: nothing  *)
(* orders two syncs that overlap, but one that begins when another was     *)
(* reported done has the last word.                                        *)
(***************************************************************************)
EXTENDS KVSync

VARIABLES
  last,      \* the newest password of which a sync has begun
  over,      \* the passwords each sync follows: reported done when it began
  reported   \* the syncs reported done, with what each of them followed

orderVars == <<kv, sync, late, last, over, reported>>

OrderInit ==
  /\ KVInit
  /\ last = 0
  /\ over = [p \in Procs |-> {}]
  /\ reported = {}

\* Every rotation has a password of its own.
Start(p, s, k) ==
  /\ last < MaxPasswords
  /\ last' = last + 1
  /\ SyncStart(p, s, k, last')
  /\ over' = [over EXCEPT ![p] =
                {r.pw : r \in {r \in reported : r.secret = s /\ r.key = k}}]
  /\ UNCHANGED reported

Work(p) ==
  /\ KVStep(p)
  /\ UNCHANGED <<last, over, reported>>

Finish(p) ==
  /\ SyncReturn(p)
  /\ reported' =
       IF sync[p].phase = "done"
         THEN reported \cup {[secret |-> sync[p].secret, key |-> sync[p].key,
                              pw |-> sync[p].pw, over |-> over[p]]}
         ELSE reported
  /\ over' = [over EXCEPT ![p] = {}]
  /\ UNCHANGED last

ArriveLate(r) ==
  /\ Arrive(r)
  /\ UNCHANGED <<last, over, reported>>

OrderNext ==
  \/ \E p \in Procs :
       Work(p) \/ Finish(p) \/ \E s \in Secrets, k \in Keys : Start(p, s, k)
  \/ \E r \in late : ArriveLate(r)

OrderSpec == OrderInit /\ [][OrderNext]_orderVars

-----------------------------------------------------------------------------
(* When a sync is reported done, KV is past every password whose sync was   *)
(* reported done before it began, and does not go back to one, unless a     *)
(* copy of the request that carried it strayed.                             *)
(* (kv_sync.go:51-69, path_credentials.go:100, path_users.go:161)           *)
KVMovesOn ==
  \A r \in reported : \A w \in r.over :
     HasKey(r.secret, r.key) /\ kv[r.secret][r.key] = w
     => \E m \in late : m.pw = w
=============================================================================
