---------------------------- MODULE RotationOrder ----------------------------
(***************************************************************************)
(* The order of the requests of Credentials, as histories beside it.       *)
(* Nothing orders two requests that overlap, and one that failed or died   *)
(* may have left a password that nobody knows; but a request that begins   *)
(* later and is answered puts an end to all that was set before it, in     *)
(* Keycloak and, when its sync was reported done, in KV.                   *)
(***************************************************************************)
EXTENDS Credentials

VARIABLES
  set,         \* the passwords Keycloak had set when each request began
  over,        \* the passwords of the requests that were over by then
  superseded,  \* where and what was set before a request that was answered
  synced       \* the same for KV: what was over before a sync reported done

histories == <<set, over, superseded, synced>>

OrderInit ==
  /\ Init
  /\ set = [p \in Procs |-> {}]
  /\ over = [p \in Procs |-> {}]
  /\ superseded = {}
  /\ synced = {}

\* What is remembered of a request from its beginning to its end.
During(p, old, new) ==
  CASE pc'[p] = "idle" -> {}
    [] pc[p] = "idle" /\ pc'[p] # "idle" -> new
    [] OTHER -> old

Over == (1 .. nextPw - 1) \ {job[p].pw : p \in Procs}

SyncedWell(p) == EndSync(p) /\ sync[p].phase = "done"

Remember ==
  /\ set' = [p \in Procs |-> During(p, set[p], applied)]
  /\ over' = [p \in Procs |-> During(p, over[p], Over)]
  /\ superseded' = superseded \cup
       {s \in [at : Account, pw : Password] :
          \E p \in Procs : ResetAnswered(p) /\ s.at = Target(p) /\ s.pw \in set[p]}
  /\ synced' = synced \cup
       {s \in [secret : Secrets, key : Keys, pw : Password] :
          \E p \in Procs : /\ SyncedWell(p)
                           /\ s.secret = sync[p].secret /\ s.key = sync[p].key
                           /\ s.pw \in over[p]}

OrderSpec == OrderInit /\ [][Next /\ Remember]_<<vars, histories>>

-----------------------------------------------------------------------------
(* Once a rotation or a revocation has been answered, no password that the  *)
(* account had before the request began is valid again: not one that was    *)
(* returned, not one lost with the process or the answer, not by a request  *)
(* still on its way.  (path_credentials.go:58-67, 161-166; path_users.go:132-149) *)
AnsweredSupersedes == \A s \in superseded : keycloak[s.at] # s.pw

(* Once a rotation reported its sync done, its key in KV does not fall back *)
(* to the password of a request that was over before it began, whether that *)
(* one was synced, failed or died, unless a copy of its sync strayed.       *)
(* (path_credentials.go:91-119, path_users.go:151-180, kv_sync.go:51-69)    *)
KVFollows ==
  \A s \in synced :
     HasKey(s.secret, s.key) /\ kv[s.secret][s.key] = s.pw
     => \E m \in late : m.pw = s.pw
=============================================================================
