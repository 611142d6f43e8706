----------------------------- MODULE AtomicCache -----------------------------
(***************************************************************************)
(* The configuration and the cached client as the other handlers may take  *)
(* them: getClient is one step.  ClientCache, with its lock, its waiting   *)
(* and its reads of the storage, implements this specification, and        *)
(* Credentials is built from these actions.                                *)
(***************************************************************************)
EXTENDS Backend, Config

CONSTANTS
  Handlers,   \* the config handlers that may be between their change and reset
  Configs,    \* the configurations that operators store
  NoConfig,   \* the storage entry is absent
  NoClient    \* b.client is nil

ASSUME AtomicCacheAssumption ==
  /\ Configs \subseteq Config
  /\ NoConfig \notin Configs
  /\ NoClient \notin Client

VARIABLES
  stored,   \* the entry under "config"
  client,   \* b.client
  resets,   \* the handlers that have changed the entry and not reset yet
  conn      \* the client each request was given

cacheVars == <<stored, client, resets, conn>>

CacheInit ==
  /\ stored \in Configs \cup {NoConfig}
  /\ client = NoClient
  /\ resets = {}
  /\ conn = [p \in Procs |-> NoClient]

CanBuild == stored # NoConfig /\ Usable(stored)

\* The cached client, or one built from what is stored.  The latter may happen
\* although a client is cached: it came after the cache was found empty.
Get(p) ==
  /\ conn[p] = NoClient
  /\ \/ client # NoClient /\ UNCHANGED client
     \/ CanBuild /\ client' = ClientOf(stored)
  /\ conn' = [conn EXCEPT ![p] = client']
  /\ UNCHANGED <<stored, resets>>

\* A configuration that is not usable leaves b.client nil, whatever it was.
GetFails ==
  /\ \/ UNCHANGED client
     \/ stored # NoConfig /\ ~Usable(stored) /\ client' = NoClient
  /\ UNCHANGED <<stored, resets, conn>>

\* The request is over.
LetGo(p) ==
  /\ conn' = [conn EXCEPT ![p] = NoClient]
  /\ UNCHANGED <<stored, client, resets>>

\* A config handler changes the entry; if the storage hides that behind an
\* error, no reset follows.
Change(h) ==
  /\ h \notin resets
  /\ stored' \in Configs \cup {NoConfig}
  /\ resets' \in {resets, resets \cup {h}}
  /\ UNCHANGED <<client, conn>>

Reset(h) ==
  /\ h \in resets
  /\ resets' = resets \ {h}
  /\ client' = NoClient
  /\ UNCHANGED <<stored, conn>>

\* The plugin dies.
Die ==
  /\ client' = NoClient
  /\ resets' = {}
  /\ conn' = [p \in Procs |-> NoClient]
  /\ UNCHANGED stored

CacheNext ==
  \/ \E p \in Procs : Get(p) \/ LetGo(p)
  \/ GetFails
  \/ \E h \in Handlers : Change(h) \/ Reset(h)
  \/ Die

CacheSpec == CacheInit /\ [][CacheNext]_cacheVars
=============================================================================
