# A TLA+ model of the Keycloak secrets engine

The repository is a plugin for HashiCorp Vault: it sets passwords of Keycloak users, returns
them, leases them, overwrites them when the lease is revoked, and copies them into a Vault KV
secret. This directory models it in TLA+: TLC checks the models on small instances, and TLAPS
proves the main safety properties for every value of the constants.

Paths such as `path_credentials.go:78` are relative to the repository's root. `PROJECT.json`
lists, for every definition that stands for code, the lines it stands for; the runs, the
mutants each property was seen to catch, the findings, the hazards and the theorems.

## 1. The system

Vault core calls the plugin over RPC. Every request runs in a goroutine of its own, and nothing
in Vault serialises the requests of one mount, nor those about one role, one user or the
configuration.

| Component | State | Operations that change state | Talks to |
|---|---|---|---|
| Backend, `backend.go` | `b.client` (the cached client), `b.lock` (a `sync.RWMutex`) | `getClient`, `reset`, `invalidate` | storage (reads `config`) |
| Configuration, `path_config.go` | storage entry `config` | `pathConfigWrite` (read, merge, Put, `reset`, then a connection test that only logs), `pathConfigDelete` (Delete, `reset`) | storage, backend, Keycloak (the test) |
| Keycloak client, `client.go` | none: an immutable record built by `newClient` | `ResetPassword` (admin token, user ID, PUT) | Keycloak |
| Leased credentials, `path_credentials.go` | none of its own: Vault keeps the lease and its `InternalData` | `pathCredentialsRead`, `secretRevoke`; `secretRenew` changes only the lease's times | roles, backend, Keycloak, KV |
| User rotation, `path_users.go` | none | `pathUsersRotate` | backend, Keycloak, KV |
| KV sync, `kv_sync.go` | none: the KV secret is another mount's | `writeKVSecret` (PATCH, after a 404 a PUT) | Vault's HTTP API |
| Roles, `path_roles.go` | storage entries `roles/<name>` | `pathRoleWrite` (read, merge, check, Put), `pathRoleDelete` | storage |
| Password generator, `password.go` | none | `generatePassword` | crypto/rand |
| Entry point, `cmd/`, `version.go` | none | none | Vault |

What is hard about it, in the order of the hazards of `PROJECT.json`:

* *The cached client.* `getClient` gives up the read lock before it takes the write lock
  (`backend.go:82`), does not look at `b.client` again, and reads the storage under the write
  lock. Meanwhile others fill the cache, store a new configuration, reset the cache, or fail.
  A config handler stores first and resets afterwards, and a storage error skips the reset.
* *Two systems, no transaction.* Keycloak is changed first and the caller answered afterwards.
  The answer can be lost, the handler can give up on a request that Keycloak applies later, the
  plugin can die between the two, and Vault runs a failed revocation again.
* *Nothing orders requests about one user*: rotations, leases and revocations of one account
  overlap, while the role they came from and the configuration change under them.
* *The configuration is read twice* in one rotation, for the client and for the sync, and once
  more when the lease is revoked.
* *The KV secret is shared* by all keys, and is created by whoever first finds it missing. A request
  to it may be sent again, or be given up and arrive later, after requests sent since.
* *A write reads, merges and stores without a lock*, the configuration's as well as a role's, and the
  checks are made on what was read.
* *A lease outlives the role it came from*: its renewal takes the times of the role as it is by then.

What makes each part correct:

* Backend: the lock excludes; no request is answered with a client older than the last change
  that was acknowledged; a stale client in the cache is about to be dropped; nobody waits for
  ever.
* Credentials and rotation: a password is in force before it is handed out; a lease that was
  reported revoked is dead and stays dead; no failure around KV costs the caller a password.
* Configuration: a write loses nothing that was acknowledged before it began. (Of two that overlap
  one may lose the other's fields; nothing in the code prevents it, and the property allows it.)
* KV sync: a write touches one key; a sync that follows another has the last word; KV holds only
  passwords Keycloak accepted; a sync that does not happen is reported.
* Roles: a stored role names a user and has `ttl <= max_ttl`; a write builds on a role that was in
  force while it ran.
* Leases: no lease outlives what a role in force at its last grant allows.

## 2. The modules

```
Backend                        the goroutines that serve requests
  AtomicCache                  configuration and client as the other handlers see them
  ClientProvider               what getClient promises
  ClientCache                  backend.go, path_config.go; implements the two above
    MCClientCache, ClientCacheProofs
  KVSync                       kv_sync.go
    KVLemmas                   what a write to KV does to its keys (lemmas)
    KVOrder                    histories of the order of syncs
      KVProofs
  Credentials                  path_credentials.go, path_users.go, client.go; extends AtomicCache
                               and KVSync, implements PasswordLife
    MCCredentials, CredentialsProofs
    RotationOrder              histories of the order of requests
      MCRotations, RotationProofs
  RoleProvider                 what writing and deleting a role promise
  RoleStore                    path_roles.go; implements RoleProvider
    Leases                     the times of a lease: issue, secretRenew
      MCLeases, LeasesProofs
Config        values: ClientCache, ClientProvider and AtomicCache extend it
RoleEntry     values: RoleStore and RoleProvider extend it
PasswordLife  what the engine promises about every password
  PasswordLifeProofs
```

A module indented under another extends it. With a refinement mapping, `ClientCache` instantiates `ClientProvider`
and `AtomicCache`, `Credentials` instantiates `PasswordLife`, and `RoleStore` instantiates `RoleProvider`. The `MC` modules hold the
instances for TLC, the `Proofs` modules the theorems.

**Config** has no state. `Merge` is what `pathConfigWrite` does with the supplied fields, its
one default included (`realm`, only if neither supplied nor stored); `Usable` and `ClientOf` are
the checks and defaults of `newClient`. Strings are members of a set `Text`, and
`strings.TrimRight(url, "/")` is a function on it.

**ClientCache** has one action per atomic step of `getClient`, `reset`, `pathConfigWrite`,
`pathConfigDelete` and `invalidate`. The mutex is Go's: `AnnounceLock` shuts out new readers
and other writers, `AcquireLock` waits for the readers inside. The storage is modelled as the
history `hist` of what it held, so that a configuration is named by its index. `client` is the
index from which `b.client` was built (0 is nil), `call[p].seen` the index a goroutine read or
stored. A storage call may succeed, fail, or take effect and report an error (`Change`).
`Replicate` is a standby seeing the entry change before Vault calls `invalidate`; `Restart`
kills the process. `acked` and `unacked` are history variables: the newest version whose
handler has reset the cache, and the newest one whose handler reported an error although it took
effect. `floor` notes, for a `getClient` and for a write, what was acknowledged when it began.

**ClientProvider** is the abstract specification of `getClient`: a call is answered with the
client of some configuration in force at or after the last acknowledged change before the call
began, is refused only if such a configuration was missing or unusable, and may fail.

**AtomicCache** is a second, coarser view of the same code, and the one the other handlers are built
on: the configuration in storage (`stored`), the cached client (`client`), the config handlers between
their storage call and their reset (`resets`), and the client each request was given (`conn`), which
the request keeps however the configuration changes. `getClient` is the one step `Get`. `ClientCache`
implements it (`ImplementsAtomicCache`): `Get` is the cache hit, or the read of the configuration under
the write lock, and a client being built there counts as cached. `Get` may answer from what is
stored although a client is cached, because `getClient` does not look at the cache again.

**KVSync** is `writeKVSecret`: a call sends a PATCH and, if that is answered with 404, a PUT. In the phases
`patch` and `put` the call's record is also its request. Vault's API client sends a request again, or
gives up on it: `RequestStrays` puts a copy into `late`, and `Arrive` is a copy taking effect, at any time and
any number of times, also when its call is long over. `RequestFails` is an error, whatever became of the
request. `existed` notes whether the secret existed when the call began. `Credentials` extends the module and
shares its variables; on its own, `KVSpec` lets any goroutine sync any key.

**KVOrder** numbers the passwords, as a rotation makes a new one each, and adds two histories: the syncs
`reported` done, and `over[p]`, those of the same key that were reported when `p`'s sync began.

**Credentials** has the three requests that set passwords. A request goes through
`client → reset → sent → (kv → sync) → respond` (`pc`); `job[p]` holds the local variables of its
handler, `conn[p]` its client. `SendReset` puts a message on `wire`; `Apply` is Keycloak applying it, at any time, at
most once, also long after `RequestRefused` gave up on it; a lost request is one that is never
applied. `ResetAnswered` is status 204: it ends a revocation, and Vault drops the lease, or
sends a rotation on. `BeginRevoke` is Vault revoking a lease, repeatedly if it fails, and with
what the lease kept: the username, not the role and not the realm. Operators change the
configuration (`ChangeConfig`, `ResetClient`) and the roles (`ChangeRole`) at any time; `Crash` ends
every request at any point. `applied`, `returned`, `revoked` and a lease's `at` are history.

**RotationOrder** remembers, beside `Credentials` and without a say in it, what came before what: for each
request, the passwords Keycloak had set (`set`) and the passwords whose requests were over (`over`) when it began;
and from these, when a request is answered or its sync reported done, what is thereby superseded in Keycloak
(`superseded`) and in KV (`synced`).

**PasswordLife** is the abstract specification of `Credentials`: a password is set at most once,
on one account; it is handed out only after it was set; a credential is reported revoked only
when its account has moved on to another password.

**RoleEntry** has no state: a role as a value, what a write makes of it (`Merge`; a role that is absent counts as the empty
one) and what `pathRoleWrite` demands of the result (`Sound`).

**RoleProvider** is the abstract specification of role writes and deletes: a request takes effect in one step, and once, or not at
all. A write then puts in place a sound role, its request merged into an entry that was in force since it came (`since`).
Which one is left open, since writes that overlap may undo each other.

**RoleStore** has `pathRoleWrite` as `BeginWrite`, `ReadRole` (getRole, the merge and the checks) and `PutRole`,
and `pathRoleDelete` as `BeginDelete` and `RemoveRole`, with any number of handlers between their steps.
As in `ClientCache`, what was stored under a name is a history. `floor` (history) is the version in force
when a request came, `seen` the one it read. `RoleRequestFails` is a handler that a storage error or a crash ends
without effect; a Put that took effect and reported an error is `PutRole`, since nothing follows it. For `RoleProvider`, a request
comes at `BeginWrite` or `BeginDelete`, takes effect at `PutRole` or `RemoveRole`, and is given up when it is refused or fails; reading
the role is a stutter.

**Leases** extends it with a clock and with what Vault does with `ttl` and `max_ttl`: `BeginIssue` and `BeginRenew` read
the role (a request in between is `grant[p]`), `Register` and `Extend` are Vault core computing the expiry
from the response by the rules of `framework.CalculateTTL` (external: an increment asked for goes before
the plugin's `ttl`, both yield to `max_ttl` counted from the issue, and the mount's limits stand in for 0).
The renewal refuses a deleted role, and keeps the lease's own times where the role has 0. A lease
notes the versions of its role between which it was granted (`from`, `upto`).

Definitions marked *Slip* are what a plausible bug would make of the definition that follows
them; the specifications do not use them. `PROJECT.json` lists which property each one breaks.

### Abstractions

* `getClient` is one step of `Credentials`, that of `AtomicCache`, which `ClientCache` is checked and proved to implement. A role is
  replaced in one step there, as it is in `RoleProvider`, which `RoleStore` is checked and proved to implement.
* The outcome of obtaining an admin token and looking up the user is nondeterministic: the two
  read only, and every failure of theirs ends in the same error (`RequestRefused`).
* Passwords are numbered as they are generated: no two are equal. The code takes 32 bytes from
  crypto/rand.
* A config write in `Credentials` stores any member of `Configs`; how it merges is in
  `ClientCache`. There, `Replicate` brings in what another node's handlers store into an empty
  entry, which is enough to make any version of the configuration appear under the cache.
  `ChangeRole` likewise stores any role with a user, at any time: more than `RoleProvider` allows for.
* `Leases` knows nothing of passwords, and `Credentials` nothing of time: there a lease may be revoked at any
  moment after its issue, which is what safety needs.
* A request to KV that was given up may arrive at any later time and more than once; one that was
  answered has taken effect before its answer. Nobody deletes the KV secret.
* Vault runs at most one revocation of a lease at a time and keeps the lease until one succeeds.
* Logging, wording, the listing and reading paths, the existence checks and the connection test
  after a config write change nothing that is modelled and are left out.

## 3. The runs

`tlc -config <run>.cfg <module>` in this directory; the module is in `PROJECT.json`.

| Run | Question | Bounds |
|---|---|---|
| `clientcache_safety` | Does the lock exclude, is whoever waits for it waiting for a goroutine that runs (`LockIsHandedOn`), is every answer fresh (`ServedFresh`), is a stale client on its way out (`Coherent`), does a write build on what was acknowledged (`WritesBuildOnAcked`), are `ClientProvider` and `AtomicCache` implemented? | 3 goroutines (interchangeable), 3 versions |
| `clientcache_liveness` | Does every call return, is a stale client dropped? | 2 goroutines, 3 versions, `FairSpec` |
| `kvsync` | Does a key keep its value but for requests entitled to change it (`KeysAreKept`), does the later of two syncs win (`KVMovesOn`)? | 3 calls, 1 secret, 2 keys, 3 passwords, 3 stray requests |
| `credentials_requests` | Is a revoked credential dead, is `PasswordLife` implemented? | 2 goroutines, 2 users, 1 role, 3 passwords, 1 configuration |
| `credentials_config` | Is a revoked credential dead, with configurations of two realms? Does KV hold only applied passwords although the configuration is read twice? Does every request end? | 1 goroutine, 1 user, 1 key, 2 passwords, 2 configurations, 1 config handler, 1 stray request, `FairSpec` |
| `credentials_kv` | Does an answered request supersede what was set before it (`AnsweredSupersedes`), a sync reported done what was over before it (`KVFollows`)? Does KV hold only applied passwords, is no password withheld? | 2 goroutines (interchangeable), 1 user, 1 role, 1 key, 2 passwords, 1 stray request, 3 states of the configuration, which does not change |
| `leases` | Are stored roles sound, do writes and deletes keep the promise of `RoleProvider` (`ImplementsRoleProvider`), does a lease obey its role (`LeaseObeysRole`)? | 2 goroutines (interchangeable), 1 role, 4 versions, 1 lease, time 0 to 2 |
| `kvsync_create_race` | violated: `KeysPreserved` | 2 calls |
| `credentials_retarget` | violated: `RevokedIsDeadEverywhere` | 1 goroutine, 3 passwords, 2 configurations |
| `rotated_lifetime` | violated: `RotatedStaysValid` | 1 goroutine, 3 passwords |
| `kv_silent_skip` | violated: `SyncedOrWarned` | 1 goroutine, 1 key |
| `role_defaults` | violated: `DefaultsApply` | 1 goroutine, the clock stands |

Why these bounds suffice to be interesting:

* In `ClientCache` three goroutines are a builder, a config handler and one more of either kind,
  which is the least with which a reset, a build and a second build can overlap. Three versions
  are the empty entry, a configuration, and its successor. The three requests of
  `MCRequests` store a usable configuration, change it, and make it unusable.
* In `KVOrder` three calls are two for one key, of which one may follow the other, and one for the other
  key of the same secret; three stray requests let each of them arrive late.
* In `Credentials` three passwords are an issue, a rotation or revocation that overwrites it,
  and a third that arrives late; with two goroutines any two requests overlap, and a refused
  request leaves a third message on the wire. Two realms let the configuration move between
  issue and revocation, for which two passwords do; only one of the two has a KV token. In `credentials_kv` two passwords are one that is superseded and
  the one that supersedes it; the configuration has KV sync with a token, KV sync without one, or does not exist, and
  stays as it is in favour of two requests of all three kinds.
* In `Leases` four versions are a role, two changes of it, and its deletion or a third; two goroutines
  are two overlapping writes, or a write and a renewal. The requests store a role with both times, one with
  neither, lengthen the ttl past the limit and shorten the limit; of the two increments one exceeds what is left.
  The clock reaches past the shorter limit.
* The theorems of section 5 lift these bounds.
* `MaxVersions`, `MaxPasswords`, `MaxLate`, `MaxTime` and the set `Handlers` (config handlers between Put and reset)
  are the bounds on what would grow without end. They stand in the guards of the actions and in nothing else.
* Deadlock is checked in every run but one: operators may always change something, so what it adds is
  small; the waits of `getClient` are the business of `LockIsHandedOn` and `EveryCallReturns`, those of the other handlers of
  `EveryRequestEnds`. `kvsync` really stops, when its passwords are used up and its calls are over.

**Fairness** (`ClientCache!FairSpec`). Weak fairness of each goroutine's steps: the Go scheduler
runs a runnable goroutine, storage calls return, and a handler gets to its end. Strong fairness
of `RLock` and `AnnounceLock`: Go's `RWMutex` lets the waiting readers in when a writer leaves, and
its inner mutex hands itself over to a waiter that starves, so that neither side waits for ever
although others keep coming. Nothing forces a request to begin, a storage call to succeed or the
process to live.

In `Credentials!FairSpec` each request has weak fairness of its own steps: storage calls and `getClient`
return (that is `EveryCallReturns`), the Keycloak client has a timeout of thirty seconds (`client.go:68`), and Vault's
API client one of its own and a bounded number of retries. Going astray is no step towards the end, and is excluded. Keycloak and the network
are not fair: nothing that was sent has to arrive, and the end may be an error.

## 4. What disagrees with the documents

Each is a run that TLC must find violated.

1. `KeysPreserved`. "Attempt PATCH first — preserves all other keys" (`kv_sync.go:49`). Two syncs
   that both find the secret missing both create it with a PUT, and the second erases the key of
   the first, without a warning. A PUT with check-and-set 0 would not.
2. `RevokedIsDeadEverywhere`. Revocation is to invalidate the issued credential
   (`path_credentials_test.go:93-95`). The lease does not keep the realm or URL it was issued in:
   if the configuration moves, the revocation resets the user of that name in the new realm,
   succeeds, and the credential stays valid in the old one.
3. `RotatedStaysValid`. A rotated password "remains valid in Keycloak until the next explicit
   rotation" (`README.md:58-60`). Revoking an older lease of the same user overwrites it.
4. `SyncedOrWarned`. A KV sync failure returns a warning (`README.md:352-353`). If the configuration
   cannot be read for the second time, the sync is skipped in silence (`path_credentials.go:93`,
   `path_users.go:154`).
5. `DefaultsApply`. "Lease duration before the credential is automatically revoked. Defaults to 1 hour." (`path_roles.go:48`, and
   3600 and 86400 in `README.md:492-493`). `GetOk` reports a field that was not sent as absent
   (`path_roles.go:134`): the role is stored with 0, and its leases have the mount's defaults.

## 5. The proofs

`tlapm <module>` checks them; no step is left without a proof. The assumptions are those of the
constants, named in the modules that declare them (`ConfigAssumption`, `CacheAssumption`, `AtomicCacheAssumption`,
`KVAssumption`, `CredentialsAssumption`, `EntryAssumption`, `RoleAssumption`, `LeaseAssumption`): the null values are not values, the
requests and configurations are made of `Text`, the secrets that configurations name are in `Secrets`, the
mount's default TTL is positive and within its maximum, and the bounds are naturals. TLC evaluates them in every run. No set is assumed finite.

### ClientCacheProofs

`TypeCorrect`, `LockIsExclusive` (`MutualExclusion`), `GetClientIsFresh` (`ServedFresh`),
`CacheIsCoherent` (`Coherent`), `NoCycleOfWaits` (`LockIsHandedOn`), `WritesKeepAcked` (`WritesBuildOnAcked`) and the two
refinements `PromiseKept` (`ImplementsPromise`) and `AtomicCacheKept` (`ImplementsAtomicCache`), from one inductive
invariant `IInv`. Its strengthenings:

* `CallInv` ties the program counter to the kind of call, and says that what a call has seen
  exists. Without it the shared label `load` of `getClient` and `reset` says nothing.
* `Fresh`: the cached client, and the configuration from which one is being built, are at least
  as new as what was acknowledged. `ServedFresh` is not inductive without it. It is kept because
  an acknowledgement needs the write lock, which the builder holds (`MutualExclusion`).
* `BuildCoherent`: a configuration that is superseded *while* a client is built from it has a
  reset coming. It is `Coherent` one step earlier, before the assignment to `b.client`.

The refinement needs one more, `Valid`: the cached client was built from a configuration that was there
and usable. It maps a cache hit and a successful `Build` to `Give`, the other ends of a call to `Refuse` and
`Fail`, every way the storage changes to `Change`, and `Clear` to `Acknowledge`; waiting for locks,
missing the cache and loading are stutters. A cache hit is a legal `Give` because of `Fresh`.

In the refinement of `AtomicCache` a client is given when the configuration is read under the write lock, and
counts as cached from then on; the `Build` that follows is a stutter. It is sound because nobody looks at the cache
before the lock is released (`MutualExclusion`).

`NoCycleOfWaits` is the safety half of `EveryCallReturns`, for any number of goroutines: a waiting goroutine waits for one that
is loading, building or clearing, or for a reader that is about to leave, and none of these waits for the mutex. It follows
from `TypeOK` and `MutualExclusion`, which says where in the code those stand that hold the lock.

Two theorems are about the configuration as a value. `LaterWriteWins`: a write that is repeated, or corrected by one that
supplies at least its fields, leaves no trace. `SeparateWritesCommute`: successive writes of different fields give the same client
and the same KV destination in either order. What is stored may differ in `realm`, where the empty string stays only if it
is written last. So it takes an overlap, or the same field, for one write to cost another its effect.

### CredentialsProofs

`TypeCorrect`, `RevokedStaysDead` (`RevokedIsDead`), `KVHoldsOnlyApplied`
(`KVHoldsAppliedPasswords`), `LifeRefined` (`ImplementsPasswordLife`, the refinement), `KVNeverWithholds`
(`KVIsNeverFatal`), and `RotationsKeepKeys` (`KeysAreKept`). The inductive invariant's strengthenings:

* `WireInv`: a password on the wire is not applied yet, is in one message, and the message of a
  waiting request is for the account the request is about. Hence a late message never brings a
  dead password back, which is the crux of `RevokedIsDead`.
* `LeaseInv`: leases carry passwords that were applied and handed out, and the user kept in the
  lease is the one of the account of issue. A lease that kept the role instead would break it.
* `Overwritten`: a revocation that Keycloak has carried out but not yet reported has already
  killed the password of its lease, if it went to the account of issue. It is what makes
  `RevokedIsDead` hold at the moment the 204 arrives, with other requests applied in between.
* `JobInv` says what a request's place in the code says of its local variables and its client, `SyncInv` what is
  being written to KV, or may still arrive there: only what Keycloak has applied.

The refinement maps `Apply` to `Set`, `Respond` to `HandOut`, a successful revocation in the realm of
issue to `Retire`, and every other step to a stutter.

*Composition.* `RotationsKeepKeys` carries what the KV syncs alone promise about the keys of a secret over to them in the midst of
rotations, revocations and crashes. Its invariant `PlacedInv` says that a call that found the secret there does not go on to the
PUT, because a secret once created stays.

Of the cache, `Credentials` uses the actions of `AtomicCache` and nothing else, by its construction. That the cache of the code
does only what `AtomicCache` allows is `AtomicCacheKept`. No theorem is about one specification that has both the handlers of
`Credentials` and the steps of `ClientCache`: that the two results combine rests on the shared variables `stored`, `client`, `resets` and
`conn` being all that passes between the two parts. The roles are not composed by refinement at all: `ChangeRole` is free to put any role with a user in place.

### PasswordLifeProofs

`LifeIsFinal`: the rules of `PasswordLife` for single steps imply `RetiredIsDead`, that a credential reported revoked
never opens its account again. With `LifeRefined`, that holds of the engine, and of anything else that implements `PasswordLife`.

### RotationProofs

`AnswersSupersede` (`AnsweredSupersedes`) and `KVKeepsUp` (`KVFollows`), of `OrderSpec`: `Credentials` with its histories, for any number of
requests at once. The invariant adds to that of `Credentials`:

* `Overtaken`: when Keycloak has applied the password of a waiting request, its account has none of those that were set
  when the request began. From then on they cannot come back, because a password is applied at most once (`WireInv`).
* `SupersededInv` is `AnsweredSupersedes` with its types, and that what is superseded was applied.
* `OverInv`: a password whose request is over is in no request any more, so that no sync carries it.
* `SyncOwn`: a sync carries the password of its own request.
* `DoneInv`: a sync that is done and not yet reported already has the last word over what was over when its request began,
  unless a copy of that strayed.
* `SyncedInv` is `KVFollows` with its types, and that what was superseded is in no request any more.

`KVLemmas` holds the two lemmas on `Merged` and `Created` that this and `KVProofs` share.

### KVProofs

`KVTypeCorrect` (`KVTypeOK`), `KeysKept` (`KeysAreKept`) and `SyncsMoveOn` (`KVMovesOn`), all of `OrderSpec`, for any number of calls,
secrets, keys and stray requests. `KVMovesOn` is about syncs that were reported; its invariant adds what holds before:

* `OwnPassword`: no two calls, and no call and no report, have the same password, so that only a stray copy can
  bring a reported password back.
* `OverInv`: what a call follows was reported, so that it is in no call any more.
* `DoneInv`: a call that is done, but not yet reported, already has the last word over what it follows.
* `CallInv`: a call that is in its PUT began when the secret did not exist. `KeysAreKept` needs it.

### LeasesProofs

`TypeCorrect`, `RolesStaySound` (`StoredRolesAreSound`), `LeasesObeyRoles` (`LeaseObeysRole`) and `RolesRefined`
(`ImplementsRoleProvider`). The strengthenings:

* `RoleInv`: what a handler is about to store is sound, and is its request merged into the version it read,
  which is no older than the request. The histories only grow (`Kept`), so that this outlives the other handlers' steps.
* `GrantInv`: a creds read or renewal carries a limit that the version of its role noted when it began allows.
  For a renewal of a lease whose role sets no `max_ttl` this holds because the lease's own limit is within the mount's.
* `LeaseInv`: the same of the leases, for the time from issue to expiry.

The refinement of `RoleProvider` maps `PutRole` and `RemoveRole` to `TakeEffect`. It needs `RoleInv`: the version a write has read is
among those its request may build on, and what it is about to store passed the checks. `SinceGrows` says that what one
handler stores is, for every other request about the name under way, one more that it may have read.
`RoleWritesCompose` is about the role as a value: a write that is repeated or corrected leaves no trace, and
writes of different fields, if the checks let them, make the same role in either order.

### Model-checked only

Liveness (`EveryCallReturns`, `StaleIsDropped`, `EveryRequestEnds`) is out of the prover's reach, since it needs ENABLED. Every other
property of a passing run is proved.

## 6. Not modelled

* That a revocation eventually succeeds. Each attempt takes a password of its own, of which a run has a bounded
  number, so that TLC cannot tell a revocation that never succeeds from a bound that is used up.
* Renames of users in Keycloak: the plugin names an account by its username, and so does the model.
* The connection test after a config write: it uses a client of its own and only logs.
* `ListUsers`, `GetUser` and the listing and reading paths: they change nothing but the cached client, and the
  `getClient` of any request is in `ClientCache`.
* The entry point and the registration of paths: no state.

Three hazards have no property. Two the models contain, but nothing in the code prevents them and no document denies them: the password
of one realm goes to the KV secret of another when the configuration moves between its two reads, and a stray PATCH takes its key
back. `KVHoldsAppliedPasswords` holds through the first, and `KVMovesOn` and `KVFollows` say that a key falls back in no way other
than the second. The third is the rename of a user, above.

## 7. The plan

Done, in this order: `Config` and `ClientCache` with `ClientProvider`, because every request goes through it; the life of
a password, `Credentials` with `PasswordLife`, which is what the engine is for; the proofs about both; the KV requests that
arrive late and the order of syncs; `AtomicCache`, from whose actions `Credentials` is built; roles and
the times of leases; the proofs about these; the order of rotations in Keycloak and in KV; the locks without a cycle of waits;
`RoleProvider`, the promise of role writes.

Next, in this order:

1. A specification with the handlers of `Credentials` and the steps of `ClientCache` together, and a proof that it implements
   `Credentials`.
2. Liveness of revocation under a Keycloak that is eventually reachable, over an abstraction in which the passwords are not
   numbered.
3. A composition of `Leases` and `Credentials` in which Vault revokes a lease because it expired.
