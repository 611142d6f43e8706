SPECIFICATION FairSpec
CONSTANTS
  Procs = {p1}
  Users = {alice}
  RoleNames = {app}
  NoRole = NoRole
  Keys = {k1}
  NoKey = NoKey
  NoSecret = NoSecret
  NoConfig = NoConfig
  NoClient = NoClient
  NoLease = NoLease
  Text <- MCText
  TrimRight <- MCTrimRight
  Configs <- TwoConfigs
  Secrets <- MCSecrets
  MaxPasswords = 2
  MaxLate = 1
  Handlers = {h1}
INVARIANTS TypeOK RevokedIsDead KVHoldsAppliedPasswords
PROPERTY EveryRequestEnds
