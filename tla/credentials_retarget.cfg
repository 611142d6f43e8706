SPECIFICATION Spec
CONSTANTS
  Procs = {p1}
  Users = {alice}
  RoleNames = {app}
  NoRole = NoRole
  Keys = {}
  NoKey = NoKey
  NoSecret = NoSecret
  NoConfig = NoConfig
  NoClient = NoClient
  NoLease = NoLease
  Text <- MCText
  TrimRight <- MCTrimRight
  Configs <- TwoConfigs
  Secrets <- MCSecrets
  MaxPasswords = 3
  MaxLate = 1
  Handlers = {h1}
INVARIANT RevokedIsDeadEverywhere
