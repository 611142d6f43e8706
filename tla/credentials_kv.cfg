SPECIFICATION OrderSpec
CONSTANTS
  Procs = {p1, p2}
  Users = {alice}
  RoleNames = {app}
  NoRole = NoRole
  Keys = {k1}
  NoKey = NoKey
  NoSecret = NoSecret
  NoConfig = NoConfig
  NoClient = NoClient
  NoLease = NoLease
  Text <- MCText
  TrimRight <- MCTrimRight
  Configs <- KVConfigs
  Secrets <- MCSecrets
  MaxPasswords = 2
  MaxLate = 1
  Handlers = {}
SYMMETRY Symmetry
INVARIANTS KVHoldsAppliedPasswords AnsweredSupersedes KVFollows
PROPERTY KVIsNeverFatal
