SPECIFICATION Spec
CONSTANTS
  Procs = {p1, p2}
  RoleNames = {app}
  Users = {"alice"}
  NoUser = ""
  Keys = {}
  NoKey = NoKey
  Unset = Unset
  Requests <- MCRequests
  NoRole = NoRole
  DefaultTTL = 1
  DefaultMaxTTL = 3
  MaxVersions = 4
  LeaseIds = {l1}
  NoLease = NoLease
  Ended = Ended
  NoGrant = NoGrant
  SystemTTL = 2
  SystemMaxTTL = 4
  Increments = {0, 3}
  MaxTime = 2
SYMMETRY Symmetry
INVARIANTS TypeOK StoredRolesAreSound LeaseObeysRole
PROPERTIES ImplementsRoleProvider
