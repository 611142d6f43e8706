SPECIFICATION OrderSpec
CONSTANTS
  Procs = {p1, p2, p3}
  Secrets = {s1}
  Keys = {k1, k2}
  NoSecret = NoSecret
  NoKey = NoKey
  MaxPasswords = 3
  MaxLate = 3
INVARIANTS KVTypeOK KVMovesOn
PROPERTY KeysAreKept
CHECK_DEADLOCK FALSE
