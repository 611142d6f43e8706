SPECIFICATION KVSpec
CONSTANTS
  Procs = {p1, p2}
  Secrets = {s1}
  Keys = {k1, k2}
  NoSecret = NoSecret
  NoKey = NoKey
  MaxPasswords = 2
  MaxLate = 1
PROPERTY KeysPreserved
