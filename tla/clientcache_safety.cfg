SPECIFICATION Spec
CONSTANTS
  Procs = {p1, p2, p3}
  NoProc = NoProc
  NoConfig = NoConfig
  Text <- MCText
  TrimRight <- MCTrimRight
  Requests <- MCRequests
  MaxVersions = 3
SYMMETRY Symmetry
INVARIANTS TypeOK MutualExclusion LockIsHandedOn ServedFresh Coherent
PROPERTIES WritesBuildOnAcked ImplementsPromise ImplementsAtomicCache
