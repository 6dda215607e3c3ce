CONSTANTS
  Pid = {p1, p2, p3}
  NoPid = NoPid
  Orphan = Orphan
SPECIFICATION LockSpec
SYMMETRY Symmetry
INVARIANTS LockTypeOK MutexUnlessRaced
 
