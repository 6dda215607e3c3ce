CONSTANTS
  Disruptor = {d1}
  Workload = {w1, w2}
  Counts = {1, 3}
  Fault <- ScaleFaults
  Half = 8
  Whole = 2
  NoCount = NoCount
SPECIFICATION Spec
INVARIANTS TypeOK NothingForgotten CleanupRestores
