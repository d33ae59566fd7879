\* The whole class in any order of calls.  The system may stop: a KeyError ends it.
CONSTANTS
  Requests = {r1, r2, r3, r4, r5}
  MaxSlots = 5
  NoReq = NoReq
SPECIFICATION MCSpec
SYMMETRY RequestSymmetry
CHECK_DEADLOCK FALSE
INVARIANTS
  Bijection
  Partition
  CompactUnlessFreed
  RaisesOnlyOnAGap
PROPERTY ImplementsUnlessFreed
