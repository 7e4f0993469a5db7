SPECIFICATION Spec
CONSTANTS
  a = a
  b = b
  c = c
  zero = zero
  one = one
  Key = {a, b, c}
  Val = {zero, one}
  Default = zero
  Absent = Absent
  Done = Done
  Free = Free
  Hash <- Hashes
  RehashSizes = {0, 1, 3, 5}
  MaxBuckets = 8
INVARIANTS
  ProbeChain
  ProbesEnd
  Counted
PROPERTY
  RefinesFiniteMap
