\* One consumer, an allocator that reuses addresses at once.
SPECIFICATION FairSpec
CONSTANTS
  Thread = {p1, p2, c}
  Producer = {p1, p2, c}
  Consumer = {c}
  Node = {n1, n2, n3}
  Value = {v}
  Null = Null
  Pending = Pending
  None = None
  Recycle = TRUE
INVARIANT NoUseAfterFree
PROPERTIES Linearizable SpinEnds LockFree
