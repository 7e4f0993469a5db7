\* Two consumers, an allocator that reuses addresses at once.
SPECIFICATION Spec
CONSTANTS
  Thread = {t1, t2}
  Producer = {t1, t2}
  Consumer = {t1, t2}
  Node = {n1, n2, n3}
  Value = {v1, v2}
  Null = Null
  Pending = Pending
  None = None
  Recycle = TRUE
PROPERTY Linearizable
