\* Every thread pushes and pops; no address is reused while a popper holds it.
SPECIFICATION Spec
CONSTANTS
  Thread = {t1, t2, t3}
  Producer = {t1, t2, t3}
  Consumer = {t1, t2, t3}
  Node = {n1, n2, n3}
  Value = {v1, v2}
  Null = Null
  Pending = Pending
  None = None
  Recycle = FALSE
SYMMETRY Symmetry
INVARIANTS TypeOK ListIntact NodesOwned LinkTargetAlive
PROPERTY Linearizable
