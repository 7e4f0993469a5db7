SPECIFICATION Spec
CONSTANTS
  x = x
  y = y
  Elem = {x, y}
  Block = 2
  Junk = Junk
  MaxIds = 4
  k1 = k1
  k2 = k2
  k3 = k3
  OrderKey = {k1, k2, k3}
  OrderVal = {x, y}
  TypeSizes = {1, 2, 4}
  MaxLength = 7
  Zero = Zero
INVARIANTS
  SparseIsVector
  OrderIndexed
  OrderKeysOnce
  RoundTrip
CHECK_DEADLOCK FALSE
