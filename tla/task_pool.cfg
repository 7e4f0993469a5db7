\* Two workers, two clients' nested forks, and a client that forgets begin_arena.
SPECIFICATION Spec
CONSTANTS
  NumWorkers = 2
  r = r a = a b = b c = c d = d x = x y = y z = z k1 = k1 k2 = k2 k3 = k3
  Task = {r, a, b, c, d, x, y, z}
  Client = {k1, k2, k3}
  Body <- Program
  Root <- Roots
  Outside = {k2}
  None = None
INVARIANTS TypeOK RunOnce GroupOutlivesTasks PendingCounts
PROPERTY ClientsReturn
