\* Two clients, nobody asks for a stop; one task blocks its worker in arena.
SPECIFICATION Spec
CONSTANTS
  NumWorkers = 2
  r = r a = a b = b c = c s = s d = d e = e k1 = k1 k2 = k2
  Task = {r, a, b, c, s, d}
  Client = {k1, k2}
  Children <- ForkJoinArena
  Root <- TwoRoots
  ArenaTask = {s}
  Stop = FALSE
  None = None
INVARIANTS TypeOK RunOnce ScopeHeld LatchCounts BackMeansDone
PROPERTY ClientsReturn
