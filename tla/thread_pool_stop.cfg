\* A stop request at any time; two tasks block their workers in arena.  The pool
\* really stops, and may leave a worker blocked, hence no deadlock check.
SPECIFICATION Spec
CONSTANTS
  NumWorkers = 2
  r = r a = a b = b c = c s = s d = d e = e k1 = k1 k2 = k2
  Task = {r, a, b, c, s, d, e}
  Client = {k1, k2}
  Children <- TwoArenas
  Root <- OtherRoots
  ArenaTask = {s, b}
  Stop = TRUE
  None = None
INVARIANTS RunOnce BoundedShutdown
PROPERTIES EarlyReturnOnlyIfStopped StopSettles
CHECK_DEADLOCK FALSE
