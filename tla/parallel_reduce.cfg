\* Seven elements in uneven halves down to two, on three workers.
SPECIFICATION ReduceSpec
CONSTANTS
  NumWorkers = 3
  N = 7
  Grain = 2
  Task <- Ranges
  Body <- ReduceBody
  caller = caller
  Client = {caller}
  Root <- Whence
  Outside = {}
  None = None
INVARIANTS ResultInOrder BodyPrivate BodyAlive
