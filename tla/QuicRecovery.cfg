CONSTANTS
  hello = hello
  again = again
  finished = finished
  request = request
  Data = {hello, again, finished, request}
  EpochOf <- MCEpochOf
  InitialPTO = 1
  Deadline = 2
  MallocFails = TRUE
  MaxPn = 3
  MaxAcks = 1
  MaxRetries = 4
  MaxLosses = 0
SYMMETRY Interchangeable
SPECIFICATION Spec
INVARIANT TypeOK
INVARIANT NonceReusedByRetryOnly
INVARIANT NothingForgotten
PROPERTY PassComplete
CHECK_DEADLOCK FALSE
