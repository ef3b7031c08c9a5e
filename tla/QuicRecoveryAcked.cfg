CONSTANTS
  hello = hello
  again = again
  finished = finished
  request = request
  Data = {hello, finished, request}
  EpochOf <- MCEpochOf
  InitialPTO = 1
  Deadline = 2
  MallocFails = FALSE
  MaxPn = 4
  MaxAcks = 0
  MaxRetries = 0
  MaxLosses = 0
SPECIFICATION Spec
INVARIANT AcknowledgedLeavesQueue
CHECK_DEADLOCK FALSE
