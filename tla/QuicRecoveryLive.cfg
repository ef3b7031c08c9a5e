CONSTANTS
  hello = hello
  again = again
  finished = finished
  request = request
  Data = {hello, finished}
  EpochOf <- MCEpochOf
  InitialPTO = 6
  Deadline = 16
  MallocFails = FALSE
  MaxPn = 4
  MaxAcks = 0
  MaxRetries = 0
  MaxLosses = 2
SPECIFICATION FairSpec
PROPERTY EventuallyArrives
CHECK_DEADLOCK FALSE
