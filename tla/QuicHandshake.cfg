CONSTANTS
  MessageLengths <- MCMessageLengths
  MaxPayload = 2
  CryptoSize = 3
  MaxDatagrams = 5
SPECIFICATION FairSpec
INVARIANT TypeOK
INVARIANT FlightIntact
INVARIANT RetryNeverAgrees
PROPERTY OrderlyCompletes
CHECK_DEADLOCK FALSE
