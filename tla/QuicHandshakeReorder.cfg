CONSTANTS
  MessageLengths <- MCMessageLengths
  MaxPayload = 2
  CryptoSize = 3
  MaxDatagrams = 5
SPECIFICATION Spec
INVARIANT HandleMeansAgreed
CHECK_DEADLOCK FALSE
