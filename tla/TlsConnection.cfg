CONSTANTS
  CertLengths <- MCCertLengths
  MaxRecord = 2
  HsBufSize = 4
  BodyLengths <- MCBodyLengths
  MaxFrame = 2
  Window = 3
  CallerLengths <- MCCallerLengths
  MaxRequests = 2
  MaxInFlight = 1
SPECIFICATION FairSpec
INVARIANT TypeOK
INVARIANT DoneMeansAgreed
INVARIANT NonceUsedOnce
INVARIANT ServerInStep
INVARIANT DeliveredInOrder
 
PROPERTY ResponseArrives
CHECK_DEADLOCK FALSE
