CONSTANTS
  PN = {0, 1, 2, 3, 4, 5, 6, 7, 8}
  Limit = 3
SPECIFICATION Spec
INVARIANT TypeOK
INVARIANT RangesOrdered
INVARIANT NeverAcksUnreceived
INVARIANT AckFrameExact
PROPERTY AckNeverWithdrawn
PROPERTY ImplementsAckSet
