CONSTANTS
  Responses <- MCResponses
  Instructions <- MCInstructions
  TableSize = 2
  Lookalikes <- MCLookalikes
  MaxStreams = 2
  RxSize = 6
  HdrSize = 4
  CallerLengths <- MCCallerLengths
  ConnWindow = 8
  ConnCredit = 12
  StreamWindow = 5
  StreamCredit = 7
  Windows <- MCWindows
  Pieces <- MCPieces
  LaterResponse <- MCLaterResponse
  Misreadings <- MCMisreadings
  Loads <- MCLoads
SPECIFICATION FairSpec
INVARIANT TypeOK
INVARIANT BodyInOrder
INVARIANT EndMeansAll
INVARIANT FieldsRight
INVARIANT NothingDropped
PROPERTY ImplementsHeaderTable
PROPERTY ResponseCompletes
CHECK_DEADLOCK FALSE
