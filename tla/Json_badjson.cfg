SPECIFICATION MCSpec
CONSTANTS
  Which = {"memory"}
  Reading <- TextsTorn
  MaxNumber = 4
  BufferLen = 2
  Documents <- AllDocuments
  Careful = TRUE
  StopsAtExit = TRUE
  MaxCalls = 3
  MaxFailures = 2
  Formats <- SomeFormats
  Keys <- SomeKeys
  Scalars <- SomeScalars
  MostValues = 3
  Proper = TRUE
  KeySkip <- S
  KeySkipDownUp <- D
  KeySkipLeafUp <- F
  KeySkipArray <- Y
  MostPieces = 7
  FreePieces = 4
  Block = 2
  MostBytes = 6
  MostFiles = 2
  AsMeant = TRUE
INVARIANT BadJsonThrows
