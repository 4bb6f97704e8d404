SPECIFICATION MCSpec
CONSTANTS
  Which = {"walk", "write", "copy", "scan", "output", "memory", "utf", "log"}
  Reading <- TextsRead
  MaxNumber = 4
  BufferLen = 2
  Documents <- AllDocuments
  Careful = TRUE
  Block = 2
  MostBytes = 6
  MostFiles = 2
  AsMeant = TRUE
  StopsAtExit = TRUE
  MaxCalls = 3
  MaxFailures = 2
  Formats <- SomeFormats
  Keys <- SomeKeys
  Scalars <- SomeScalars
  MostValues = 3
  Proper = TRUE
  KeySkip <- S
  KeySkipDownUp <- D
  KeySkipLeafUp <- F
  KeySkipArray <- Y
  MostPieces = 7
  FreePieces = 4
INVARIANTS
  JsonIsRead JsonIsWalked JsonIsWritten OutputsAreWhole DocumentsAgree
  TextsConvert LogIsSound AbortTellsWhy
PROPERTIES WalkInTree CopyEnds StepsAdvance
