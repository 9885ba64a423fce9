SPECIFICATION IngestSpec
CONSTANTS
  Texts <- MCTexts
  Images <- MCImages
  Rasters <- MCRasters
  MaxPages = 3
  MaxPagePixels = 3
  MaxPixels = 5
  MaxBytes = 11
  MaxCharacters = 25
  MaxText = 16
  Useful = 3
  UriPrefix = 2
  PagePrefix = 2
  PageOverhead = 1
  MaxMessage = 124
  GatewayText = 16
  GatewayImages = 25
CHECK_DEADLOCK FALSE
INVARIANTS
  DocumentIsFromACleanExit WorkerIsGone OcrIsLeftByTheDead
  BudgetsAreExact AcceptedDocumentsPass
PROPERTIES SignalsReachTheWorker CallEnds
