CONSTANTS
  Clients <- MCClients
  NumberOfNames = 3
  Size <- MCSize
  FirstStore <- MCFirstStore
  ChunkSize = 1
  PageSize = 1
  MaxOpenFiles = 2
  HandlerReturns = FALSE
  Calls <- MCCalls
  MaxTimeouts <- MCTimeouts
  MaxDownloads = 3
  MaxChanges = 1
SPECIFICATION Spec
INVARIANTS
  OpenFilesAccounted
  AnswersComplete
PROPERTY CallsReturn
