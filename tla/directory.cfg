CONSTANTS
  Clients <- MCClients
  Models <- MCModels
  Calls <- MCCalls
  Definitions <- MCDefinitions
  Named <- MCNamed
  PageSize <- MCPageSize
  StartsWith <- MCStartsWith
  MaxTimeouts = 1
  MaxChanges = 3
SPECIFICATION Spec
INVARIANTS
  ModelComplete
  NamesResolve
  DataSetsExact
PROPERTY
  DirectoryExact
