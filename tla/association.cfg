SPECIFICATION FairSpec
CONSTANTS
  ClientTpdu = {128, 1024}
  ServerTpdu = {400}
  BufferSize = 380
  Passwords <- MCPasswords
  SecretPassword <- MCSecret
  ClientMaxPdu = 260
  ServerMaxPdu = 280
  Params <- MCParams
  PduLengths = {20, 250}
  MaxMessages = 2
  MaxAttempts = 2
INVARIANTS
  EndsAgree
  Authenticated
PROPERTIES
  MessagesArriveInOrder
  AssociationConcludes
CHECK_DEADLOCK FALSE
