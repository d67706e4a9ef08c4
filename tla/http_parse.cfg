SPECIFICATION FairSpec
CONSTANTS
  Starts <- MCStarts
  Target <- MCTarget
  FileOf <- MCFileOf
  Messages <- MCMessages
  Unset <- MCUnset
  InitBuffSize = 6
  ExtraSize = 3
  Zero = zero
  MaxClients = 2
  MaxMessages <- MCMaxMessages
  MaxReplies = 4
CHECK_DEADLOCK FALSE
INVARIANTS AnsweredInOrder
PROPERTIES ParseReturns ReadAgain
