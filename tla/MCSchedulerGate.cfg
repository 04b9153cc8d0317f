CONSTANTS
  l = l
  q = q
  b1 = b1
  b2 = b2
  b3 = b3
  b4 = b4
  Requests <- MCRequests
  Blocks = {b1, b2, b3, b4}
  BlockSize = 4
  MaxScheduledTokens = 8
  MaxRunningReqs = 2
  MaxPartialPrefills = 1
  LongPrefillThreshold = 0
  MaxModelLen = 8
  NumSpecTokens = 0
  ReserveFullIsl = FALSE
  BatchLimits = {1}
  PromptLen <- MCPromptLen
  MaxTokens <- MCMaxTokens
  Remote <- MCRemote
  SyncRemote <- MCSyncRemote
  Sessions = {}
  Grammars = {}
  Senders = {}
  MaxChunks = 0
  MaxUpsets = 0
SPECIFICATION FairSpec
PROPERTY LoadedIsPromoted
CHECK_DEADLOCK FALSE
