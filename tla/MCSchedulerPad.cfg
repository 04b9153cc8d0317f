CONSTANTS
  l = l
  q = q
  b1 = b1
  b2 = b2
  b3 = b3
  b4 = b4
  Requests <- MCRequests
  Blocks = {b1, b2, b3, b4}
  BlockSize = 4
  MaxScheduledTokens = 8
  MaxRunningReqs = 2
  MaxPartialPrefills = 0
  LongPrefillThreshold = 0
  MaxModelLen = 6
  NumSpecTokens = 2
  ReserveFullIsl = FALSE
  BatchLimits = {2}
  PromptLen <- MCPromptLen
  MaxTokens <- MCMaxTokens
  Remote <- MCRemote
  SyncRemote <- MCSyncRemote
  Sessions = {}
  Grammars = {}
  Senders = {}
  MaxChunks = 0
  MaxUpsets = 0
SPECIFICATION Spec
INVARIANT EveryShareIsPositive
CHECK_DEADLOCK FALSE
