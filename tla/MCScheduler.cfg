CONSTANTS
  a = a
  l = l
  s = s
  b1 = b1
  b2 = b2
  b3 = b3
  b4 = b4
  Requests <- MCRequests
  Blocks = {b1, b2, b3, b4}
  BlockSize = 3
  MaxScheduledTokens = 4
  MaxRunningReqs = 2
  MaxPartialPrefills = 2
  LongPrefillThreshold = 2
  MaxModelLen = 8
  NumSpecTokens = 1
  ReserveFullIsl = FALSE
  BatchLimits = {1, 2}
  PromptLen <- MCPromptLen
  MaxTokens <- MCMaxTokens
  Remote <- MCRemote
  SyncRemote <- MCSyncRemote
  Sessions = {s}
  Grammars = {s}
  Senders = {a}
  MaxChunks = 1
  MaxUpsets = 1
SPECIFICATION Spec
SYMMETRY BlockSymmetry
VIEW View
INVARIANTS TypeOK EveryBlockOnce NoReuseInFlight FencesAreReached TransfersKeepBlocks
   PartialPrefillsBounded  SlotsHeld ComputedHasBlocks HoldersExact
  NoStepPastTheLimit PreemptedFirst EveryShareIsPositive
CHECK_DEADLOCK FALSE
