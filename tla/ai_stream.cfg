CONSTANTS
  None = None
  Configs <- BothConfigs
  QueueSize = 1
  MaxRetries = 1
  AudioCap = 1
  ResultCap = 2
  Window = 1
  PartialEvery = 1
  FinalEvery = 2
  MaxChunks = 2
SPECIFICATION FairSpec
INVARIANTS AIStreamInv FinalsKept ReconnectsAsConfigured
PROPERTIES StreamEnds PairSettles
CHECK_DEADLOCK FALSE
