CONSTANTS
  Configs <- MCConfigs
  QueueCap = 1
  PartialEvery = 2
  FinalEvery = 3
  SeqWrap = 4
  TsWrap = 16
SPECIFICATION MediaSpec
INVARIANTS MediaPathInv AudioIsReference TimestampsPlaceAudio FramesAreDecoded
CHECK_DEADLOCK FALSE
