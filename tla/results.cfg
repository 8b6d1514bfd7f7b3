CONSTANTS
  None = None
  Stopped = Stopped
  w1 = w1
  w2 = w2
  dc = dc
  Channels = {dc}
  Sessions = {s1}
  Workers = {w1, w2}
  Configs <- MCConfigs
  QueueSize = 2
  MaxRetry = 1
SPECIFICATION FairSpec
INVARIANTS ResultPathInv ResentOnlyIfUnanswered EndsAsAnswered EverySinkServed
PROPERTIES QueueDrains AllStop
CHECK_DEADLOCK FALSE
