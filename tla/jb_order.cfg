CONSTANTS
  SeqSpace = 6
  Places <- MCPlaces
  MaxCopies = 1
  BufferTime = 1
  MaxLate = 1
  QueueCap = 1
  OutCap = 1
  MaxClock = 3
  Nil = Nil
SPECIFICATION JitterSpec
INVARIANTS JitterBufferInv
PROPERTIES InOrder DropsOnlyDuplicates
CHECK_DEADLOCK FALSE
