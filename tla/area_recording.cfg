SPECIFICATION FairRecordingSpec
CONSTANTS
  Outputs = {o1, o2}
  MaxLayouts = 1
  MaxShots = 1
  MaxRecordings = 2
  QueueDepth = 1
  StallLimit = 2
  None = None
INVARIANT FilesKept
PROPERTY RecordingEnds
INVARIANT NothingUnseen
