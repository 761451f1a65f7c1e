SPECIFICATION MCSpec
CONSTANTS
  Handles = {h1, h2}
  GpuHandles = {h1}
  First = h1
  Slots = {b1, b2}
  MaxChanges = 2
  MaxTurns = 2
  None = None
CHECK_DEADLOCK FALSE
INVARIANT WholeFrames
 
 
PROPERTY PictureCatchesUp
