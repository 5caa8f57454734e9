SPECIFICATION BothSpec
CONSTANTS
  RingSize = 11
  Lead = 2
  FrameSize = {3, 4}
  BadSize = {2}
  Payload = Payload
  Serials = 4
  Restarts = TRUE
  x = x
  y = y
  Zero = Zero
  Byte = {Zero, x, y}
  Slots = 3
  TxSize = 3
  MinSize = 2
  Layouts <- MCLayouts
  Data <- Frames
INVARIANT NothingButNewFrames
