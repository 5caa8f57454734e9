SPECIFICATION BothFairSpec
CONSTANTS
  RingSize = 9
  Lead = 2
  FrameSize = {3, 4}
  BadSize = {2}
  Payload = Payload
  Serials = 3
  Restarts = TRUE
  x = x
  y = y
  Zero = Zero
  Byte = {Zero, x, y}
  Slots = 3
  TxSize = 3
  MinSize = 2
  Layouts <- MCLayouts
  Data <- Frames
INVARIANTS
  TypeOK
  InOrderUntilSkewed
  TxTypeOK
  SentAsGiven
PROPERTIES
  EveryFrameHandled
  EveryFrameLeaves
