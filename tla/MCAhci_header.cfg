SPECIFICATION FairSpec
CONSTANTS
  Junk = Junk
  Nowhere = Nowhere
  image = image
  stack = stack
  FirstBus <- Bus
  Removable = {1}
  MaxCtrls = 2
  Buffer = {image, stack}
  InImage = {image}
  Lba = {0}
  Count = {2}
  Requests <- FirstCaller
  MaxSectors = 2
  MaxPolls = 2
  AtZero <- Page
  Layouts <- EntriesCommented
PROPERTY SuccessIsTrue
