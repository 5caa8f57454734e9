SPECIFICATION FatSpec
CONSTANTS
  dev = dev
  sata0 = sata0
  m = m
  a = a
  b = b
  sata1 = sata1
  eA = eA
  eB = eB
  eNone = eNone
  x = x
  y = y
  zero = zero
  Empty = Empty
  Eoc = Eoc
  Free = Free
  Name <- Names
  NameLen <- Length
  MaxName = 5
  PathMax = 5
  MaxNodes = 5
  MaxData = 3
  Byte = {zero, x, y, eA, eB, eNone}
  Zero = zero
  PathArg = {}
  ArgPath <- Typed
  TextArg <- Texts
  BootScript <- Boot
  MaxInode = 6
  DevDir = dev
  Controllers <- Both
  MaxBlockDev = 1
  DevText <- Text
  ClusterSize = 2
  Disk <- Disks
  AsEntry <- Entries
  Cut <- Prefix
  DevArg <- Devices
PROPERTY RootFilesAppear
