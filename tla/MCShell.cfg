SPECIFICATION BothSpec
CONSTANTS
  a = a
  b = b
  x = x
  zero = zero
  Empty = Empty
  Name <- MCNames
  NameLen <- MCNameLen
  MaxName = 6
  PathMax = 6
  MaxNodes = 4
  MaxData = 1
  Byte = {zero, x}
  Zero = zero
  PathArg <- TreePaths
  ArgPath <- TypedPaths
  TextArg <- Texts
  BootScript <- ShellBoot
  MaxInode = 6
  CommandInode = 4
INVARIANTS
  TreeShape
  TreeShowsPlainPaths
  ShellTypeOK
  NothingBelowStaleCwd
PROPERTIES
  CwdLostOnlyByItself
  FailureIsClean
