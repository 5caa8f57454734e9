SPECIFICATION Spec
CONSTANTS
  bin = bin
  etc = etc
  home = home
  tmp = tmp
  os_release = os_release
  hello = hello
  note = note
  x = x
  y = y
  zero = zero
  Empty = Empty
  Name <- MCNames
  NameLen <- MCNameLen
  MaxName = 16
  MaxNodes = 7
  MaxData = 2
  Byte = {zero, x, y}
  Zero = zero
  PathArg <- CallPaths
  TextArg <- CallTexts
  BootScript <- InitScript
  MaxInode = 9
INVARIANT TypeOK
PROPERTIES
  ImplementsFileTree
  BootNeverFails
