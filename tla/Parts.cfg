SPECIFICATION Spec
CONSTANTS
  Progs = {"mkdosfs", "qr", "cjson"}
  MkOptions <- MCMkOptions
  Calls <- MCCalls
  Texts <- MCTexts
  LoneTexts <- MCLoneTexts
  Values <- MCValues
  Names <- MCNames
  MaxFail = 15
  MaxOps = 3
CHECK_DEADLOCK FALSE
INVARIANTS
  FormatAccepted
  BootFixedOnce
  TextKept
  VersionLeast
  PartsOneVersion
  SymbolReadable
  MemoryOwned
  PrintParses
