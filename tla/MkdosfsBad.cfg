SPECIFICATION Spec
CONSTANTS
  Progs = {"mkdosfs"}
  MkOptions <- MCMkOptions
  Calls <- MCCalls
  Texts <- MCTexts
  LoneTexts <- MCLoneTexts
  Values <- MCValues
  Names <- MCNames
  MaxFail = 15
  MaxOps = 3
CHECK_DEADLOCK FALSE
INVARIANT
  BadBlocksMarked
