CONSTANTS
  a = a
  b = b
  Null = Null
  EncDict = EncDict
  Garbled = Garbled
  Opening = Opening
  Failed = Failed
  ObjNums <- MCObjNums
  Data <- MCData
  Paged <- MCPaged
  Files <- MCFiles
  OnceFiles <- MCOnceFiles
  MaxEdits = 1
  MaxSaves = 2
SPECIFICATION Spec
CHECK_DEADLOCK FALSE
INVARIANTS TypeOK ChainIsRight NewestEntryWins RebuildFindsLast IntactOpens
PROPERTIES Implements FullCopyOpens
