CONSTANTS
  a = a
  b = b
  Null = Null
  EncDict = EncDict
  Garbled = Garbled
  Opening = Opening
  Failed = Failed
  ObjNums <- MCObjNums
  Data <- MCData
  Paged <- MCPaged
  Files <- MCGenerationFile
  OnceFiles <- MCNoFile
  MaxEdits = 1
  MaxSaves = 1
SPECIFICATION Spec
CHECK_DEADLOCK FALSE
PROPERTIES CopyOpensAsSaved
